---------------------------- MODULE Sha1dcsumProofs ----------------------------
(***************************************************************************)
(* Proofs about Sha1dcsum: what the program prints and what it exits with, *)
(* for any command line, any files, any size of its buffer and any failure *)
(* of the calls it makes.                                                  *)
(***************************************************************************)
EXTENDS Sha1dcsum, SequenceTheorems, TLAPS

Message == Seq(Byte)
Context == [msg : Message, reduced : BOOLEAN, phase : {"uninitialised", "open", "finished"}]
Line    == [file : Nat, digest : {Digest(msg, reduced) : msg \in Message, reduced \in BOOLEAN}]

TypeInv ==
  /\ TypeOK
  /\ argv # <<>> /\ ctx \in Context /\ out \in Seq(Line)

(* An argument is being worked on, or one of them is next. *)
Busy == pc \in {"read", "ingest", "close", "finish"}

(* The arguments that are done with: those before the current one. *)
Past == 1 .. files - 1

(* stdin is closed by the first argument that names it and could be read to *)
(* the end.  It is further on than its start only if reading it failed, and *)
(* then it keeps failing.                                                   *)
StdinInv ==
  /\ \A j, k \in DOMAIN argv : argv[j] = argv[k] => disk[j] = disk[k]
  /\ stdin.open <=> \A k \in closed : ~IsStdin(k)
  /\ ~stdin.open => stdin.at = 0
  /\ ~stdin.error => stdin.at = 0
  /\ \A k \in DOMAIN argv : stdin.open /\ IsStdin(k) => stdin.at <= Len(disk[k])

(* The context holds what was read of the current stream, to its end when  *)
(* the loop of reads is left without an error.                             *)
ReadInv ==
  /\ Busy => files \in DOMAIN argv /\ ctx.phase = "open" /\ ctx.reduced = Partial
  /\ pc \in {"read", "ingest", "close"} =>
       /\ Start <= at /\ at <= Len(Content) /\ (StartError => error)
       /\ ctx.msg = SubSeq(Content, Start + 1, at)
  /\ pc = "ingest" =>
       /\ at + read <= Len(Content)
       /\ ~error => read = BufferSize \/ at + read = Len(Content)
  /\ pc = "close" /\ ~error => at = Len(Content)
  /\ pc = "finish" => ctx.msg = Readable(files)

(* The lines are those of the streams closed. *)
LineInv ==
  /\ pc = "finish" => files \in closed
  /\ Printed = IF pc = "finish" THEN closed \ {files} ELSE closed
  /\ Printed \subseteq Past
  /\ \A l \in DOMAIN out : l > 1 => out[l - 1].file < out[l].file
  /\ LinesAreForWholeFiles

(* Every argument is either closed or failed, or both, when it is done with. *)
ErrorInv ==
  /\ Past \subseteq failed \cup closed
  /\ closed \subseteq opened /\ opened \subseteq Past \cup (IF Busy THEN {files} ELSE {})
  /\ Busy => files \in opened
  /\ pc # "finish" => files \notin closed
  /\ opened \ closed \subseteq failed \cup (IF Busy THEN {files} ELSE {})
  /\ pc # "exited" => (any_error <=> failed # {}) /\ (all_error <=> closed = {})
  /\ StatusTells

IInv == TypeInv /\ StdinInv /\ ReadInv /\ LineInv /\ ErrorInv

-------------------------------------------------------------------------------
LEMMA Sizes == BufferSize \in Nat /\ BufferSize > 0
BY SumAssumption

LEMMA ArgumentNumbers ==
  ASSUME TypeInv
  PROVE  /\ DOMAIN argv = 1 .. Len(argv) /\ Len(argv) \in Nat /\ Len(argv) > 0
         /\ files \in Nat /\ files >= 1 /\ files <= Len(argv) + 1
         /\ DOMAIN out = 1 .. Len(out) /\ Len(out) \in Nat
<1>1. argv \in Seq(Names) /\ argv # <<>> /\ out \in Seq(Line) /\ files \in 1 .. Len(argv) + 1
  BY DEF TypeInv, TypeOK
<1>2. Len(argv) \in Nat /\ DOMAIN argv = 1 .. Len(argv)
  BY <1>1, LenProperties
<1>3. Len(out) \in Nat /\ DOMAIN out = 1 .. Len(out)
  BY <1>1, LenProperties
<1>4. Len(argv) > 0
  BY <1>1, <1>2, EmptySeq
<1> QED
  BY <1>1, <1>2, <1>3, <1>4

LEMMA ContentIsMessage ==
  ASSUME TypeInv, files \in DOMAIN argv
  PROVE  Content \in Message /\ Len(Content) \in Nat
<1>1. disk[files] \in Message
  BY SumAssumption DEF TypeInv, TypeOK, Message
<1>2. <<>> \in Message
  BY EmptySeq DEF Message
<1>3. Content \in Message
  BY <1>1, <1>2 DEF Content
<1> QED
  BY <1>3, LenProperties DEF Message

(* What is printed already was printed for an earlier argument: so nothing *)
(* that is done later changes what an argument named.                      *)
LEMMA LinesStand ==
  ASSUME LineInv, UNCHANGED <<argv, disk, out>>
  PROVE  /\ Printed' = Printed /\ LinesAreForWholeFiles'
         /\ \A l \in DOMAIN out' : l > 1 => out'[l - 1].file < out'[l].file
BY DEF LineInv, Printed, LinesAreForWholeFiles, Readable, IsStdin

-------------------------------------------------------------------------------
LEMMA InitEstablishesInv ==
  ASSUME Init PROVE IInv
<1>1. PICK args \in CommandLines : argv = Arguments(args)
  BY DEF Init
<1>2. argv \in Seq(Names) /\ argv # <<>>
  <2>1. args \in Seq(Names) /\ Dash \in Names
    BY SumAssumption
  <2> QED
    BY <1>1, <2>1 DEF Arguments
<1>3. Len(argv) \in Nat /\ Len(argv) # 0
  BY <1>2, EmptySeq
<1>4. /\ files = 1 /\ pc = "files"
      /\ ctx = [msg |-> <<>>, reduced |-> FALSE, phase |-> "uninitialised"]
      /\ at = 0 /\ read = 0 /\ error = FALSE /\ any_error = FALSE /\ all_error = TRUE
      /\ out = <<>> /\ status = 0
      /\ stdin = [open |-> TRUE, at |-> 0, error |-> FALSE] /\ opened = {} /\ closed = {}
      /\ failed = {} /\ lost = {}
      /\ disk \in [DOMAIN argv -> Contents]
      /\ \A j, k \in DOMAIN argv : argv[j] = argv[k] => disk[j] = disk[k]
  BY DEF Init
<1>5. TypeInv
  <2>1. TypeOK
    <3>1. UNION {opened, closed, failed, lost} \subseteq DOMAIN argv
      BY <1>4
    <3>2. files \in 1 .. Len(argv) + 1 /\ read \in 0 .. BufferSize /\ at \in Nat /\ status \in 0 .. 3
      BY <1>3, <1>4, Sizes
    <3>3. stdin \in [open : BOOLEAN, at : Nat, error : BOOLEAN]
      BY <1>4
    <3> QED
      BY <1>2, <1>4, <3>1, <3>2, <3>3 DEF TypeOK
  <2>2. ctx \in Context /\ out \in Seq(Line)
    BY <1>4, EmptySeq DEF Context, Message
  <2> QED
    BY <1>2, <2>1, <2>2 DEF TypeInv
<1>6. StdinInv
  <2>1. ASSUME NEW k \in DOMAIN argv PROVE Len(disk[k]) \in Nat
    BY <1>4, SumAssumption, LenProperties
  <2> QED
    BY <1>4, <2>1 DEF StdinInv
<1>7. ReadInv
  BY <1>4 DEF ReadInv, Busy
<1>8. LineInv
  BY <1>4 DEF LineInv, Printed, LinesAreForWholeFiles, Past
<1>9. ErrorInv
  BY <1>4 DEF ErrorInv, Past, Busy, StatusTells
<1> QED
  BY <1>5, <1>6, <1>7, <1>8, <1>9 DEF IInv

-------------------------------------------------------------------------------
(* The head of the loop. *)
LEMMA OpenKeepsInv ==
  ASSUME IInv, open_file PROVE IInv'
<1>1. /\ pc = "files" /\ files <= Len(argv) /\ ctx' = sha1dc_init /\ opened' = opened \cup {files}
      /\ at' = Start /\ read' = 0 /\ error' = StartError /\ pc' = "read"
      /\ UNCHANGED <<argv, files, disk, any_error, all_error, out, status, stdin, closed, failed, lost>>
  BY DEF open_file
<1>2. files \in DOMAIN argv /\ files \in Nat
  BY <1>1, ArgumentNumbers DEF IInv
<1>3. stdin.at \in Nat /\ stdin.error \in BOOLEAN
  BY DEF IInv, TypeInv, TypeOK
<1>4. TypeInv'
  <2>1. at' \in Nat /\ error' \in BOOLEAN
    BY <1>1, <1>3 DEF Start, StartError
  <2>2. ctx' \in Context
    BY <1>1, EmptySeq, SumAssumption DEF sha1dc_init, Context, Message
  <2>3. read' \in 0 .. BufferSize
    BY <1>1, Sizes
  <2>4. TypeOK'
    BY <1>1, <1>2, <2>1, <2>2, <2>3 DEF IInv, TypeInv, TypeOK, Context
  <2> QED
    BY <1>1, <2>2, <2>4 DEF IInv, TypeInv
<1>5. StdinInv'
  BY <1>1 DEF IInv, StdinInv, IsStdin
<1>6. ReadInv'
  <2>1. Content' = Content /\ Start' = Start /\ StartError' = StartError
    BY <1>1 DEF Content, Start, StartError, IsStdin
  <2>2. Content \in Message /\ Len(Content) \in Nat
    BY <1>2, ContentIsMessage DEF IInv
  <2>3. Start \in Nat /\ Start <= Len(Content)
    <3>1. CASE IsStdin(files) /\ stdin.open
      BY <1>2, <1>3, <3>1 DEF IInv, StdinInv, Start, Content
    <3>2. CASE IsStdin(files) /\ ~stdin.open
      BY <1>3, <2>2, <3>2 DEF IInv, StdinInv, Start
    <3>3. CASE ~IsStdin(files)
      BY <2>2, <3>3 DEF Start
    <3> QED
      BY <3>1, <3>2, <3>3
  <2>4. SubSeq(Content, Start + 1, Start) = <<>>
    BY <2>2, <2>3, SubSeqEmpty DEF Message
  <2>5. ctx'.msg = <<>> /\ ctx'.phase = "open" /\ ctx'.reduced = Partial
    BY <1>1 DEF sha1dc_init
  <2> QED
    BY <1>1, <1>2, <2>1, <2>3, <2>4, <2>5 DEF ReadInv, Busy
<1>7. LineInv'
  BY <1>1, LinesStand DEF IInv, LineInv, Past
<1>8. ErrorInv'
  BY <1>1 DEF IInv, ErrorInv, Past, Busy, StatusTells
<1> QED
  BY <1>4, <1>5, <1>6, <1>7, <1>8 DEF IInv

(* A file that cannot be opened is the end. *)
LEMMA OpenFailureKeepsInv ==
  ASSUME IInv, open_failure PROVE IInv'
<1>1. /\ pc = "files" /\ files <= Len(argv) /\ ctx' = sha1dc_init
      /\ failed' = failed \cup {files} /\ status' = 1 /\ pc' = "exited"
      /\ UNCHANGED <<argv, files, disk, at, read, error, any_error, all_error, out>>
      /\ UNCHANGED <<stdin, opened, closed, lost>>
  BY DEF open_failure, file, streams
<1>2. files \in DOMAIN argv /\ files \in Nat
  BY <1>1, ArgumentNumbers DEF IInv
<1>3. TypeInv'
  <2>1. ctx' \in Context
    BY <1>1, EmptySeq, SumAssumption DEF sha1dc_init, Context, Message
  <2>2. TypeOK'
    BY <1>1, <1>2, <2>1 DEF IInv, TypeInv, TypeOK, Context
  <2> QED
    BY <1>1, <2>1, <2>2 DEF IInv, TypeInv
<1>4. StdinInv'
  BY <1>1 DEF IInv, StdinInv, IsStdin
<1>5. ReadInv'
  BY <1>1 DEF ReadInv, Busy
<1>6. LineInv'
  BY <1>1, LinesStand DEF IInv, LineInv, Past
<1>7. ErrorInv'
  <2>1. files \notin opened
    BY <1>1, <1>2 DEF IInv, ErrorInv, Past, Busy
  <2>2. StatusTells'
    BY <1>1, <1>2, <2>1 DEF StatusTells
  <2> QED
    BY <1>1, <2>2 DEF IInv, ErrorInv, Past, Busy
<1> QED
  BY <1>3, <1>4, <1>5, <1>6, <1>7 DEF IInv

-------------------------------------------------------------------------------
(* The loop of reads. *)
LEMMA ReadKeepsInv ==
  ASSUME IInv, fread PROVE IInv'
<1> DEFINE left == Len(Content) - at
           most == IF left < BufferSize THEN left ELSE BufferSize
<1>1. /\ pc = "read" /\ pc' = "ingest"
      /\ \/ read' = most /\ error' = error
         \/ read' \in 0 .. (IF left < BufferSize THEN left ELSE BufferSize - 1) /\ error' = TRUE
      /\ UNCHANGED <<argv, files, disk, ctx, at, any_error, all_error, out, status>>
      /\ UNCHANGED <<stdin, opened, closed, failed, lost>>
  BY DEF fread, streams
<1>2. files \in DOMAIN argv
  BY <1>1 DEF IInv, ReadInv, Busy
<1>3. Len(Content) \in Nat /\ at \in Nat /\ at <= Len(Content)
  BY <1>1, <1>2, ContentIsMessage DEF IInv, TypeInv, TypeOK, ReadInv
<1>4. /\ read' \in 0 .. BufferSize /\ at + read' <= Len(Content)
      /\ ~error' => read' = BufferSize \/ at + read' = Len(Content)
  BY <1>1, <1>3, Sizes
<1>5. error' \in BOOLEAN /\ (error => error')
  BY <1>1 DEF IInv, TypeInv, TypeOK
<1>6. TypeInv'
  BY <1>1, <1>4, <1>5 DEF IInv, TypeInv, TypeOK
<1>7. StdinInv'
  BY <1>1 DEF IInv, StdinInv, IsStdin
<1>8. ReadInv'
  <2>1. Content' = Content /\ Start' = Start /\ StartError' = StartError
    BY <1>1 DEF Content, Start, StartError, IsStdin
  <2> QED
    BY <1>1, <1>4, <1>5, <2>1 DEF IInv, ReadInv, Busy
<1>9. LineInv'
  BY <1>1, LinesStand DEF IInv, LineInv, Past
<1>10. ErrorInv'
  BY <1>1 DEF IInv, ErrorInv, Past, Busy, StatusTells
<1> QED
  BY <1>6, <1>7, <1>8, <1>9, <1>10 DEF IInv

LEMMA IngestKeepsInv ==
  ASSUME IInv, ingest PROVE IInv'
<1>1. /\ pc = "ingest" /\ ctx' = (IF LastRead THEN ctx ELSE Ingested) /\ at' = at + read
      /\ pc' = IF LastRead \/ read # BufferSize THEN "close" ELSE "read"
      /\ UNCHANGED <<argv, files, disk, read, error, any_error, all_error, out, status>>
      /\ UNCHANGED <<stdin, opened, closed, failed, lost>>
  BY DEF ingest, streams
<1>2. files \in DOMAIN argv
  BY <1>1 DEF IInv, ReadInv, Busy
<1>3. /\ Content \in Message /\ Len(Content) \in Nat /\ at \in Nat /\ at + read <= Len(Content)
      /\ read \in 0 .. BufferSize /\ Start <= at /\ Start \in Nat
      /\ ctx.msg = SubSeq(Content, Start + 1, at)
      /\ ~error => read = BufferSize \/ at + read = Len(Content)
  BY <1>1, <1>2, ContentIsMessage DEF IInv, TypeInv, TypeOK, ReadInv, Start
<1>4. SubSeq(Content, at + 1, at + read) \in Message /\ at + read \in Nat
  BY <1>3, Sizes, SubSeqProperties DEF Message
<1>5. /\ ctx'.msg = SubSeq(Content, Start + 1, at + read) /\ ctx' \in Context
      /\ ctx'.phase = ctx.phase /\ ctx'.reduced = ctx.reduced
  <2>1. ctx \in Context
    BY DEF IInv, TypeInv
  <2>2. CASE LastRead
    <3>1. read = 0 /\ at + read = at
      BY <1>3, <2>2 DEF LastRead
    <3> QED
      BY <1>1, <1>3, <2>1, <2>2, <3>1
  <2>3. CASE ~LastRead
    <3>1. ctx' = [ctx EXCEPT !.msg = ctx.msg \o SubSeq(Content, at + 1, at + read)]
      BY <1>1, <2>3 DEF Ingested
    <3>2. /\ Start + 1 \in 1 .. Len(Content) + 1 /\ at \in (Start + 1) - 1 .. Len(Content)
          /\ at + read \in at .. Len(Content)
      BY <1>3, Sizes
    <3>3. SubSeq(Content, Start + 1, at) \o SubSeq(Content, at + 1, at + read)
            = SubSeq(Content, Start + 1, at + read)
      BY <1>3, <3>2, ConcatAdjacentSubSeq DEF Message
    <3>4. SubSeq(Content, Start + 1, at + read) \in Message
      <4>1. \A k \in Start + 1 .. at + read : k \in 1 .. Len(Content)
        BY <1>3, Sizes
      <4> QED
        BY <1>3, <1>4, <4>1, SubSeqProperties DEF Message
    <3>5. ctx.msg \o SubSeq(Content, at + 1, at + read) = SubSeq(Content, Start + 1, at + read)
      BY <1>3, <3>3
    <3> QED
      BY <2>1, <3>1, <3>4, <3>5 DEF Context
  <2> QED
    BY <2>2, <2>3
<1>6. TypeInv'
  <2>1. ctx'.phase \in {"uninitialised", "open", "finished"}
    BY <1>5 DEF Context
  <2>2. TypeOK'
    BY <1>1, <1>4, <2>1 DEF IInv, TypeInv, TypeOK
  <2> QED
    BY <1>1, <1>5, <2>2 DEF IInv, TypeInv
<1>7. StdinInv'
  BY <1>1 DEF IInv, StdinInv, IsStdin
<1>8. ReadInv'
  <2>1. Content' = Content /\ Start' = Start /\ StartError' = StartError
    BY <1>1 DEF Content, Start, StartError, IsStdin
  <2>2. /\ ctx.phase = "open" /\ ctx.reduced = Partial /\ (StartError => error)
    BY <1>1 DEF IInv, ReadInv, Busy
  <2>3. pc' = "close" /\ ~error' => at' = Len(Content)
    BY <1>1, <1>3, Sizes DEF LastRead
  <2>4. Start <= at' /\ at' <= Len(Content)
    BY <1>1, <1>3, Sizes
  <2>5. pc' \in {"read", "close"}
    BY <1>1
  <2> QED
    BY <1>1, <1>2, <1>5, <2>1, <2>2, <2>3, <2>4, <2>5 DEF ReadInv, Busy
<1>9. LineInv'
  BY <1>1, LinesStand DEF IInv, LineInv, Past
<1>10. ErrorInv'
  BY <1>1 DEF IInv, ErrorInv, Past, Busy, StatusTells
<1> QED
  BY <1>6, <1>7, <1>8, <1>9, <1>10 DEF IInv

(* A stream that could not be read to its end is left as it is. *)
LEMMA ReadFailureKeepsInv ==
  ASSUME IInv, read_failure PROVE IInv'
<1>1. /\ pc = "close" /\ error /\ any_error' = TRUE /\ all_error' = all_error
      /\ failed' = failed \cup {files} /\ stdin' = GivenUp /\ files' = files + 1 /\ pc' = "files"
      /\ UNCHANGED <<argv, disk, ctx, at, read, error, out, status, opened, closed, lost>>
  BY DEF read_failure, NextFile, file
<1>2. files \in DOMAIN argv /\ files \in Nat /\ files + 1 <= Len(argv) + 1 /\ files >= 1
  BY <1>1, ArgumentNumbers DEF IInv, ReadInv, Busy
<1>3. /\ Len(Content) \in Nat /\ at \in Nat /\ at <= Len(Content)
      /\ stdin \in [open : BOOLEAN, at : Nat, error : BOOLEAN]
  BY <1>1, <1>2, ContentIsMessage DEF IInv, TypeInv, TypeOK, ReadInv
<1>4. Past' = Past \cup {files}
  BY <1>1, <1>2 DEF Past
<1>5. TypeInv'
  <2>1. stdin' \in [open : BOOLEAN, at : Nat, error : BOOLEAN]
    BY <1>1, <1>3 DEF GivenUp
  <2>2. TypeOK'
    BY <1>1, <1>2, <2>1 DEF IInv, TypeInv, TypeOK
  <2> QED
    BY <1>1, <2>2 DEF IInv, TypeInv
<1>6. StdinInv'
  <2>1. CASE ~IsStdin(files)
    <3>1. stdin' = stdin
      BY <1>1, <2>1 DEF GivenUp
    <3> QED
      BY <1>1, <3>1 DEF IInv, StdinInv, IsStdin
  <2>2. CASE IsStdin(files)
    <3>1. stdin'.open = stdin.open /\ stdin'.at = at /\ stdin'.error
      BY <1>1, <1>3, <2>2 DEF GivenUp
    <3>2. ~stdin.open => at = 0
      <4>1. ~stdin.open => Content = <<>>
        BY <2>2 DEF Content
      <4> QED
        BY <1>3, <4>1
    <3>3. ASSUME NEW k \in DOMAIN argv, stdin.open, IsStdin(k) PROVE at <= Len(disk[k])
      <4>1. Content = disk[files] /\ disk[files] = disk[k]
        BY <1>2, <2>2, <3>3 DEF IInv, StdinInv, Content, IsStdin
      <4> QED
        BY <1>3, <4>1
    <3> QED
      BY <1>1, <3>1, <3>2, <3>3 DEF IInv, StdinInv, IsStdin
  <2> QED
    BY <2>1, <2>2
<1>7. ReadInv'
  BY <1>1 DEF ReadInv, Busy
<1>8. LineInv'
  BY <1>1, <1>4, LinesStand DEF IInv, LineInv
<1>9. ErrorInv'
  <2>1. files + 1 \notin Past \cup {files}
    BY <1>2 DEF Past
  <2>2. /\ Past \subseteq failed \cup closed /\ closed \subseteq opened
        /\ opened \subseteq Past \cup {files}
        /\ opened \ closed \subseteq failed \cup {files}
        /\ (all_error <=> closed = {})
    BY <1>1 DEF IInv, ErrorInv, Busy
  <2>3. StatusTells'
    BY <1>1 DEF StatusTells
  <2> QED
    BY <1>1, <1>4, <2>1, <2>2, <2>3 DEF ErrorInv, Busy
<1> QED
  BY <1>5, <1>6, <1>7, <1>8, <1>9 DEF IInv

(* One that was is closed, and the message that its line will be about is  *)
(* complete.                                                               *)
LEMMA CloseKeepsInv ==
  ASSUME IInv, close_file PROVE IInv'
<1>1. /\ pc = "close" /\ ~error /\ closed' = closed \cup {files} /\ all_error' = FALSE /\ pc' = "finish"
      /\ \/ any_error' = any_error /\ failed' = failed
         \/ any_error' = TRUE /\ failed' = failed \cup {files}
      /\ stdin' = IF IsStdin(files) THEN [open |-> FALSE, at |-> 0, error |-> FALSE] ELSE stdin
      /\ UNCHANGED <<argv, files, disk, ctx, at, read, error, out, status, opened, lost>>
  BY DEF close_file, ClosedStreams, file
<1>2. files \in DOMAIN argv /\ files \in Nat
  BY <1>1, ArgumentNumbers DEF IInv, ReadInv, Busy
<1>3. /\ Content \in Message /\ at = Len(Content) /\ ~StartError
      /\ ctx.msg = SubSeq(Content, Start + 1, at)
  BY <1>1, <1>2, ContentIsMessage DEF IInv, ReadInv
<1>4. ctx.msg = Content
  <2>1. Start = 0
    BY <1>3 DEF Start, StartError, IInv, StdinInv
  <2> QED
    BY <1>3, <2>1, SubSeqFull DEF Message
<1>5. Printed = closed /\ Printed \subseteq Past
  BY <1>1 DEF IInv, LineInv
<1>6. Readable(files) = Content
  <2>1. (\E j \in Printed : j < files /\ IsStdin(j)) <=> \E j \in closed : IsStdin(j)
    BY <1>2, <1>5 DEF Past
  <2>2. stdin.open <=> \A j \in closed : ~IsStdin(j)
    BY DEF IInv, StdinInv
  <2> QED
    BY <2>1, <2>2 DEF Readable, Content
<1>7. TypeInv'
  <2>1. stdin' \in [open : BOOLEAN, at : Nat, error : BOOLEAN]
    BY <1>1 DEF IInv, TypeInv, TypeOK
  <2>2. any_error' \in BOOLEAN /\ all_error' \in BOOLEAN
    BY <1>1 DEF IInv, TypeInv, TypeOK
  <2>3. UNION {opened, closed', failed', lost} \subseteq DOMAIN argv
    <3>1. opened \subseteq DOMAIN argv /\ closed \subseteq DOMAIN argv
          /\ failed \subseteq DOMAIN argv /\ lost \subseteq DOMAIN argv
      BY DEF IInv, TypeInv, TypeOK
    <3>2. closed' \subseteq DOMAIN argv /\ failed' \subseteq DOMAIN argv
      BY <1>1, <1>2, <3>1
    <3> QED
      BY <3>1, <3>2
  <2>4. UNION {opened', closed', failed', lost'} \subseteq DOMAIN argv'
    BY <1>1, <2>3
  <2>5. TypeOK'
    BY <1>1, <2>1, <2>2, <2>4 DEF IInv, TypeInv, TypeOK
  <2> QED
    BY <1>1, <2>5 DEF IInv, TypeInv
<1>8. StdinInv'
  <2>1. CASE IsStdin(files)
    BY <1>1, <2>1 DEF IInv, StdinInv, IsStdin
  <2>2. CASE ~IsStdin(files)
    BY <1>1, <2>2 DEF IInv, StdinInv, IsStdin
  <2> QED
    BY <2>1, <2>2
<1>9. ReadInv'
  <2>1. Readable(files)' = Readable(files)
    BY <1>1 DEF Readable, Printed, IsStdin
  <2> QED
    BY <1>1, <1>2, <1>4, <1>6, <2>1 DEF IInv, ReadInv, Busy
<1>10. LineInv'
  <2>1. files \notin closed
    BY <1>1 DEF IInv, ErrorInv
  <2> QED
    BY <1>1, <1>5, <2>1, LinesStand DEF IInv, LineInv, Past
<1>11. ErrorInv'
  <2>1. /\ Past \subseteq failed \cup closed /\ closed \subseteq opened /\ files \in opened
        /\ opened \subseteq Past \cup {files} /\ opened \ closed \subseteq failed \cup {files}
        /\ (any_error <=> failed # {})
    BY <1>1 DEF IInv, ErrorInv, Busy
  <2>2. StatusTells' /\ Past' = Past
    BY <1>1 DEF StatusTells, Past
  <2> QED
    BY <1>1, <2>1, <2>2 DEF ErrorInv, Busy
<1> QED
  BY <1>7, <1>8, <1>9, <1>10, <1>11 DEF IInv

(* Its line is printed. *)
LEMMA FinishKeepsInv ==
  ASSUME IInv, finish PROVE IInv'
<1> DEFINE line == [file |-> files, digest |-> Digest(ctx.msg, ctx.reduced)]
<1>1. /\ pc = "finish" /\ out' = Append(out, line) /\ ctx' = [ctx EXCEPT !.phase = "finished"]
      /\ files' = files + 1 /\ pc' = "files" /\ lost' \in {lost, lost \cup {files}}
      /\ UNCHANGED <<argv, disk, at, read, error, any_error, all_error, status>>
      /\ UNCHANGED <<stdin, opened, closed, failed>>
  BY DEF finish, NextFile, file, streams
<1>2. /\ files \in DOMAIN argv /\ files \in Nat /\ files + 1 <= Len(argv) + 1 /\ files >= 1
      /\ DOMAIN out = 1 .. Len(out) /\ Len(out) \in Nat
  BY <1>1, ArgumentNumbers DEF IInv, ReadInv, Busy
<1>3. ctx \in Context /\ ctx.msg = Readable(files) /\ ctx.reduced = Partial /\ out \in Seq(Line)
  BY <1>1 DEF IInv, TypeInv, ReadInv, Busy
<1>4. line \in Line
  BY <1>2, <1>3 DEF Line, Context
<1>5. line.file = files /\ line.digest = Digest(Readable(files), Partial)
  BY <1>3
<1> HIDE DEF line
<1>6. /\ out' \in Seq(Line) /\ Len(out') = Len(out) + 1 /\ DOMAIN out' = 1 .. Len(out) + 1
      /\ \A l \in 1 .. Len(out) : out'[l] = out[l]
      /\ out'[Len(out) + 1] = line
  <2>1. /\ Append(out, line) \in Seq(Line) /\ Len(Append(out, line)) = Len(out) + 1
        /\ \A l \in 1 .. Len(out) : Append(out, line)[l] = out[l]
        /\ Append(out, line)[Len(out) + 1] = line
    BY <1>3, <1>4, AppendProperties
  <2>2. DOMAIN Append(out, line) = 1 .. Len(out) + 1
    BY <2>1, LenProperties
  <2> QED
    BY <1>1, <2>1, <2>2
<1>7. /\ files \in closed /\ Printed = closed \ {files} /\ Printed \subseteq Past
  BY <1>1 DEF IInv, LineInv
<1>8. Past' = Past \cup {files} /\ files \notin Past /\ \A k \in Past : k \in Nat /\ k < files
  BY <1>1, <1>2 DEF Past
<1>9. Printed' = Printed \cup {files}
  BY <1>2, <1>5, <1>6 DEF Printed
<1>10. ASSUME NEW k \in Printed \cup {files} PROVE Readable(k)' = Readable(k)
  <2>1. (\E j \in Printed' : j < k /\ IsStdin(j)) <=> (\E j \in Printed : j < k /\ IsStdin(j))
    <3>1. ~(files < k)
      BY <1>2, <1>7, <1>8, <1>10
    <3> QED
      BY <1>9, <3>1
  <2>2. \A j : IsStdin(j)' = IsStdin(j)
    BY <1>1 DEF IsStdin
  <2> QED
    BY <1>1, <2>1, <2>2 DEF Readable
<1>11. TypeInv'
  <2>1. ctx' \in Context /\ ctx'.phase \in {"uninitialised", "open", "finished"}
    BY <1>1, <1>3 DEF Context
  <2>2. UNION {opened, closed, failed, lost'} \subseteq DOMAIN argv
    BY <1>1, <1>2 DEF IInv, TypeInv, TypeOK
  <2>3. TypeOK'
    BY <1>1, <1>2, <2>1, <2>2 DEF IInv, TypeInv, TypeOK
  <2> QED
    BY <1>1, <1>6, <2>1, <2>3 DEF IInv, TypeInv
<1>12. StdinInv'
  BY <1>1 DEF IInv, StdinInv, IsStdin
<1>13. ReadInv'
  BY <1>1 DEF ReadInv, Busy
<1>14. LineInv'
  <2>1. Printed' = closed /\ Printed' \subseteq Past'
    BY <1>7, <1>8, <1>9
  <2>2. ASSUME NEW l \in DOMAIN out', l > 1 PROVE out'[l - 1].file < out'[l].file
    <3>1. CASE l \in 1 .. Len(out)
      <4>1. l - 1 \in 1 .. Len(out)
        BY <1>2, <2>2, <3>1
      <4> QED
        BY <1>2, <1>6, <2>2, <3>1, <4>1 DEF IInv, LineInv
    <3>2. CASE l = Len(out) + 1
      <4>1. l - 1 \in 1 .. Len(out)
        BY <1>2, <2>2, <3>2
      <4>2. out[l - 1].file \in Printed
        BY <1>2, <4>1 DEF Printed
      <4> QED
        BY <1>5, <1>6, <1>7, <1>8, <3>2, <4>1, <4>2
    <3> QED
      BY <1>2, <1>6, <3>1, <3>2
  <2>3. ASSUME NEW l \in DOMAIN out', NEW j, j = out'[l].file
        PROVE  out'[l].digest = Digest(Readable(j)', Partial)
    <3>1. CASE l \in 1 .. Len(out)
      <4>1. out'[l] = out[l] /\ l \in DOMAIN out /\ j = out[l].file
        BY <1>2, <1>6, <2>3, <3>1
      <4>2. Readable(j)' = Readable(j)
        BY <1>10, <4>1 DEF Printed
      <4>3. out[l].digest = Digest(Readable(j), Partial)
        BY <4>1 DEF IInv, LineInv, LinesAreForWholeFiles
      <4> QED
        BY <4>1, <4>2, <4>3
    <3>2. CASE l = Len(out) + 1
      <4>1. j = files /\ out'[l].digest = Digest(Readable(files), Partial)
        BY <1>5, <1>6, <2>3, <3>2
      <4>2. Readable(j)' = Readable(j)
        BY <1>10, <4>1
      <4> QED
        BY <4>1, <4>2
    <3> QED
      BY <1>2, <1>6, <3>1, <3>2
  <2>4. LinesAreForWholeFiles'
    BY <2>3 DEF LinesAreForWholeFiles, Readable, IsStdin, Printed
  <2> QED
    BY <1>1, <2>1, <2>2, <2>4 DEF LineInv
<1>15. ErrorInv'
  <2>1. files + 1 \notin Past \cup {files}
    BY <1>2 DEF Past
  <2>2. /\ Past \subseteq failed \cup closed /\ closed \subseteq opened
        /\ opened \subseteq Past \cup {files} /\ opened \ closed \subseteq failed \cup {files}
        /\ (any_error <=> failed # {}) /\ (all_error <=> closed = {})
    BY <1>1 DEF IInv, ErrorInv, Busy
  <2>3. StatusTells'
    BY <1>1 DEF StatusTells
  <2> QED
    BY <1>1, <1>7, <1>8, <2>1, <2>2, <2>3 DEF ErrorInv, Busy
<1> QED
  BY <1>11, <1>12, <1>13, <1>14, <1>15 DEF IInv

(* The end of the list. *)
LEMMA ExitKeepsInv ==
  ASSUME IInv, exit PROVE IInv'
<1>1. /\ pc = "files" /\ files > Len(argv) /\ pc' = "exited"
      /\ status' = Number(any_error) + 2 * Number(all_error)
      /\ UNCHANGED <<argv, files, disk, ctx, at, read, error, any_error, all_error, out>>
      /\ UNCHANGED <<stdin, opened, closed, failed, lost>>
  BY DEF exit, ExitStatus, file, streams
<1>2. /\ files = Len(argv) + 1 /\ Len(argv) \in Nat /\ Len(argv) > 0 /\ DOMAIN argv = 1 .. Len(argv)
      /\ DOMAIN out = 1 .. Len(out) /\ Len(out) \in Nat
  BY <1>1, ArgumentNumbers DEF IInv
<1>3. Past = DOMAIN argv /\ 1 \in DOMAIN argv
  BY <1>2 DEF Past
<1>4. /\ failed \subseteq DOMAIN argv /\ DOMAIN argv \subseteq failed \cup closed
      /\ (any_error <=> failed # {}) /\ (all_error <=> closed = {}) /\ Printed = closed
      /\ any_error \in BOOLEAN /\ all_error \in BOOLEAN /\ Printed \subseteq DOMAIN argv
  BY <1>1, <1>3 DEF IInv, TypeInv, TypeOK, ErrorInv, LineInv
<1>5. out = <<>> <=> Printed = {}
  <2>1. out \in Seq(Line)
    BY DEF IInv, TypeInv
  <2>2. CASE out = <<>>
    BY <2>2 DEF Printed
  <2>3. CASE out # <<>>
    <3>1. 1 \in DOMAIN out
      BY <1>2, <2>1, <2>3, EmptySeq
    <3> QED
      BY <2>3, <3>1 DEF Printed
  <2> QED
    BY <2>2, <2>3
<1>6. Printed' = Printed
  BY <1>1 DEF Printed
<1>7. /\ status' \in 0 .. 3
      /\ StatusTells'
  <2>1. CASE all_error
    <3>1. closed = {} /\ failed = DOMAIN argv /\ failed # {}
      BY <1>3, <1>4, <2>1
    <3>2. any_error /\ Printed = {} /\ out = <<>>
      BY <1>4, <1>5, <3>1
    <3>3. status' = 3
      BY <1>1, <2>1, <3>2 DEF Number
    <3>4. out' = <<>> /\ failed' = DOMAIN argv' /\ failed' # {}
      BY <1>1, <3>1, <3>2
    <3>5. StatusTells'
      BY <3>3, <3>4 DEF StatusTells
    <3> QED
      BY <3>3, <3>5
  <2>2. CASE ~all_error /\ any_error
    <3>1. status' = 1 /\ failed # {} /\ out # <<>>
      BY <1>1, <1>4, <1>5, <2>2 DEF Number
    <3> QED
      BY <1>1, <3>1 DEF StatusTells
  <2>3. CASE ~all_error /\ ~any_error
    <3>1. status' = 0 /\ failed = {}
      BY <1>1, <1>4, <2>3 DEF Number
    <3>2. Printed' = DOMAIN argv
      BY <1>4, <1>6, <3>1
    <3> QED
      BY <1>1, <3>1, <3>2 DEF StatusTells
  <2> QED
    BY <1>4, <2>1, <2>2, <2>3
<1>8. TypeInv'
  <2>1. TypeOK'
    BY <1>1, <1>7 DEF IInv, TypeInv, TypeOK
  <2> QED
    BY <1>1, <2>1 DEF IInv, TypeInv
<1>9. StdinInv'
  BY <1>1 DEF IInv, StdinInv, IsStdin
<1>10. ReadInv'
  BY <1>1 DEF ReadInv, Busy
<1>11. LineInv'
  BY <1>1, LinesStand DEF IInv, LineInv, Past
<1>12. ErrorInv'
  BY <1>1, <1>7 DEF IInv, ErrorInv, Past, Busy
<1> QED
  BY <1>8, <1>9, <1>10, <1>11, <1>12 DEF IInv

-------------------------------------------------------------------------------
LEMMA NextKeepsInv == IInv /\ [Next]_vars => IInv'
<1> SUFFICES ASSUME IInv, [Next]_vars PROVE IInv'
  OBVIOUS
<1>1. CASE open_file
  BY <1>1, OpenKeepsInv
<1>2. CASE open_failure
  BY <1>2, OpenFailureKeepsInv
<1>3. CASE fread
  BY <1>3, ReadKeepsInv
<1>4. CASE ingest
  BY <1>4, IngestKeepsInv
<1>5. CASE read_failure
  BY <1>5, ReadFailureKeepsInv
<1>6. CASE close_file
  BY <1>6, CloseKeepsInv
<1>7. CASE finish
  BY <1>7, FinishKeepsInv
<1>8. CASE exit
  BY <1>8, ExitKeepsInv
<1>9. CASE UNCHANGED vars
  <2>1. UNCHANGED <<argv, files, disk, pc, ctx, at, read, error, any_error, all_error, out, status>>
    BY <1>9 DEF vars, file
  <2>2. UNCHANGED <<stdin, opened, closed, failed, lost>>
    BY <1>9 DEF vars, streams
  <2>3. TypeInv' /\ StdinInv'
    BY <2>1, <2>2 DEF IInv, TypeInv, TypeOK, StdinInv, IsStdin
  <2>4. ReadInv'
    BY <2>1, <2>2 DEF IInv, ReadInv, Busy, Content, Start, StartError, IsStdin, Readable, Printed
  <2>5. LineInv'
    BY <2>1, <2>2, LinesStand DEF IInv, LineInv, Past
  <2>6. ErrorInv'
    BY <2>1, <2>2 DEF IInv, ErrorInv, Past, Busy, StatusTells, Printed
  <2> QED
    BY <2>3, <2>4, <2>5, <2>6 DEF IInv
<1> QED
  BY <1>1, <1>2, <1>3, <1>4, <1>5, <1>6, <1>7, <1>8, <1>9 DEF Next

LEMMA InvHolds == Spec => []IInv
<1>1. Init => IInv
  BY InitEstablishesInv
<1> QED
  BY <1>1, NextKeepsInv, PTL DEF Spec

-------------------------------------------------------------------------------
(***************************************************************************)
(* Every variable keeps its type; above all, no argument past the last is  *)
(* ever opened, and the exit status is one of four.                        *)
(***************************************************************************)
THEOREM SumTypes == Spec => []TypeOK
<1>1. IInv => TypeOK
  BY DEF IInv, TypeInv
<1> QED
  BY <1>1, InvHolds, PTL

(***************************************************************************)
(* A line is for the whole of the file it names, in whatever pieces fread  *)
(* gave it, whatever failed before, and though all files share a context.  *)
(***************************************************************************)
THEOREM SumsAreOfWholeFiles == Spec => []LinesAreForWholeFiles
<1>1. IInv => LinesAreForWholeFiles
  BY DEF IInv, LineInv
<1> QED
  BY <1>1, InvHolds, PTL

(***************************************************************************)
(* The context has been initialised whenever it is used, holds what was    *)
(* read of the current stream, and the lines keep the order of the         *)
(* arguments.                                                              *)
(***************************************************************************)
THEOREM SumsContextIsFresh == Spec => []ContextIsFresh
<1>1. IInv => ContextIsFresh
  BY DEF IInv, ReadInv, Busy, LineInv, ContextIsFresh
<1> QED
  BY <1>1, InvHolds, PTL

(***************************************************************************)
(* What a script may conclude from the exit status.                        *)
(***************************************************************************)
THEOREM SumsStatusTells == Spec => []StatusTells
<1>1. IInv => StatusTells
  BY DEF IInv, ErrorInv
<1> QED
  BY <1>1, InvHolds, PTL

(***************************************************************************)
(* The streams left open between two arguments, or at the end, are those   *)
(* that could not be read, and no more.                                    *)
(***************************************************************************)
THEOREM SumLeavesUnreadableOpen == Spec => []OnlyUnreadableStayOpen
<1>1. IInv => OnlyUnreadableStayOpen
  BY DEF IInv, LineInv, ErrorInv, Busy, OnlyUnreadableStayOpen
<1> QED
  BY <1>1, InvHolds, PTL

(***************************************************************************)
(* The program works on a closed stdin exactly when it comes to a "-"      *)
(* after one that has its line.                                            *)
(***************************************************************************)
THEOREM SumClosesStdinOnce == Spec => []ClosedStdinIsNamedAgain
<1>1. ASSUME IInv PROVE ClosedStdinIsNamedAgain
  <2> SUFFICES ASSUME pc \in {"read", "ingest", "close"}, IsStdin(files)
               PROVE  ~stdin.open <=> \E j \in Printed : j < files /\ IsStdin(j)
    BY DEF ClosedStdinIsNamedAgain
  <2>1. Printed = closed /\ Printed \subseteq Past
    BY <1>1 DEF IInv, LineInv
  <2>2. \A j \in Past : j < files
    BY <1>1, ArgumentNumbers DEF IInv, Past
  <2>3. stdin.open <=> \A k \in closed : ~IsStdin(k)
    BY <1>1 DEF IInv, StdinInv
  <2> QED
    BY <2>1, <2>2, <2>3
<1> QED
  BY <1>1, InvHolds, PTL
===============================================================================
