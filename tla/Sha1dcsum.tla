------------------------------ MODULE Sha1dcsum -------------------------------
(***************************************************************************)
(* The command-line program, src/main.c: one context for all the files     *)
(* named on the command line, a loop of reads for each, and an exit status *)
(* that sums up what went wrong.  The library is what Sha1dc shows it to   *)
(* be: a context collects a message, and finish makes a digest of it.  The *)
(* C library is external; every call of it that may fail does or does not. *)
(***************************************************************************)
EXTENDS Integers, Sequences, FiniteSets

CONSTANTS
  Names,         \* names a file may be given by
  Dash,          \* "-"
  CommandLines,  \* the argument lists the program is started with
  Byte,
  Contents,      \* what a file may contain
  BufferSize,    \* sizeof buffer (65536)
  Digest(_, _),  \* the library's result for a message, with and without
                 \* the detection of reduced-round collisions
  Partial        \* whether the program's name includes "partial"

ASSUME SumAssumption ==
  /\ Dash \in Names /\ BufferSize \in Nat \ {0} /\ Partial \in BOOLEAN
  /\ CommandLines \subseteq Seq(Names) /\ Contents \subseteq Seq(Byte)

VARIABLES
  argv, files,      \* the arguments, and the index of *files
  disk,             \* what is behind each argument
  pc,
  ctx,              \* the context: its message, its setting, its phase
  at,               \* how far the stream being read has been read
  read, error,      \* the last fread, and the stream's error indicator
  any_error, all_error,
  out,              \* the lines printed: the argument and its digest
  status            \* the exit status

VARIABLES
  stdin             \* the C library's: closed or not, how far it was read
                    \* when it was last given up, its error indicator

VARIABLES           \* history
  opened, closed,   \* the arguments for which a stream was opened, closed
  failed,           \* the arguments that could not be opened or read, or closed
  lost              \* and those whose line was printed but not written

file    == <<at, read, error>>
streams == <<stdin, opened, closed>>
vars    == <<argv, files, disk, pc, ctx, file, any_error, all_error, out, status,
             streams, failed, lost>>

-------------------------------------------------------------------------------
(* argc may be 1: then the program reads "-". *)
Arguments(args) == IF args = <<>> THEN <<Dash>> ELSE args

IsStdin(k) == argv[k] = Dash

(* What is left to read of *files; nothing if it is a stdin already closed. *)
Content == IF IsStdin(files) /\ ~stdin.open THEN <<>> ELSE disk[files]

(* Where its stream is: fopen's is new, but stdin is where it was left.    *)
Start       == IF IsStdin(files) THEN stdin.at ELSE 0
StartError  == IsStdin(files) /\ stdin.error

init_first_file_only ==
  IF files = 1 THEN [msg |-> <<>>, reduced |-> Partial, phase |-> "open"] ELSE ctx

sha1dc_init == [msg |-> <<>>, reduced |-> Partial, phase |-> "open"]

(* The head of the loop: a fresh context, and the stream of *files. *)
open_file ==
  /\ pc = "files" /\ files <= Len(argv)
  /\ ctx' = sha1dc_init
  /\ opened' = opened \cup {files}
  /\ at' = Start /\ read' = 0 /\ error' = StartError
  /\ pc' = "read"
  /\ UNCHANGED <<argv, files, disk, any_error, all_error, out, status>>
  /\ UNCHANGED <<stdin, closed, failed, lost>>

(* fopen fails: the program ends. *)
open_failure ==
  /\ pc = "files" /\ files <= Len(argv) /\ ~IsStdin(files)
  /\ ctx' = sha1dc_init
  /\ failed' = failed \cup {files}
  /\ status' = 1 /\ pc' = "exited"
  /\ UNCHANGED <<argv, files, disk, file, any_error, all_error, out, streams, lost>>

(* fread returns a full buffer, or what is left before the end of the file *)
(* or before an error.  A stdin that is closed has undefined behaviour: it *)
(* gives nothing, with or without an error.                                *)
fread ==
  /\ pc = "read"
  /\ LET left == Len(Content) - at IN
       \/ read' = (IF left < BufferSize THEN left ELSE BufferSize) /\ UNCHANGED error
       \/ /\ read' \in 0 .. (IF left < BufferSize THEN left ELSE BufferSize - 1)
          /\ error' = TRUE
  /\ pc' = "ingest"
  /\ UNCHANGED <<argv, files, disk, ctx, at, any_error, all_error, out, status>>
  /\ UNCHANGED <<streams, failed, lost>>

Ingested == [ctx EXCEPT !.msg = @ \o SubSeq(Content, at + 1, at + read)]

(* The loop's condition and body: a short count is the end. *)
LastRead_short_before_ingest == read # BufferSize
LastRead == read = 0

ingest ==
  /\ pc = "ingest"
  /\ ctx' = IF LastRead THEN ctx ELSE Ingested
  /\ at' = at + read
  /\ pc' = IF LastRead \/ read # BufferSize THEN "close" ELSE "read"
  /\ UNCHANGED <<argv, files, disk, read, error, any_error, all_error, out, status>>
  /\ UNCHANGED <<streams, failed, lost>>

NextFile_forgets == files' = files
NextFile_twice   == files' = files + 2
NextFile == files' = files + 1

(* A read error: no line, and the stream stays open, its error noted. *)
GivenUp_closed ==
  IF IsStdin(files) THEN [open |-> FALSE, at |-> 0, error |-> FALSE] ELSE stdin

GivenUp == IF IsStdin(files) THEN [stdin EXCEPT !.at = at, !.error = TRUE] ELSE stdin

read_failure ==
  /\ pc = "close" /\ error
  /\ any_error' = TRUE /\ UNCHANGED all_error
  /\ failed' = failed \cup {files}
  /\ stdin' = GivenUp
  /\ NextFile
  /\ pc' = "files"
  /\ UNCHANGED <<argv, disk, ctx, file, out, status, opened, closed, lost>>

(* fclose, which may fail, and then the line is printed all the same. *)
ClosedStreams_not_stdin == IF IsStdin(files) THEN closed ELSE closed \cup {files}
ClosedStreams           == closed \cup {files}

close_file ==
  /\ pc = "close" /\ ~error
  /\ \/ UNCHANGED <<any_error, failed>>
     \/ any_error' = TRUE /\ failed' = failed \cup {files}
  /\ closed' = ClosedStreams
  /\ stdin' = IF IsStdin(files) THEN [open |-> FALSE, at |-> 0, error |-> FALSE] ELSE stdin
  /\ all_error' = FALSE
  /\ pc' = "finish"
  /\ UNCHANGED <<argv, files, disk, ctx, file, out, status, opened, lost>>

(* The line is printed.  Whether stdout takes it, now or when its buffer is *)
(* written, at the latest at the end of the program, nobody asks.           *)
finish ==
  /\ pc = "finish"
  /\ out' = Append(out, [file |-> files, digest |-> Digest(ctx.msg, ctx.reduced)])
  /\ ctx' = [ctx EXCEPT !.phase = "finished"]
  /\ NextFile
  /\ pc' = "files"
  /\ lost' \in {lost, lost \cup {files}}
  /\ UNCHANGED <<argv, disk, file, any_error, all_error, status, streams, failed>>

Number(b) == IF b THEN 1 ELSE 0

ExitStatus_or == Number(any_error \/ all_error)
ExitStatus    == Number(any_error) + 2 * Number(all_error)

exit ==
  /\ pc = "files" /\ files > Len(argv)
  /\ status' = ExitStatus /\ pc' = "exited"
  /\ UNCHANGED <<argv, files, disk, ctx, file, any_error, all_error, out, streams>>
  /\ UNCHANGED <<failed, lost>>

-------------------------------------------------------------------------------
Init ==
  /\ \E args \in CommandLines : argv = Arguments(args)
  /\ disk \in [DOMAIN argv -> Contents]
  /\ \A j, k \in DOMAIN argv : argv[j] = argv[k] => disk[j] = disk[k]
  /\ files = 1 /\ pc = "files"
  /\ ctx = [msg |-> <<>>, reduced |-> FALSE, phase |-> "uninitialised"]
  /\ at = 0 /\ read = 0 /\ error = FALSE
  /\ any_error = FALSE /\ all_error = TRUE
  /\ out = <<>> /\ status = 0
  /\ stdin = [open |-> TRUE, at |-> 0, error |-> FALSE] /\ opened = {} /\ closed = {}
  /\ failed = {} /\ lost = {}

Next ==
  \/ open_file \/ open_failure
  \/ fread \/ ingest
  \/ read_failure \/ close_file \/ finish
  \/ exit

Spec == Init /\ [][Next]_vars

(* The program runs: no call of the C library blocks for ever. *)
FairSpec == Spec /\ WF_vars(Next)

-------------------------------------------------------------------------------
(* Properties. *)

(***************************************************************************)
(* Type correctness.                                                       *)
(***************************************************************************)
TypeOK ==
  /\ argv \in Seq(Names) /\ files \in 1 .. Len(argv) + 1
  /\ disk \in [DOMAIN argv -> Contents]
  /\ pc \in {"files", "read", "ingest", "close", "finish", "exited"}
  /\ ctx.phase \in {"uninitialised", "open", "finished"}
  /\ at \in Nat /\ read \in 0 .. BufferSize /\ error \in BOOLEAN
  /\ any_error \in BOOLEAN /\ all_error \in BOOLEAN
  /\ status \in 0 .. 3
  /\ stdin \in [open : BOOLEAN, at : Nat, error : BOOLEAN]
  /\ UNION {opened, closed, failed, lost} \subseteq DOMAIN argv

Printed == {out[l].file : l \in DOMAIN out}

(* What argument k names when its turn comes: a second "-" names nothing.  *)
Readable(k) ==
  IF IsStdin(k) /\ \E j \in Printed : j < k /\ IsStdin(j) THEN <<>> ELSE disk[k]

(***************************************************************************)
(* Every line printed is for the whole content of its file, read to its    *)
(* end without an error and in full buffers, and of no other: nothing of a *)
(* file that was read before, or given up half-way, is left in the context *)
(* that all the files share.                                               *)
(***************************************************************************)
LinesAreForWholeFiles ==
  \A l \in DOMAIN out :
    out[l].digest = Digest(Readable(out[l].file), Partial)

(***************************************************************************)
(* The context is initialised before each use and never used again after   *)
(* finish, and has what was read of the current stream and no more; the    *)
(* lines come in the order of the arguments.                               *)
(***************************************************************************)
ContextIsFresh ==
  /\ pc \in {"read", "ingest", "close", "finish"} => ctx.phase = "open"
  /\ pc \in {"read", "ingest"} => ctx.msg = SubSeq(Content, Start + 1, at)
  /\ \A l \in DOMAIN out : l > 1 => out[l - 1].file < out[l].file

(***************************************************************************)
(* The exit status tells a script what it needs to know: 0 if nothing      *)
(* failed and every argument has its line, 3 if errors left no line at all *)
(* and the program got to the end, 1 otherwise; 2 never.                   *)
(***************************************************************************)
StatusTells ==
  pc = "exited" =>
    /\ status = 0 <=> failed = {}
    /\ status = 0 => Printed = DOMAIN argv
    /\ status = 3 => out = <<>> /\ failed = DOMAIN argv
    /\ status # 2
    /\ status = 1 => out # <<>> \/ failed \ opened # {}

(***************************************************************************)
(* Streams are not piled up: only those of arguments that could not be     *)
(* read are left open (each of them is, until the program ends).           *)
(***************************************************************************)
OnlyUnreadableStayOpen ==
  pc \in {"files", "exited"} =>
    (opened \ closed) = {k \in failed : k \in opened /\ k \notin Printed}

(***************************************************************************)
(* A stdin that is closed, for which a read and a second fclose have no    *)
(* defined behaviour, is what the program works on exactly when it comes   *)
(* to a "-" and an earlier one has its line.  No other failure, repetition *)
(* or order of the arguments leads there; a "-" that could not be read is  *)
(* not closed, so that the next one finds an open stream.                  *)
(***************************************************************************)
ClosedStdinIsNamedAgain ==
  pc \in {"read", "ingest", "close"} /\ IsStdin(files) =>
    (~stdin.open <=> \E j \in Printed : j < files /\ IsStdin(j))

(***************************************************************************)
(* The program ends.                                                       *)
(***************************************************************************)
Terminates == <>(pc = "exited")

(***************************************************************************)
(* README.md says the program computes the hash "of each file": a file     *)
(* that cannot be used does not keep the others from theirs.               *)
(***************************************************************************)
EachFileIsHashed ==
  pc = "exited" => \A k \in DOMAIN argv : k \in Printed \/ k \in failed

(***************************************************************************)
(* README.md calls the program a "drop-in replacement for `sha1sum`", in   *)
(* whose place a status of 0 says that the lines have been written.        *)
(***************************************************************************)
ZeroMeansWritten == pc = "exited" /\ status = 0 => lost = {}
===============================================================================
