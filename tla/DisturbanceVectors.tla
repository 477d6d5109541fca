-------------------------- MODULE DisturbanceVectors --------------------------
(***************************************************************************)
(* The table of disturbance vectors of lib/parse_bitrel.inc (exported by   *)
(* lib/dv.c) and the table of the states that recompression starts from.   *)
(* What the code and the proofs assume of any such tables, VectorAssumption *)
(* of Process and NeedAssumption and NeedsNoThird of AddBlock, is checked  *)
(* of these: the models that step through the code are given small ones.   *)
(***************************************************************************)
EXTENDS Integers, Sequences

(* class, k, b, test_state, and message_mask, each of its 80 words as two  *)
(* halves of 16 bits, the upper one first.                                 *)
sha1dc_disturbance_vectors == <<
  <<1, 43, 0, 58, <<2048, 0, 38912, 12, 55296, 16, 2048, 16, 47104, 16, 38912, 0, 24576, 0, 0, 8, 49152, 0, 36864, 20, 4096, 16, 47104, 20, 10240, 0, 8192, 16, 18432, 0, 2048, 24, 24576, 0, 36864, 16, 61440, 16, 36864, 8, 49152, 0, 36864, 16, 61440, 16, 45056, 8, 16384, 0, 36864, 0, 61440, 16, 36864, 24, 24576, 0, 36864, 16, 36864, 16, 36864, 0, 32768, 0, 0, 16, 40960, 0, 8192, 0, 40960, 0, 8192, 16, 0, 0, 8192, 16, 8192, 0, 0, 16, 8192, 0, 0, 16, 40960, 0, 0, 0, 8192, 0, 8192, 0, 0, 0, 0, 0, 0, 0, 0, 0, 0, 0, 0, 0, 0, 0, 0, 0, 0, 0, 0, 0, 0, 1, 0, 32, 0, 1, 16384, 2, 16384, 64, 16384, 2, 32768, 4, 32768, 128, 32768, 6, 0, 73, 0, 259, 32768, 9, 32768, 18, 32768, 514, 0, 24, 0, 356, 0, 1032, 32768, 230, 32768, 76, 0, 2051, 32768, 353, 32768, 1433>> >>,
  <<1, 44, 0, 58, <<46080, 8, 2048, 0, 38912, 12, 55296, 16, 2048, 16, 47104, 16, 38912, 0, 24576, 0, 0, 8, 49152, 0, 36864, 20, 4096, 16, 47104, 20, 10240, 0, 8192, 16, 18432, 0, 2048, 24, 24576, 0, 36864, 16, 61440, 16, 36864, 8, 49152, 0, 36864, 16, 61440, 16, 45056, 8, 16384, 0, 36864, 0, 61440, 16, 36864, 24, 24576, 0, 36864, 16, 36864, 16, 36864, 0, 32768, 0, 0, 16, 40960, 0, 8192, 0, 40960, 0, 8192, 16, 0, 0, 8192, 16, 8192, 0, 0, 16, 8192, 0, 0, 16, 40960, 0, 0, 0, 8192, 0, 8192, 0, 0, 0, 0, 0, 0, 0, 0, 0, 0, 0, 0, 0, 0, 0, 0, 0, 0, 0, 0, 0, 0, 1, 0, 32, 0, 1, 16384, 2, 16384, 64, 16384, 2, 32768, 4, 32768, 128, 32768, 6, 0, 73, 0, 259, 32768, 9, 32768, 18, 32768, 514, 0, 24, 0, 356, 0, 1032, 32768, 230, 32768, 76, 0, 2051, 32768, 353>> >>,
  <<1, 45, 0, 58, <<62464, 20, 46080, 8, 2048, 0, 38912, 12, 55296, 16, 2048, 16, 47104, 16, 38912, 0, 24576, 0, 0, 8, 49152, 0, 36864, 20, 4096, 16, 47104, 20, 10240, 0, 8192, 16, 18432, 0, 2048, 24, 24576, 0, 36864, 16, 61440, 16, 36864, 8, 49152, 0, 36864, 16, 61440, 16, 45056, 8, 16384, 0, 36864, 0, 61440, 16, 36864, 24, 24576, 0, 36864, 16, 36864, 16, 36864, 0, 32768, 0, 0, 16, 40960, 0, 8192, 0, 40960, 0, 8192, 16, 0, 0, 8192, 16, 8192, 0, 0, 16, 8192, 0, 0, 16, 40960, 0, 0, 0, 8192, 0, 8192, 0, 0, 0, 0, 0, 0, 0, 0, 0, 0, 0, 0, 0, 0, 0, 0, 0, 0, 0, 0, 0, 0, 1, 0, 32, 0, 1, 16384, 2, 16384, 64, 16384, 2, 32768, 4, 32768, 128, 32768, 6, 0, 73, 0, 259, 32768, 9, 32768, 18, 32768, 514, 0, 24, 0, 356, 0, 1032, 32768, 230, 32768, 76, 0, 2051>> >>,
  <<1, 46, 0, 58, <<11264, 16, 62464, 20, 46080, 8, 2048, 0, 38912, 12, 55296, 16, 2048, 16, 47104, 16, 38912, 0, 24576, 0, 0, 8, 49152, 0, 36864, 20, 4096, 16, 47104, 20, 10240, 0, 8192, 16, 18432, 0, 2048, 24, 24576, 0, 36864, 16, 61440, 16, 36864, 8, 49152, 0, 36864, 16, 61440, 16, 45056, 8, 16384, 0, 36864, 0, 61440, 16, 36864, 24, 24576, 0, 36864, 16, 36864, 16, 36864, 0, 32768, 0, 0, 16, 40960, 0, 8192, 0, 40960, 0, 8192, 16, 0, 0, 8192, 16, 8192, 0, 0, 16, 8192, 0, 0, 16, 40960, 0, 0, 0, 8192, 0, 8192, 0, 0, 0, 0, 0, 0, 0, 0, 0, 0, 0, 0, 0, 0, 0, 0, 0, 0, 0, 0, 0, 0, 1, 0, 32, 0, 1, 16384, 2, 16384, 64, 16384, 2, 32768, 4, 32768, 128, 32768, 6, 0, 73, 0, 259, 32768, 9, 32768, 18, 32768, 514, 0, 24, 0, 356, 0, 1032, 32768, 230, 32768, 76>> >>,
  <<1, 46, 2, 58, <<45056, 64, 53248, 83, 53248, 34, 8192, 0, 24576, 50, 24576, 67, 8192, 64, 57344, 66, 24576, 2, 32768, 1, 0, 32, 0, 3, 16384, 82, 16384, 64, 57344, 82, 40960, 0, 32768, 64, 8192, 1, 8192, 96, 32768, 1, 16384, 66, 49152, 67, 16384, 34, 0, 3, 16384, 66, 49152, 67, 49152, 34, 0, 1, 16384, 2, 49152, 67, 16384, 98, 32768, 1, 16384, 66, 16384, 66, 16384, 2, 0, 2, 0, 64, 32768, 2, 32768, 0, 32768, 2, 32768, 64, 0, 0, 32768, 64, 32768, 0, 0, 64, 32768, 0, 0, 64, 32768, 2, 0, 0, 32768, 0, 32768, 0, 0, 0, 0, 0, 0, 0, 0, 0, 0, 0, 0, 0, 0, 0, 0, 0, 0, 0, 0, 0, 0, 4, 0, 128, 0, 4, 0, 9, 0, 257, 0, 9, 0, 18, 0, 514, 0, 26, 0, 292, 0, 1036, 0, 38, 0, 74, 0, 2058, 0, 96, 0, 1424, 0, 4128, 0, 922, 0, 306>> >>,
  <<1, 47, 0, 58, <<51200, 16, 11264, 16, 62464, 20, 46080, 8, 2048, 0, 38912, 12, 55296, 16, 2048, 16, 47104, 16, 38912, 0, 24576, 0, 0, 8, 49152, 0, 36864, 20, 4096, 16, 47104, 20, 10240, 0, 8192, 16, 18432, 0, 2048, 24, 24576, 0, 36864, 16, 61440, 16, 36864, 8, 49152, 0, 36864, 16, 61440, 16, 45056, 8, 16384, 0, 36864, 0, 61440, 16, 36864, 24, 24576, 0, 36864, 16, 36864, 16, 36864, 0, 32768, 0, 0, 16, 40960, 0, 8192, 0, 40960, 0, 8192, 16, 0, 0, 8192, 16, 8192, 0, 0, 16, 8192, 0, 0, 16, 40960, 0, 0, 0, 8192, 0, 8192, 0, 0, 0, 0, 0, 0, 0, 0, 0, 0, 0, 0, 0, 0, 0, 0, 0, 0, 0, 0, 0, 0, 1, 0, 32, 0, 1, 16384, 2, 16384, 64, 16384, 2, 32768, 4, 32768, 128, 32768, 6, 0, 73, 0, 259, 32768, 9, 32768, 18, 32768, 514, 0, 24, 0, 356, 0, 1032, 32768, 230>> >>,
  <<1, 47, 2, 58, <<8192, 67, 45056, 64, 53248, 83, 53248, 34, 8192, 0, 24576, 50, 24576, 67, 8192, 64, 57344, 66, 24576, 2, 32768, 1, 0, 32, 0, 3, 16384, 82, 16384, 64, 57344, 82, 40960, 0, 32768, 64, 8192, 1, 8192, 96, 32768, 1, 16384, 66, 49152, 67, 16384, 34, 0, 3, 16384, 66, 49152, 67, 49152, 34, 0, 1, 16384, 2, 49152, 67, 16384, 98, 32768, 1, 16384, 66, 16384, 66, 16384, 2, 0, 2, 0, 64, 32768, 2, 32768, 0, 32768, 2, 32768, 64, 0, 0, 32768, 64, 32768, 0, 0, 64, 32768, 0, 0, 64, 32768, 2, 0, 0, 32768, 0, 32768, 0, 0, 0, 0, 0, 0, 0, 0, 0, 0, 0, 0, 0, 0, 0, 0, 0, 0, 0, 0, 0, 0, 4, 0, 128, 0, 4, 0, 9, 0, 257, 0, 9, 0, 18, 0, 514, 0, 26, 0, 292, 0, 1036, 0, 38, 0, 74, 0, 2058, 0, 96, 0, 1424, 0, 4128, 0, 922>> >>,
  <<1, 48, 0, 58, <<47104, 10, 51200, 16, 11264, 16, 62464, 20, 46080, 8, 2048, 0, 38912, 12, 55296, 16, 2048, 16, 47104, 16, 38912, 0, 24576, 0, 0, 8, 49152, 0, 36864, 20, 4096, 16, 47104, 20, 10240, 0, 8192, 16, 18432, 0, 2048, 24, 24576, 0, 36864, 16, 61440, 16, 36864, 8, 49152, 0, 36864, 16, 61440, 16, 45056, 8, 16384, 0, 36864, 0, 61440, 16, 36864, 24, 24576, 0, 36864, 16, 36864, 16, 36864, 0, 32768, 0, 0, 16, 40960, 0, 8192, 0, 40960, 0, 8192, 16, 0, 0, 8192, 16, 8192, 0, 0, 16, 8192, 0, 0, 16, 40960, 0, 0, 0, 8192, 0, 8192, 0, 0, 0, 0, 0, 0, 0, 0, 0, 0, 0, 0, 0, 0, 0, 0, 0, 0, 0, 0, 0, 0, 1, 0, 32, 0, 1, 16384, 2, 16384, 64, 16384, 2, 32768, 4, 32768, 128, 32768, 6, 0, 73, 0, 259, 32768, 9, 32768, 18, 32768, 514, 0, 24, 0, 356, 0, 1032>> >>,
  <<1, 48, 2, 58, <<57344, 42, 8192, 67, 45056, 64, 53248, 83, 53248, 34, 8192, 0, 24576, 50, 24576, 67, 8192, 64, 57344, 66, 24576, 2, 32768, 1, 0, 32, 0, 3, 16384, 82, 16384, 64, 57344, 82, 40960, 0, 32768, 64, 8192, 1, 8192, 96, 32768, 1, 16384, 66, 49152, 67, 16384, 34, 0, 3, 16384, 66, 49152, 67, 49152, 34, 0, 1, 16384, 2, 49152, 67, 16384, 98, 32768, 1, 16384, 66, 16384, 66, 16384, 2, 0, 2, 0, 64, 32768, 2, 32768, 0, 32768, 2, 32768, 64, 0, 0, 32768, 64, 32768, 0, 0, 64, 32768, 0, 0, 64, 32768, 2, 0, 0, 32768, 0, 32768, 0, 0, 0, 0, 0, 0, 0, 0, 0, 0, 0, 0, 0, 0, 0, 0, 0, 0, 0, 0, 0, 0, 4, 0, 128, 0, 4, 0, 9, 0, 257, 0, 9, 0, 18, 0, 514, 0, 26, 0, 292, 0, 1036, 0, 38, 0, 74, 0, 2058, 0, 96, 0, 1424, 0, 4128>> >>,
  <<1, 49, 0, 58, <<6144, 0, 47104, 10, 51200, 16, 11264, 16, 62464, 20, 46080, 8, 2048, 0, 38912, 12, 55296, 16, 2048, 16, 47104, 16, 38912, 0, 24576, 0, 0, 8, 49152, 0, 36864, 20, 4096, 16, 47104, 20, 10240, 0, 8192, 16, 18432, 0, 2048, 24, 24576, 0, 36864, 16, 61440, 16, 36864, 8, 49152, 0, 36864, 16, 61440, 16, 45056, 8, 16384, 0, 36864, 0, 61440, 16, 36864, 24, 24576, 0, 36864, 16, 36864, 16, 36864, 0, 32768, 0, 0, 16, 40960, 0, 8192, 0, 40960, 0, 8192, 16, 0, 0, 8192, 16, 8192, 0, 0, 16, 8192, 0, 0, 16, 40960, 0, 0, 0, 8192, 0, 8192, 0, 0, 0, 0, 0, 0, 0, 0, 0, 0, 0, 0, 0, 0, 0, 0, 0, 0, 0, 0, 0, 0, 1, 0, 32, 0, 1, 16384, 2, 16384, 64, 16384, 2, 32768, 4, 32768, 128, 32768, 6, 0, 73, 0, 259, 32768, 9, 32768, 18, 32768, 514, 0, 24, 0, 356>> >>,
  <<1, 49, 2, 58, <<24576, 0, 57344, 42, 8192, 67, 45056, 64, 53248, 83, 53248, 34, 8192, 0, 24576, 50, 24576, 67, 8192, 64, 57344, 66, 24576, 2, 32768, 1, 0, 32, 0, 3, 16384, 82, 16384, 64, 57344, 82, 40960, 0, 32768, 64, 8192, 1, 8192, 96, 32768, 1, 16384, 66, 49152, 67, 16384, 34, 0, 3, 16384, 66, 49152, 67, 49152, 34, 0, 1, 16384, 2, 49152, 67, 16384, 98, 32768, 1, 16384, 66, 16384, 66, 16384, 2, 0, 2, 0, 64, 32768, 2, 32768, 0, 32768, 2, 32768, 64, 0, 0, 32768, 64, 32768, 0, 0, 64, 32768, 0, 0, 64, 32768, 2, 0, 0, 32768, 0, 32768, 0, 0, 0, 0, 0, 0, 0, 0, 0, 0, 0, 0, 0, 0, 0, 0, 0, 0, 0, 0, 0, 0, 4, 0, 128, 0, 4, 0, 9, 0, 257, 0, 9, 0, 18, 0, 514, 0, 26, 0, 292, 0, 1036, 0, 38, 0, 74, 0, 2058, 0, 96, 0, 1424>> >>,
  <<1, 50, 0, 58, <<2048, 12, 6144, 0, 47104, 10, 51200, 16, 11264, 16, 62464, 20, 46080, 8, 2048, 0, 38912, 12, 55296, 16, 2048, 16, 47104, 16, 38912, 0, 24576, 0, 0, 8, 49152, 0, 36864, 20, 4096, 16, 47104, 20, 10240, 0, 8192, 16, 18432, 0, 2048, 24, 24576, 0, 36864, 16, 61440, 16, 36864, 8, 49152, 0, 36864, 16, 61440, 16, 45056, 8, 16384, 0, 36864, 0, 61440, 16, 36864, 24, 24576, 0, 36864, 16, 36864, 16, 36864, 0, 32768, 0, 0, 16, 40960, 0, 8192, 0, 40960, 0, 8192, 16, 0, 0, 8192, 16, 8192, 0, 0, 16, 8192, 0, 0, 16, 40960, 0, 0, 0, 8192, 0, 8192, 0, 0, 0, 0, 0, 0, 0, 0, 0, 0, 0, 0, 0, 0, 0, 0, 0, 0, 0, 0, 0, 0, 1, 0, 32, 0, 1, 16384, 2, 16384, 64, 16384, 2, 32768, 4, 32768, 128, 32768, 6, 0, 73, 0, 259, 32768, 9, 32768, 18, 32768, 514, 0, 24>> >>,
  <<1, 50, 2, 58, <<8192, 48, 24576, 0, 57344, 42, 8192, 67, 45056, 64, 53248, 83, 53248, 34, 8192, 0, 24576, 50, 24576, 67, 8192, 64, 57344, 66, 24576, 2, 32768, 1, 0, 32, 0, 3, 16384, 82, 16384, 64, 57344, 82, 40960, 0, 32768, 64, 8192, 1, 8192, 96, 32768, 1, 16384, 66, 49152, 67, 16384, 34, 0, 3, 16384, 66, 49152, 67, 49152, 34, 0, 1, 16384, 2, 49152, 67, 16384, 98, 32768, 1, 16384, 66, 16384, 66, 16384, 2, 0, 2, 0, 64, 32768, 2, 32768, 0, 32768, 2, 32768, 64, 0, 0, 32768, 64, 32768, 0, 0, 64, 32768, 0, 0, 64, 32768, 2, 0, 0, 32768, 0, 32768, 0, 0, 0, 0, 0, 0, 0, 0, 0, 0, 0, 0, 0, 0, 0, 0, 0, 0, 0, 0, 0, 0, 4, 0, 128, 0, 4, 0, 9, 0, 257, 0, 9, 0, 18, 0, 514, 0, 26, 0, 292, 0, 1036, 0, 38, 0, 74, 0, 2058, 0, 96>> >>,
  <<1, 51, 0, 65, <<59392, 0, 2048, 12, 6144, 0, 47104, 10, 51200, 16, 11264, 16, 62464, 20, 46080, 8, 2048, 0, 38912, 12, 55296, 16, 2048, 16, 47104, 16, 38912, 0, 24576, 0, 0, 8, 49152, 0, 36864, 20, 4096, 16, 47104, 20, 10240, 0, 8192, 16, 18432, 0, 2048, 24, 24576, 0, 36864, 16, 61440, 16, 36864, 8, 49152, 0, 36864, 16, 61440, 16, 45056, 8, 16384, 0, 36864, 0, 61440, 16, 36864, 24, 24576, 0, 36864, 16, 36864, 16, 36864, 0, 32768, 0, 0, 16, 40960, 0, 8192, 0, 40960, 0, 8192, 16, 0, 0, 8192, 16, 8192, 0, 0, 16, 8192, 0, 0, 16, 40960, 0, 0, 0, 8192, 0, 8192, 0, 0, 0, 0, 0, 0, 0, 0, 0, 0, 0, 0, 0, 0, 0, 0, 0, 0, 0, 0, 0, 0, 1, 0, 32, 0, 1, 16384, 2, 16384, 64, 16384, 2, 32768, 4, 32768, 128, 32768, 6, 0, 73, 0, 259, 32768, 9, 32768, 18, 32768, 514>> >>,
  <<1, 51, 2, 65, <<40960, 3, 8192, 48, 24576, 0, 57344, 42, 8192, 67, 45056, 64, 53248, 83, 53248, 34, 8192, 0, 24576, 50, 24576, 67, 8192, 64, 57344, 66, 24576, 2, 32768, 1, 0, 32, 0, 3, 16384, 82, 16384, 64, 57344, 82, 40960, 0, 32768, 64, 8192, 1, 8192, 96, 32768, 1, 16384, 66, 49152, 67, 16384, 34, 0, 3, 16384, 66, 49152, 67, 49152, 34, 0, 1, 16384, 2, 49152, 67, 16384, 98, 32768, 1, 16384, 66, 16384, 66, 16384, 2, 0, 2, 0, 64, 32768, 2, 32768, 0, 32768, 2, 32768, 64, 0, 0, 32768, 64, 32768, 0, 0, 64, 32768, 0, 0, 64, 32768, 2, 0, 0, 32768, 0, 32768, 0, 0, 0, 0, 0, 0, 0, 0, 0, 0, 0, 0, 0, 0, 0, 0, 0, 0, 0, 0, 0, 0, 4, 0, 128, 0, 4, 0, 9, 0, 257, 0, 9, 0, 18, 0, 514, 0, 26, 0, 292, 0, 1036, 0, 38, 0, 74, 0, 2058>> >>,
  <<1, 52, 0, 65, <<1024, 16, 59392, 0, 2048, 12, 6144, 0, 47104, 10, 51200, 16, 11264, 16, 62464, 20, 46080, 8, 2048, 0, 38912, 12, 55296, 16, 2048, 16, 47104, 16, 38912, 0, 24576, 0, 0, 8, 49152, 0, 36864, 20, 4096, 16, 47104, 20, 10240, 0, 8192, 16, 18432, 0, 2048, 24, 24576, 0, 36864, 16, 61440, 16, 36864, 8, 49152, 0, 36864, 16, 61440, 16, 45056, 8, 16384, 0, 36864, 0, 61440, 16, 36864, 24, 24576, 0, 36864, 16, 36864, 16, 36864, 0, 32768, 0, 0, 16, 40960, 0, 8192, 0, 40960, 0, 8192, 16, 0, 0, 8192, 16, 8192, 0, 0, 16, 8192, 0, 0, 16, 40960, 0, 0, 0, 8192, 0, 8192, 0, 0, 0, 0, 0, 0, 0, 0, 0, 0, 0, 0, 0, 0, 0, 0, 0, 0, 0, 0, 0, 0, 1, 0, 32, 0, 1, 16384, 2, 16384, 64, 16384, 2, 32768, 4, 32768, 128, 32768, 6, 0, 73, 0, 259, 32768, 9, 32768, 18>> >>,
  <<2, 45, 0, 58, <<60416, 20, 3072, 2, 49152, 16, 46080, 28, 11264, 4, 48128, 24, 45056, 16, 0, 12, 47104, 16, 2048, 24, 30720, 16, 2048, 20, 28672, 16, 47104, 28, 59392, 0, 45056, 4, 22528, 16, 45056, 12, 18432, 0, 45056, 0, 47104, 16, 38912, 16, 40960, 0, 0, 0, 0, 0, 8192, 0, 32768, 0, 0, 16, 0, 0, 8192, 16, 8192, 0, 0, 16, 24576, 0, 0, 24, 57344, 0, 36864, 0, 12288, 16, 45056, 0, 8192, 0, 8192, 0, 40960, 0, 0, 16, 32768, 0, 8192, 0, 8192, 0, 8192, 0, 32768, 0, 0, 16, 0, 0, 8192, 16, 40960, 0, 0, 0, 8192, 0, 8192, 0, 0, 0, 0, 0, 0, 0, 0, 0, 0, 0, 0, 0, 0, 1, 0, 32, 0, 1, 16384, 2, 16384, 65, 16384, 34, 32768, 5, 49152, 130, 49152, 70, 16384, 75, 32768, 263, 0, 137, 0, 20, 32768, 587, 0, 283, 32768, 365, 32768, 1050, 0, 740, 32768, 84, 0, 2407>> >>,
  <<2, 46, 0, 58, <<9216, 28, 60416, 20, 3072, 2, 49152, 16, 46080, 28, 11264, 4, 48128, 24, 45056, 16, 0, 12, 47104, 16, 2048, 24, 30720, 16, 2048, 20, 28672, 16, 47104, 28, 59392, 0, 45056, 4, 22528, 16, 45056, 12, 18432, 0, 45056, 0, 47104, 16, 38912, 16, 40960, 0, 0, 0, 0, 0, 8192, 0, 32768, 0, 0, 16, 0, 0, 8192, 16, 8192, 0, 0, 16, 24576, 0, 0, 24, 57344, 0, 36864, 0, 12288, 16, 45056, 0, 8192, 0, 8192, 0, 40960, 0, 0, 16, 32768, 0, 8192, 0, 8192, 0, 8192, 0, 32768, 0, 0, 16, 0, 0, 8192, 16, 40960, 0, 0, 0, 8192, 0, 8192, 0, 0, 0, 0, 0, 0, 0, 0, 0, 0, 0, 0, 0, 0, 1, 0, 32, 0, 1, 16384, 2, 16384, 65, 16384, 34, 32768, 5, 49152, 130, 49152, 70, 16384, 75, 32768, 263, 0, 137, 0, 20, 32768, 587, 0, 283, 32768, 365, 32768, 1050, 0, 740, 32768, 84>> >>,
  <<2, 46, 2, 58, <<36864, 112, 45056, 83, 12288, 8, 0, 67, 53248, 114, 45056, 16, 61440, 98, 49152, 66, 0, 48, 57344, 66, 8192, 96, 57344, 65, 8192, 80, 49152, 65, 57344, 114, 40960, 3, 49152, 18, 24576, 65, 49152, 50, 8192, 1, 49152, 2, 57344, 66, 24576, 66, 32768, 2, 0, 0, 0, 0, 32768, 0, 0, 2, 0, 64, 0, 0, 32768, 64, 32768, 0, 0, 64, 32768, 1, 0, 96, 32768, 3, 16384, 2, 49152, 64, 49152, 2, 32768, 0, 32768, 0, 32768, 2, 0, 64, 0, 2, 32768, 0, 32768, 0, 32768, 0, 0, 2, 0, 64, 0, 0, 32768, 64, 32768, 2, 0, 0, 32768, 0, 32768, 0, 0, 0, 0, 0, 0, 0, 0, 0, 0, 0, 0, 0, 0, 4, 0, 128, 0, 4, 0, 9, 0, 261, 0, 137, 0, 22, 0, 523, 0, 283, 0, 301, 0, 1054, 0, 548, 0, 80, 0, 2350, 0, 1132, 0, 1462, 0, 4202, 0, 2960, 0, 338>> >>,
  <<2, 47, 0, 58, <<8192, 16, 9216, 28, 60416, 20, 3072, 2, 49152, 16, 46080, 28, 11264, 4, 48128, 24, 45056, 16, 0, 12, 47104, 16, 2048, 24, 30720, 16, 2048, 20, 28672, 16, 47104, 28, 59392, 0, 45056, 4, 22528, 16, 45056, 12, 18432, 0, 45056, 0, 47104, 16, 38912, 16, 40960, 0, 0, 0, 0, 0, 8192, 0, 32768, 0, 0, 16, 0, 0, 8192, 16, 8192, 0, 0, 16, 24576, 0, 0, 24, 57344, 0, 36864, 0, 12288, 16, 45056, 0, 8192, 0, 8192, 0, 40960, 0, 0, 16, 32768, 0, 8192, 0, 8192, 0, 8192, 0, 32768, 0, 0, 16, 0, 0, 8192, 16, 40960, 0, 0, 0, 8192, 0, 8192, 0, 0, 0, 0, 0, 0, 0, 0, 0, 0, 0, 0, 0, 0, 1, 0, 32, 0, 1, 16384, 2, 16384, 65, 16384, 34, 32768, 5, 49152, 130, 49152, 70, 16384, 75, 32768, 263, 0, 137, 0, 20, 32768, 587, 0, 283, 32768, 365, 32768, 1050, 0, 740>> >>,
  <<2, 48, 0, 58, <<48128, 26, 8192, 16, 9216, 28, 60416, 20, 3072, 2, 49152, 16, 46080, 28, 11264, 4, 48128, 24, 45056, 16, 0, 12, 47104, 16, 2048, 24, 30720, 16, 2048, 20, 28672, 16, 47104, 28, 59392, 0, 45056, 4, 22528, 16, 45056, 12, 18432, 0, 45056, 0, 47104, 16, 38912, 16, 40960, 0, 0, 0, 0, 0, 8192, 0, 32768, 0, 0, 16, 0, 0, 8192, 16, 8192, 0, 0, 16, 24576, 0, 0, 24, 57344, 0, 36864, 0, 12288, 16, 45056, 0, 8192, 0, 8192, 0, 40960, 0, 0, 16, 32768, 0, 8192, 0, 8192, 0, 8192, 0, 32768, 0, 0, 16, 0, 0, 8192, 16, 40960, 0, 0, 0, 8192, 0, 8192, 0, 0, 0, 0, 0, 0, 0, 0, 0, 0, 0, 0, 0, 0, 1, 0, 32, 0, 1, 16384, 2, 16384, 65, 16384, 34, 32768, 5, 49152, 130, 49152, 70, 16384, 75, 32768, 263, 0, 137, 0, 20, 32768, 587, 0, 283, 32768, 365, 32768, 1050>> >>,
  <<2, 49, 0, 58, <<15360, 4, 48128, 26, 8192, 16, 9216, 28, 60416, 20, 3072, 2, 49152, 16, 46080, 28, 11264, 4, 48128, 24, 45056, 16, 0, 12, 47104, 16, 2048, 24, 30720, 16, 2048, 20, 28672, 16, 47104, 28, 59392, 0, 45056, 4, 22528, 16, 45056, 12, 18432, 0, 45056, 0, 47104, 16, 38912, 16, 40960, 0, 0, 0, 0, 0, 8192, 0, 32768, 0, 0, 16, 0, 0, 8192, 16, 8192, 0, 0, 16, 24576, 0, 0, 24, 57344, 0, 36864, 0, 12288, 16, 45056, 0, 8192, 0, 8192, 0, 40960, 0, 0, 16, 32768, 0, 8192, 0, 8192, 0, 8192, 0, 32768, 0, 0, 16, 0, 0, 8192, 16, 40960, 0, 0, 0, 8192, 0, 8192, 0, 0, 0, 0, 0, 0, 0, 0, 0, 0, 0, 0, 0, 0, 1, 0, 32, 0, 1, 16384, 2, 16384, 65, 16384, 34, 32768, 5, 49152, 130, 49152, 70, 16384, 75, 32768, 263, 0, 137, 0, 20, 32768, 587, 0, 283, 32768, 365>> >>,
  <<2, 49, 2, 58, <<61440, 16, 61440, 106, 32768, 64, 36864, 112, 45056, 83, 12288, 8, 0, 67, 53248, 114, 45056, 16, 61440, 98, 49152, 66, 0, 48, 57344, 66, 8192, 96, 57344, 65, 8192, 80, 49152, 65, 57344, 114, 40960, 3, 49152, 18, 24576, 65, 49152, 50, 8192, 1, 49152, 2, 57344, 66, 24576, 66, 32768, 2, 0, 0, 0, 0, 32768, 0, 0, 2, 0, 64, 0, 0, 32768, 64, 32768, 0, 0, 64, 32768, 1, 0, 96, 32768, 3, 16384, 2, 49152, 64, 49152, 2, 32768, 0, 32768, 0, 32768, 2, 0, 64, 0, 2, 32768, 0, 32768, 0, 32768, 0, 0, 2, 0, 64, 0, 0, 32768, 64, 32768, 2, 0, 0, 32768, 0, 32768, 0, 0, 0, 0, 0, 0, 0, 0, 0, 0, 0, 0, 0, 0, 4, 0, 128, 0, 4, 0, 9, 0, 261, 0, 137, 0, 22, 0, 523, 0, 283, 0, 301, 0, 1054, 0, 548, 0, 80, 0, 2350, 0, 1132, 0, 1462>> >>,
  <<2, 50, 0, 65, <<46080, 28, 15360, 4, 48128, 26, 8192, 16, 9216, 28, 60416, 20, 3072, 2, 49152, 16, 46080, 28, 11264, 4, 48128, 24, 45056, 16, 0, 12, 47104, 16, 2048, 24, 30720, 16, 2048, 20, 28672, 16, 47104, 28, 59392, 0, 45056, 4, 22528, 16, 45056, 12, 18432, 0, 45056, 0, 47104, 16, 38912, 16, 40960, 0, 0, 0, 0, 0, 8192, 0, 32768, 0, 0, 16, 0, 0, 8192, 16, 8192, 0, 0, 16, 24576, 0, 0, 24, 57344, 0, 36864, 0, 12288, 16, 45056, 0, 8192, 0, 8192, 0, 40960, 0, 0, 16, 32768, 0, 8192, 0, 8192, 0, 8192, 0, 32768, 0, 0, 16, 0, 0, 8192, 16, 40960, 0, 0, 0, 8192, 0, 8192, 0, 0, 0, 0, 0, 0, 0, 0, 0, 0, 0, 0, 0, 0, 1, 0, 32, 0, 1, 16384, 2, 16384, 65, 16384, 34, 32768, 5, 49152, 130, 49152, 70, 16384, 75, 32768, 263, 0, 137, 0, 20, 32768, 587, 0, 283>> >>,
  <<2, 50, 2, 65, <<53248, 114, 61440, 16, 61440, 106, 32768, 64, 36864, 112, 45056, 83, 12288, 8, 0, 67, 53248, 114, 45056, 16, 61440, 98, 49152, 66, 0, 48, 57344, 66, 8192, 96, 57344, 65, 8192, 80, 49152, 65, 57344, 114, 40960, 3, 49152, 18, 24576, 65, 49152, 50, 8192, 1, 49152, 2, 57344, 66, 24576, 66, 32768, 2, 0, 0, 0, 0, 32768, 0, 0, 2, 0, 64, 0, 0, 32768, 64, 32768, 0, 0, 64, 32768, 1, 0, 96, 32768, 3, 16384, 2, 49152, 64, 49152, 2, 32768, 0, 32768, 0, 32768, 2, 0, 64, 0, 2, 32768, 0, 32768, 0, 32768, 0, 0, 2, 0, 64, 0, 0, 32768, 64, 32768, 2, 0, 0, 32768, 0, 32768, 0, 0, 0, 0, 0, 0, 0, 0, 0, 0, 0, 0, 0, 0, 4, 0, 128, 0, 4, 0, 9, 0, 261, 0, 137, 0, 22, 0, 523, 0, 283, 0, 301, 0, 1054, 0, 548, 0, 80, 0, 2350, 0, 1132>> >>,
  <<2, 51, 0, 65, <<49152, 16, 46080, 28, 15360, 4, 48128, 26, 8192, 16, 9216, 28, 60416, 20, 3072, 2, 49152, 16, 46080, 28, 11264, 4, 48128, 24, 45056, 16, 0, 12, 47104, 16, 2048, 24, 30720, 16, 2048, 20, 28672, 16, 47104, 28, 59392, 0, 45056, 4, 22528, 16, 45056, 12, 18432, 0, 45056, 0, 47104, 16, 38912, 16, 40960, 0, 0, 0, 0, 0, 8192, 0, 32768, 0, 0, 16, 0, 0, 8192, 16, 8192, 0, 0, 16, 24576, 0, 0, 24, 57344, 0, 36864, 0, 12288, 16, 45056, 0, 8192, 0, 8192, 0, 40960, 0, 0, 16, 32768, 0, 8192, 0, 8192, 0, 8192, 0, 32768, 0, 0, 16, 0, 0, 8192, 16, 40960, 0, 0, 0, 8192, 0, 8192, 0, 0, 0, 0, 0, 0, 0, 0, 0, 0, 0, 0, 0, 0, 1, 0, 32, 0, 1, 16384, 2, 16384, 65, 16384, 34, 32768, 5, 49152, 130, 49152, 70, 16384, 75, 32768, 263, 0, 137, 0, 20, 32768, 587>> >>,
  <<2, 51, 2, 65, <<0, 67, 53248, 114, 61440, 16, 61440, 106, 32768, 64, 36864, 112, 45056, 83, 12288, 8, 0, 67, 53248, 114, 45056, 16, 61440, 98, 49152, 66, 0, 48, 57344, 66, 8192, 96, 57344, 65, 8192, 80, 49152, 65, 57344, 114, 40960, 3, 49152, 18, 24576, 65, 49152, 50, 8192, 1, 49152, 2, 57344, 66, 24576, 66, 32768, 2, 0, 0, 0, 0, 32768, 0, 0, 2, 0, 64, 0, 0, 32768, 64, 32768, 0, 0, 64, 32768, 1, 0, 96, 32768, 3, 16384, 2, 49152, 64, 49152, 2, 32768, 0, 32768, 0, 32768, 2, 0, 64, 0, 2, 32768, 0, 32768, 0, 32768, 0, 0, 2, 0, 64, 0, 0, 32768, 64, 32768, 2, 0, 0, 32768, 0, 32768, 0, 0, 0, 0, 0, 0, 0, 0, 0, 0, 0, 0, 0, 0, 4, 0, 128, 0, 4, 0, 9, 0, 261, 0, 137, 0, 22, 0, 523, 0, 283, 0, 301, 0, 1054, 0, 548, 0, 80, 0, 2350>> >>,
  <<2, 52, 0, 65, <<3072, 2, 49152, 16, 46080, 28, 15360, 4, 48128, 26, 8192, 16, 9216, 28, 60416, 20, 3072, 2, 49152, 16, 46080, 28, 11264, 4, 48128, 24, 45056, 16, 0, 12, 47104, 16, 2048, 24, 30720, 16, 2048, 20, 28672, 16, 47104, 28, 59392, 0, 45056, 4, 22528, 16, 45056, 12, 18432, 0, 45056, 0, 47104, 16, 38912, 16, 40960, 0, 0, 0, 0, 0, 8192, 0, 32768, 0, 0, 16, 0, 0, 8192, 16, 8192, 0, 0, 16, 24576, 0, 0, 24, 57344, 0, 36864, 0, 12288, 16, 45056, 0, 8192, 0, 8192, 0, 40960, 0, 0, 16, 32768, 0, 8192, 0, 8192, 0, 8192, 0, 32768, 0, 0, 16, 0, 0, 8192, 16, 40960, 0, 0, 0, 8192, 0, 8192, 0, 0, 0, 0, 0, 0, 0, 0, 0, 0, 0, 0, 0, 0, 1, 0, 32, 0, 1, 16384, 2, 16384, 65, 16384, 34, 32768, 5, 49152, 130, 49152, 70, 16384, 75, 32768, 263, 0, 137, 0, 20>> >>,
  <<2, 53, 0, 65, <<52224, 20, 3072, 2, 49152, 16, 46080, 28, 15360, 4, 48128, 26, 8192, 16, 9216, 28, 60416, 20, 3072, 2, 49152, 16, 46080, 28, 11264, 4, 48128, 24, 45056, 16, 0, 12, 47104, 16, 2048, 24, 30720, 16, 2048, 20, 28672, 16, 47104, 28, 59392, 0, 45056, 4, 22528, 16, 45056, 12, 18432, 0, 45056, 0, 47104, 16, 38912, 16, 40960, 0, 0, 0, 0, 0, 8192, 0, 32768, 0, 0, 16, 0, 0, 8192, 16, 8192, 0, 0, 16, 24576, 0, 0, 24, 57344, 0, 36864, 0, 12288, 16, 45056, 0, 8192, 0, 8192, 0, 40960, 0, 0, 16, 32768, 0, 8192, 0, 8192, 0, 8192, 0, 32768, 0, 0, 16, 0, 0, 8192, 16, 40960, 0, 0, 0, 8192, 0, 8192, 0, 0, 0, 0, 0, 0, 0, 0, 0, 0, 0, 0, 0, 0, 1, 0, 32, 0, 1, 16384, 2, 16384, 65, 16384, 34, 32768, 5, 49152, 130, 49152, 70, 16384, 75, 32768, 263, 0, 137>> >>,
  <<2, 54, 0, 65, <<1024, 28, 52224, 20, 3072, 2, 49152, 16, 46080, 28, 15360, 4, 48128, 26, 8192, 16, 9216, 28, 60416, 20, 3072, 2, 49152, 16, 46080, 28, 11264, 4, 48128, 24, 45056, 16, 0, 12, 47104, 16, 2048, 24, 30720, 16, 2048, 20, 28672, 16, 47104, 28, 59392, 0, 45056, 4, 22528, 16, 45056, 12, 18432, 0, 45056, 0, 47104, 16, 38912, 16, 40960, 0, 0, 0, 0, 0, 8192, 0, 32768, 0, 0, 16, 0, 0, 8192, 16, 8192, 0, 0, 16, 24576, 0, 0, 24, 57344, 0, 36864, 0, 12288, 16, 45056, 0, 8192, 0, 8192, 0, 40960, 0, 0, 16, 32768, 0, 8192, 0, 8192, 0, 8192, 0, 32768, 0, 0, 16, 0, 0, 8192, 16, 40960, 0, 0, 0, 8192, 0, 8192, 0, 0, 0, 0, 0, 0, 0, 0, 0, 0, 0, 0, 0, 0, 1, 0, 32, 0, 1, 16384, 2, 16384, 65, 16384, 34, 32768, 5, 49152, 130, 49152, 70, 16384, 75, 32768, 263>> >>,
  <<2, 55, 0, 65, <<0, 16, 1024, 28, 52224, 20, 3072, 2, 49152, 16, 46080, 28, 15360, 4, 48128, 26, 8192, 16, 9216, 28, 60416, 20, 3072, 2, 49152, 16, 46080, 28, 11264, 4, 48128, 24, 45056, 16, 0, 12, 47104, 16, 2048, 24, 30720, 16, 2048, 20, 28672, 16, 47104, 28, 59392, 0, 45056, 4, 22528, 16, 45056, 12, 18432, 0, 45056, 0, 47104, 16, 38912, 16, 40960, 0, 0, 0, 0, 0, 8192, 0, 32768, 0, 0, 16, 0, 0, 8192, 16, 8192, 0, 0, 16, 24576, 0, 0, 24, 57344, 0, 36864, 0, 12288, 16, 45056, 0, 8192, 0, 8192, 0, 40960, 0, 0, 16, 32768, 0, 8192, 0, 8192, 0, 8192, 0, 32768, 0, 0, 16, 0, 0, 8192, 16, 40960, 0, 0, 0, 8192, 0, 8192, 0, 0, 0, 0, 0, 0, 0, 0, 0, 0, 0, 0, 0, 0, 1, 0, 32, 0, 1, 16384, 2, 16384, 65, 16384, 34, 32768, 5, 49152, 130, 49152, 70, 16384, 75>> >>,
  <<2, 56, 0, 65, <<9728, 26, 0, 16, 1024, 28, 52224, 20, 3072, 2, 49152, 16, 46080, 28, 15360, 4, 48128, 26, 8192, 16, 9216, 28, 60416, 20, 3072, 2, 49152, 16, 46080, 28, 11264, 4, 48128, 24, 45056, 16, 0, 12, 47104, 16, 2048, 24, 30720, 16, 2048, 20, 28672, 16, 47104, 28, 59392, 0, 45056, 4, 22528, 16, 45056, 12, 18432, 0, 45056, 0, 47104, 16, 38912, 16, 40960, 0, 0, 0, 0, 0, 8192, 0, 32768, 0, 0, 16, 0, 0, 8192, 16, 8192, 0, 0, 16, 24576, 0, 0, 24, 57344, 0, 36864, 0, 12288, 16, 45056, 0, 8192, 0, 8192, 0, 40960, 0, 0, 16, 32768, 0, 8192, 0, 8192, 0, 8192, 0, 32768, 0, 0, 16, 0, 0, 8192, 16, 40960, 0, 0, 0, 8192, 0, 8192, 0, 0, 0, 0, 0, 0, 0, 0, 0, 0, 0, 0, 0, 0, 1, 0, 32, 0, 1, 16384, 2, 16384, 65, 16384, 34, 32768, 5, 49152, 130, 49152, 70>> >> >>

(* The slots in ctx->block_state; no other state is saved. *)
sha1dc_n_needed_states == 2
sha1dc_need_state == [t \in 0 .. 80 |-> CASE t = 58 -> 0 [] t = 65 -> 1 [] OTHER -> -1]

-------------------------------------------------------------------------------
Vector     == 1 .. Len(sha1dc_disturbance_vectors)
TestState(d) == sha1dc_disturbance_vectors[d][4]

(* Bit k of word w of a message mask. *)
MaskBit(d, w, k) ==
  (sha1dc_disturbance_vectors[d][5][2 * w + (IF k < 16 THEN 2 ELSE 1)] \div 2 ^ (k % 16)) % 2

(* lib/sha1.c expands a block by XORing four words and rotating left by 1. *)
IsExpanded(d) ==
  \A w \in 16 .. 79, k \in 0 .. 31 :
    LET B(v) == MaskBit(d, v, (k + 31) % 32)
    IN  MaskBit(d, w, k) = (B(w - 3) + B(w - 8) + B(w - 14) + B(w - 16)) % 2

ASSUME ProgramVectors ==
  /\ Len(sha1dc_disturbance_vectors) = 32
  /\ \A d \in Vector :
       /\ Len(sha1dc_disturbance_vectors[d][5]) = 2 * 80
       /\ IsExpanded(d)
       /\ \E w \in 0 .. 79, k \in 0 .. 31 : MaskBit(d, w, k) = 1
       /\ sha1dc_need_state[TestState(d)] # -1

ASSUME ProgramNeeds ==
  LET needed == {t \in 0 .. 80 : sha1dc_need_state[t] # -1} IN
    /\ \A t \in needed : t % 4 # 3
    /\ \A s, t \in needed : s < t => sha1dc_need_state[s] < sha1dc_need_state[t]
    /\ {sha1dc_need_state[t] : t \in needed} = 0 .. sha1dc_n_needed_states - 1
===============================================================================
