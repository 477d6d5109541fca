----------------------------- MODULE BitConditions -----------------------------
(***************************************************************************)
(* The tables of unavoidable bit conditions in lib/parse_bitrel.inc: the   *)
(* one that the baseline goes through and the ones that the vector version *)
(* loads, which hold the same conditions in another form.  A mask of 32    *)
(* bits is written as its two halves, the upper one first.                 *)
(***************************************************************************)
EXTENDS Integers, Sequences

(* a, b, i, j, c, and dvmask *)
sha1dc_ubcs == <<
  <<44, 45, 29, 29, 0, \h0283, \ha080>>, <<43, 46, 4, 29, 0, \h0808, \h0225>>,
  <<44, 47, 4, 29, 0, \h1010, \h088a>>, <<48, 49, 29, 29, 0, \h60a0, \h8004>>,
  <<47, 50, 4, 29, 0, \h8201, \h2220>>, <<36, 37, 1, 6, -1, \h0004, \h1040>>,
  <<46, 47, 29, 29, 0, \h1818, \h0801>>, <<39, 40, 1, 6, -1, \h0040, \h1010>>,
  <<40, 41, 1, 6, -1, \h0100, \h4040>>, <<41, 42, 1, 6, -1, \h0404, \h0100>>,
  <<40, 41, 29, 29, 0, \h800a, \h00a2>>, <<47, 48, 29, 29, 0, \h3030, \h2002>>,
  <<49, 50, 29, 29, 0, \hc281, \h0008>>, <<45, 47, 6, 6, 0, \h0000, \h4440>>,
  <<44, 46, 6, 6, 0, \h0000, \h1110>>, <<45, 46, 29, 29, 0, \h0a0a, \h8200>>,
  <<45, 48, 4, 29, 0, \h2020, \h2224>>, <<46, 49, 4, 29, 0, \h4080, \h8888>>,
  <<41, 42, 6, 1, 0, \h0100, \h4000>>, <<42, 43, 6, 1, 0, \h0404, \h0000>>,
  <<35, 36, 1, 6, -1, \h0000, \h0410>>, <<39, 42, 4, 29, 0, \h4010, \h0205>>,
  <<40, 41, 6, 1, 0, \h0040, \h1000>>, <<40, 43, 4, 29, 0, \h8020, \h080a>>,
  <<37, 40, 4, 29, 0, \h5002, \h0021>>, <<41, 44, 4, 29, 0, \h0081, \h2025>>,
  <<38, 41, 4, 29, 0, \ha008, \h0082>>, <<42, 44, 6, 6, 0, \h0000, \h0110>>,
  <<43, 45, 6, 6, 0, \h0000, \h0440>>, <<44, 45, 1, 6, -1, \h0040, \h4000>>,
  <<48, 51, 4, 29, 0, \h0802, \h8880>>, <<46, 47, 6, 1, 0, \h0100, \h0010>>,
  <<47, 48, 6, 1, 0, \h0400, \h0040>>, <<52, 53, 29, 29, 0, \h3011, \h0200>>,
  <<42, 45, 4, 29, 0, \h0202, \h808a>>, <<43, 44, 29, 29, 0, \h00a1, \h2820>>,
  <<37, 38, 1, 6, -1, \h0000, \h4100>>, <<48, 50, 6, 6, 0, \h0004, \h1000>>,
  <<47, 49, 6, 6, 0, \h0000, \h4400>>, <<50, 51, 29, 29, 0, \h8a02, \h0020>>,
  <<38, 39, 0, 5, -1, \h0400, \h0000>>, <<42, 43, 29, 29, 0, \h0030, \h0a08>>,
  <<37, 41, 5, 30, 0, \h0040, \h0000>>, <<45, 47, 1, 1, -1, \h0100, \h0000>>,
  <<54, 55, 29, 29, 0, \hc088, \h2000>>, <<46, 48, 6, 6, 0, \h0000, \h1100>>,
  <<61, 62, 2, 7, -1, \h0004, \h0010>>, <<51, 52, 29, 29, 0, \h1808, \h0080>>,
  <<39, 41, 4, 4, -1, \h4000, \h0005>>, <<50, 53, 4, 29, 0, \h2012, \h8800>>,
  <<38, 40, 1, 1, -1, \h0000, \h0400>>, <<45, 46, 6, 1, 0, \h0040, \h0000>>,
  <<37, 38, 0, 5, -1, \h0100, \h0000>>, <<46, 48, 1, 1, -1, \h0400, \h0000>>,
  <<49, 52, 4, 29, 0, \h1009, \h2200>>, <<50, 51, 6, 1, 0, \h0004, \h1000>>,
  <<53, 54, 29, 29, 0, \h6022, \h0800>>, <<40, 42, 4, 4, -1, \h8000, \h000a>>,
  <<44, 46, 29, 29, -1, \h0000, \h0025>>, <<55, 56, 29, 29, 0, \h8210, \h8000>>,
  <<42, 50, 1, 1, -1, \h0000, \h0400>>, <<41, 43, 6, 6, 0, \h0000, \h0040>>,
  <<36, 37, 0, 5, -1, \h0040, \h0000>>, <<39, 43, 5, 30, 0, \h0400, \h0000>>,
  <<48, 49, 6, 1, 0, \h0000, \h0100>>, <<38, 42, 5, 30, 0, \h0100, \h0000>>,
  <<36, 40, 4, 29, 0, \h0011, \h0208>>, <<36, 38, 4, 4, -1, \h2800, \h0000>>,
  <<37, 39, 4, 4, -1, \h5000, \h0001>>, <<41, 42, 29, 29, 0, \h0018, \h0284>>,
  <<40, 42, 6, 6, 0, \h0000, \h0010>>, <<39, 40, 6, 1, 0, \h0000, \h0400>>,
  <<35, 39, 5, 30, 0, \h0000, \h4000>>, <<47, 51, 1, 1, -1, \h0004, \h0000>>,
  <<50, 54, 1, 1, -1, \h0040, \h0000>>, <<51, 54, 4, 29, 0, \h4028, \h2000>>,
  <<51, 55, 1, 1, -1, \h0100, \h0000>>, <<52, 56, 1, 1, -1, \h0400, \h0000>>,
  <<54, 57, 4, 29, 0, \h0880, \h0000>>, <<62, 63, 2, 7, -1, \h0000, \h0040>>,
  <<63, 64, 2, 7, -1, \h0000, \h0100>>, <<38, 40, 4, 4, -1, \ha000, \h0002>>,
  <<39, 43, 4, 29, 0, \h0200, \h8000>>, <<45, 47, 29, 29, -1, \h0000, \h008a>>,
  <<43, 51, 1, 1, -1, \h0000, \h1000>>, <<49, 50, 6, 1, 0, \h0000, \h0400>>,
  <<37, 37, 1, 6, 0, \h0000, \h4000>>, <<51, 53, 6, 6, 0, \h0040, \h0000>>,
  <<52, 54, 6, 6, 0, \h0100, \h0000>>, <<52, 55, 4, 29, 0, \h8090, \h8000>>,
  <<53, 55, 6, 6, 0, \h0400, \h0000>>, <<53, 56, 4, 29, 0, \h0220, \h0000>>,
  <<60, 61, 0, 5, -1, \h0001, \h0004>>, <<55, 58, 4, 29, 0, \h1200, \h0000>>,
  <<56, 57, 29, 29, 0, \h0820, \h0000>>, <<48, 50, 29, 29, -1, \h0000, \h2220>>,
  <<51, 53, 29, 29, -1, \h0002, \h8800>>, <<49, 51, 6, 6, 0, \h0000, \h4000>>,
  <<47, 49, 29, 29, -1, \h0000, \h0888>>, <<53, 54, 6, 1, 0, \h0040, \h0000>>,
  <<54, 55, 6, 1, 0, \h0100, \h0000>>, <<55, 56, 6, 1, 0, \h0400, \h0000>>,
  <<56, 59, 4, 29, 0, \h2800, \h0000>>, <<57, 58, 29, 29, 0, \h1080, \h0000>>,
  <<58, 59, 0, 5, -1, \h0000, \h0001>>, <<63, 64, 1, 6, -1, \h0001, \h0004>>,
  <<46, 48, 29, 29, -1, \h0000, \h0224>>, <<50, 52, 29, 29, -1, \h0001, \h2200>>,
  <<53, 56, 29, 29, -1, \h0030, \h8000>>, <<35, 39, 4, 29, 0, \h0008, \h0084>>,
  <<56, 59, 29, 29, -1, \h0a00, \h0000>>, <<51, 52, 6, 1, 0, \h0000, \h4000>>,
  <<59, 60, 0, 5, -1, \h0000, \h0002>>, <<59, 63, 5, 30, 0, \h0000, \h0001>>,
  <<61, 62, 0, 5, -1, \h0002, \h0008>>, <<38, 42, 4, 29, 0, \h0080, \h2000>>,
  <<58, 59, 29, 29, 0, \h2200, \h0000>>, <<41, 45, 3, 28, 0, \h1000, \h0000>>,
  <<37, 41, 4, 29, 0, \h0020, \h0800>>, <<43, 47, 4, 29, 0, \h4000, \h0000>>,
  <<60, 64, 5, 30, 0, \h0000, \h0002>>, <<61, 62, 1, 6, -1, \h0000, \h0001>>,
  <<62, 63, 0, 5, -1, \h0008, \h0020>>, <<49, 51, 29, 29, -1, \h0000, \h8880>>,
  <<40, 44, 3, 28, 0, \h0800, \h0000>>, <<42, 46, 4, 29, 0, \h2000, \h0000>>,
  <<55, 57, 4, 4, -1, \h1000, \h0000>>, <<55, 57, 29, 29, -1, \h0080, \h0000>>,
  <<57, 59, 4, 29, 0, \h4000, \h0000>>, <<35, 39, 3, 28, 0, \h0008, \h2000>>,
  <<60, 64, 4, 29, 0, \h8000, \h0000>>, <<62, 63, 1, 6, -1, \h0000, \h0002>>,
  <<63, 64, 0, 5, -1, \h0010, \h0080>>, <<38, 42, 3, 28, 0, \h0080, \h0000>>,
  <<36, 37, 30, 3, -1, \h0020, \h0000>>, <<57, 61, 4, 29, 0, \h1000, \h0000>>,
  <<58, 62, 4, 29, 0, \h2000, \h0000>>, <<59, 60, 29, 29, 0, \h0800, \h0000>>,
  <<59, 63, 4, 29, 0, \h4000, \h0000>>, <<38, 39, 30, 3, -1, \h0200, \h0000>>,
  <<44, 48, 3, 28, 0, \h8000, \h0000>>, <<52, 54, 29, 29, -1, \h0008, \h2000>>,
  <<38, 39, 4, 4, -1, \h0000, \h8000>>, <<39, 40, 30, 3, -1, \h0800, \h0000>>,
  <<43, 47, 3, 28, 0, \h4000, \h0000>>, <<37, 41, 3, 28, 0, \h0020, \h0000>>,
  <<42, 46, 3, 28, 0, \h2000, \h0000>>, <<35, 36, 30, 3, -1, \h0010, \h0000>>,
  <<44, 48, 4, 29, 0, \h8000, \h0000>>, <<41, 45, 4, 29, 0, \h1000, \h0000>>,
  <<37, 38, 30, 3, -1, \h0080, \h0000>>, <<39, 43, 3, 28, 0, \h0200, \h0000>>,
  <<36, 37, 4, 4, -1, \h0000, \h0800>>, <<36, 40, 3, 28, 0, \h0010, \h0000>>,
  <<40, 44, 4, 29, 0, \h0800, \h0000>>, <<37, 38, 4, 4, -1, \h0000, \h2000>> >>

(* From here on, what follows the last condition in a vector is 0.         *)
(* The byte of a condition's first bit *)
sha1dc_avx512_v64ubc_as == <<
  39, 32, 36, 55, 48, 4, 47, 16, 20, 24, 23, 51, 59, 40, 36, 43, 40, 44, 24, 28,
  0, 16, 20, 20, 8, 24, 12, 28, 32, 36, 52, 44, 48, 71, 28, 35, 8, 52, 48, 63,
  12, 31, 8, 40, 79, 44, 104, 67, 16, 60, 12, 40, 8, 44, 56, 60, 75, 20, 39, 83,
  28, 24, 4, 16, 52, 12, 4, 4, 8, 27, 20, 16, 0, 48, 60, 64, 64, 68, 76, 108,
  112, 12, 16, 43, 32, 56, 8, 64, 68, 68, 72, 72, 100, 80, 87, 55, 67, 56, 51, 72,
  76, 80, 84, 91, 92, 112, 47, 63, 75, 0, 87, 64, 96, 96, 104, 12, 95, 24, 8, 32,
  100, 104, 108, 59, 20, 28, 80, 83, 88, 0, 100, 108, 112, 12, 7, 88, 92, 99, 96, 15,
  36, 71, 12, 19, 32, 8, 28, 3, 36, 24, 11, 16, 4, 4, 20, 8 >>

(* And of its second *)
sha1dc_avx512_v64ubc_bs == <<
  43, 47, 51, 59, 63, 8, 51, 20, 24, 28, 27, 55, 63, 48, 44, 47, 55, 59, 28, 32,
  4, 31, 24, 35, 23, 39, 27, 36, 40, 40, 67, 48, 52, 75, 43, 39, 12, 60, 56, 67,
  16, 35, 27, 48, 83, 52, 108, 71, 24, 75, 20, 44, 12, 52, 71, 64, 79, 28, 47, 87,
  60, 32, 8, 35, 56, 31, 23, 12, 16, 31, 28, 20, 19, 64, 76, 79, 80, 84, 91, 112,
  116, 20, 35, 51, 64, 60, 8, 72, 76, 83, 80, 87, 104, 95, 91, 63, 75, 64, 59, 76,
  80, 84, 99, 95, 96, 116, 55, 71, 87, 19, 99, 68, 100, 115, 108, 31, 99, 43, 27, 51,
  119, 108, 112, 67, 39, 47, 88, 91, 99, 19, 119, 112, 116, 31, 8, 107, 111, 103, 115, 16,
  55, 79, 16, 20, 51, 27, 47, 4, 55, 43, 12, 35, 8, 23, 39, 12 >>

(* The first bit in that byte: 1 << it is tested *)
sha1dc_avx512_v64ubc_ms == <<
  5, 4, 4, 5, 4, 1, 5, 1, 1, 1, 5, 5, 5, 6, 6, 5, 4, 4, 6, 6, 1, 4, 6, 4, 4, 4,
  4, 6, 6, 1, 4, 6, 6, 5, 4, 5, 1, 6, 6, 5, 0, 5, 5, 1, 5, 6, 2, 5, 4, 4, 1, 6,
  0, 1, 4, 6, 5, 4, 5, 5, 1, 6, 0, 5, 6, 5, 4, 4, 4, 5, 6, 6, 5, 1, 1, 4, 1, 1,
  4, 2, 2, 4, 4, 5, 1, 6, 1, 6, 6, 4, 6, 4, 0, 4, 5, 5, 5, 6, 5, 6, 6, 6, 4, 5,
  0, 1, 5, 5, 5, 4, 5, 6, 0, 5, 0, 4, 5, 3, 4, 4, 5, 1, 0, 5, 3, 4, 4, 5, 4, 3,
  4, 1, 0, 3, 6, 4, 4, 5, 4, 6, 3, 5, 4, 6, 3, 3, 3, 6, 4, 4, 6, 3, 4, 3, 4, 4 >>

(* And the second *)
sha1dc_avx512_v64ubc_ns == <<
  5, 5, 5, 5, 5, 6, 5, 6, 6, 6, 5, 5, 5, 6, 6, 5, 5, 5, 1, 1, 6, 5, 1, 5, 5, 5,
  5, 6, 6, 6, 5, 1, 1, 5, 5, 5, 6, 6, 6, 5, 5, 5, 6, 1, 5, 6, 7, 5, 4, 5, 1, 1,
  5, 1, 5, 1, 5, 4, 5, 5, 1, 6, 5, 6, 1, 6, 5, 4, 4, 5, 6, 1, 6, 1, 1, 5, 1, 1,
  5, 7, 7, 4, 5, 5, 1, 1, 6, 6, 6, 5, 6, 5, 5, 5, 5, 5, 5, 6, 5, 1, 1, 1, 5, 5,
  5, 6, 5, 5, 5, 5, 5, 1, 5, 6, 5, 5, 5, 4, 5, 5, 6, 6, 5, 5, 4, 5, 4, 5, 5, 4,
  5, 6, 5, 4, 3, 5, 5, 5, 5, 3, 4, 5, 4, 3, 4, 4, 4, 3, 5, 5, 3, 4, 4, 4, 5, 4 >>

(* The conditions whose bit is 1: those for which c is -1. *)
sha1dc_avx512_v64ubc_cs == {
  5, 7, 8, 9, 20, 29, 36, 40, 43, 46, 48, 50, 52, 53, 57, 58,
  60, 62, 67, 68, 73, 74, 76, 77, 79, 80, 81, 83, 84, 92, 95, 96,
  98, 104, 105, 106, 107, 108, 110, 112, 114, 121, 122, 123, 126, 127, 131, 132,
  134, 139, 141, 142, 143, 147, 150, 152, 155 }

sha1dc_avx512_v64ubc_dvmasks == <<
  <<\h0283, \ha080>>, <<\h0808, \h0225>>, <<\h1010, \h088a>>, <<\h60a0, \h8004>>,
  <<\h8201, \h2220>>, <<\h0004, \h1040>>, <<\h1818, \h0801>>, <<\h0040, \h1010>>,
  <<\h0100, \h4040>>, <<\h0404, \h0100>>, <<\h800a, \h00a2>>, <<\h3030, \h2002>>,
  <<\hc281, \h0008>>, <<\h0000, \h4440>>, <<\h0000, \h1110>>, <<\h0a0a, \h8200>>,
  <<\h2020, \h2224>>, <<\h4080, \h8888>>, <<\h0100, \h4000>>, <<\h0404, \h0000>>,
  <<\h0000, \h0410>>, <<\h4010, \h0205>>, <<\h0040, \h1000>>, <<\h8020, \h080a>>,
  <<\h5002, \h0021>>, <<\h0081, \h2025>>, <<\ha008, \h0082>>, <<\h0000, \h0110>>,
  <<\h0000, \h0440>>, <<\h0040, \h4000>>, <<\h0802, \h8880>>, <<\h0100, \h0010>>,
  <<\h0400, \h0040>>, <<\h3011, \h0200>>, <<\h0202, \h808a>>, <<\h00a1, \h2820>>,
  <<\h0000, \h4100>>, <<\h0004, \h1000>>, <<\h0000, \h4400>>, <<\h8a02, \h0020>>,
  <<\h0400, \h0000>>, <<\h0030, \h0a08>>, <<\h0040, \h0000>>, <<\h0100, \h0000>>,
  <<\hc088, \h2000>>, <<\h0000, \h1100>>, <<\h0004, \h0010>>, <<\h1808, \h0080>>,
  <<\h4000, \h0005>>, <<\h2012, \h8800>>, <<\h0000, \h0400>>, <<\h0040, \h0000>>,
  <<\h0100, \h0000>>, <<\h0400, \h0000>>, <<\h1009, \h2200>>, <<\h0004, \h1000>>,
  <<\h6022, \h0800>>, <<\h8000, \h000a>>, <<\h0000, \h0025>>, <<\h8210, \h8000>>,
  <<\h0000, \h0400>>, <<\h0000, \h0040>>, <<\h0040, \h0000>>, <<\h0400, \h0000>>,
  <<\h0000, \h0100>>, <<\h0100, \h0000>>, <<\h0011, \h0208>>, <<\h2800, \h0000>>,
  <<\h5000, \h0001>>, <<\h0018, \h0284>>, <<\h0000, \h0010>>, <<\h0000, \h0400>>,
  <<\h0000, \h4000>>, <<\h0004, \h0000>>, <<\h0040, \h0000>>, <<\h4028, \h2000>>,
  <<\h0100, \h0000>>, <<\h0400, \h0000>>, <<\h0880, \h0000>>, <<\h0000, \h0040>>,
  <<\h0000, \h0100>>, <<\ha000, \h0002>>, <<\h0200, \h8000>>, <<\h0000, \h008a>>,
  <<\h0000, \h1000>>, <<\h0000, \h0400>>, <<\h0000, \h4000>>, <<\h0040, \h0000>>,
  <<\h0100, \h0000>>, <<\h8090, \h8000>>, <<\h0400, \h0000>>, <<\h0220, \h0000>>,
  <<\h0001, \h0004>>, <<\h1200, \h0000>>, <<\h0820, \h0000>>, <<\h0000, \h2220>>,
  <<\h0002, \h8800>>, <<\h0000, \h4000>>, <<\h0000, \h0888>>, <<\h0040, \h0000>>,
  <<\h0100, \h0000>>, <<\h0400, \h0000>>, <<\h2800, \h0000>>, <<\h1080, \h0000>>,
  <<\h0000, \h0001>>, <<\h0001, \h0004>>, <<\h0000, \h0224>>, <<\h0001, \h2200>>,
  <<\h0030, \h8000>>, <<\h0008, \h0084>>, <<\h0a00, \h0000>>, <<\h0000, \h4000>>,
  <<\h0000, \h0002>>, <<\h0000, \h0001>>, <<\h0002, \h0008>>, <<\h0080, \h2000>>,
  <<\h2200, \h0000>>, <<\h1000, \h0000>>, <<\h0020, \h0800>>, <<\h4000, \h0000>>,
  <<\h0000, \h0002>>, <<\h0000, \h0001>>, <<\h0008, \h0020>>, <<\h0000, \h8880>>,
  <<\h0800, \h0000>>, <<\h2000, \h0000>>, <<\h1000, \h0000>>, <<\h0080, \h0000>>,
  <<\h4000, \h0000>>, <<\h0008, \h2000>>, <<\h8000, \h0000>>, <<\h0000, \h0002>>,
  <<\h0010, \h0080>>, <<\h0080, \h0000>>, <<\h0020, \h0000>>, <<\h1000, \h0000>>,
  <<\h2000, \h0000>>, <<\h0800, \h0000>>, <<\h4000, \h0000>>, <<\h0200, \h0000>>,
  <<\h8000, \h0000>>, <<\h0008, \h2000>>, <<\h0000, \h8000>>, <<\h0800, \h0000>>,
  <<\h4000, \h0000>>, <<\h0020, \h0000>>, <<\h2000, \h0000>>, <<\h0010, \h0000>>,
  <<\h8000, \h0000>>, <<\h1000, \h0000>>, <<\h0080, \h0000>>, <<\h0200, \h0000>>,
  <<\h0000, \h0800>>, <<\h0010, \h0000>>, <<\h0800, \h0000>>, <<\h0000, \h2000>> >>

-------------------------------------------------------------------------------
(* The tables as UbcCheck has them: indexed from 0, masks as sets.         *)

Index  == 0 .. 155
Padded == 0 .. 191
Bit(x, k) == (x \div 2 ^ k) % 2 = 1
MaskOf(high, low) == {d \in 0 .. 31 : IF d < 16 THEN Bit(low, d) ELSE Bit(high, d - 16)}

TheUbcs == [k \in Index |-> LET u == sha1dc_ubcs[k + 1] IN
             [a |-> u[1], b |-> u[2], i |-> u[3], j |-> u[4], c |-> u[5],
              dvmask |-> MaskOf(u[6], u[7])]]

(* A vector table, and what it is padded with. *)
Indexed(table, zero) == [k \in Padded |-> IF k \in Index THEN table[k + 1] ELSE zero]

TheAs == Indexed(sha1dc_avx512_v64ubc_as, 0)
TheBs == Indexed(sha1dc_avx512_v64ubc_bs, 0)
TheMs == Indexed([k \in 1 .. 156 |-> {sha1dc_avx512_v64ubc_ms[k]}], {})
TheNs == Indexed([k \in 1 .. 156 |-> {sha1dc_avx512_v64ubc_ns[k]}], {})
TheMasks == LET m == sha1dc_avx512_v64ubc_dvmasks
            IN  Indexed([k \in 1 .. 156 |-> MaskOf(m[k][1], m[k][2])], {})
===============================================================================
