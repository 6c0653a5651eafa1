--------------------------- MODULE MCPrimitives ---------------------------
(***************************************************************************)
(* What the primitives are used on: the symmetric ones on the tasks below, *)
(* the curves on every kind of point and the scalars around 0, the order   *)
(* and the top of the words; every kind of password string; and mistyped   *)
(* names.                                                                  *)
(***************************************************************************)
EXTENDS Primitives

(***************************************************************************)
(* Objects cut at every boundary of a block, a word and the padding, and   *)
(* calls at the lengths around a block and at the limits.                  *)
(***************************************************************************)
KU == INSTANCE Kupyna

Up(a, n) == Tabulate(n, LAMBDA i : a + i - 1)
Down(a, n) == Tabulate(n, LAMBDA i : a - i + 1)

Modes == {"ctr", "ofb"}

MCStreamTasks ==
    {[op |-> m, pieces |-> {1, 15, 16, 17}, limit |-> 50, calls |-> 3] : m \in Modes}
    \cup {[op |-> "cfb", pieces |-> {1, 5}, limit |-> 11, calls |-> 3, q |-> 1],
          [op |-> "cfb", pieces |-> {1, 7, 8, 16, 17}, limit |-> 40, calls |-> 3, q |-> 8],
          [op |-> "cfb", pieces |-> {1, 7, 16, 32, 33}, limit |-> 56, calls |-> 3, q |-> 16]}
    \cup {[op |-> m, pieces |-> {1, 16, 32}, limit |-> 64, calls |-> 3] : m \in {"cbc", "ecb"}}
    \cup {[op |-> "strumok", pieces |-> {5, 64, 131, 128}, limit |-> 275, calls |-> 3, key |-> n]
            : n \in {32, 64}}
    \cup {[op |-> "kupyna", pieces |-> {0, 52, 64, 115}, limit |-> 192, calls |-> 3, v |-> KU!Kupyna256],
          [op |-> "kupyna", pieces |-> {13, 115, 128, 256}, limit |-> 300, calls |-> 2, v |-> KU!Kupyna512]}

Variants == {Kalyna128_128, Kalyna128_256, Kalyna256_256, Kalyna256_512, Kalyna512_512}

\* Texts that a padding with 0x80 and zeros could confuse.
Texts == {Zeros(n) : n \in {1, 2, 15, 16, 17}}
         \cup {Append(Zeros(n), 128) : n \in {0, 1, 14, 15, 16}}
         \cup {<<128, 0>>, <<128>> \o Zeros(15)}

Split(s) == {[aad |-> SubSeq(s, 1, i), text |-> SubSeq(s, i + 1, Len(s))] : i \in 0 .. Len(s) - 1}

MacTask(alg, inputs, pairs) == [op |-> "mac", alg |-> alg, inputs |-> inputs, pairs |-> pairs]
OnlyText == {[text |-> m] : m \in Texts}
Close == {[text |-> Zeros(16)], [text |-> Zeros(15)], [text |-> Append(Zeros(15), 128)]}

MacTasks ==
    {MacTask(alg, OnlyText, Close \X Close) : alg \in {"cmac", "gmac", "kmac"}}
    \cup {MacTask(alg, UNION {Split(m) : m \in {Zeros(3), Zeros(4), Zeros(20), <<128>>}}, {})
            : alg \in {"gcm", "ccm"}}
    \cup {MacTask("kdf", [id : {0, 1, 256}, text : {Zeros(8), Padded(<<1>>, 8)}], {})}

\* The repository's vectors (crates/dstu-core/tests/vectors).
Vectors == {
  [op |-> "vector", alg |-> "block", v |-> Kalyna128_128, key |-> Up(0, 16), in |-> Up(16, 16),
     expect |-> <<129, 191, 28, 125, 119, 155, 172, 32, 225, 201, 234, 57, 180, 210, 173, 6>>],
  [op |-> "vector", alg |-> "block", v |-> Kalyna128_256, key |-> Up(0, 32), in |-> Up(32, 16),
     expect |-> <<88, 236, 62, 9, 16, 0, 21, 138, 17, 72, 247, 22, 111, 51, 79, 20>>],
  [op |-> "vector", alg |-> "block", v |-> Kalyna256_256, key |-> Up(0, 32), in |-> Up(32, 32),
     expect |-> <<246, 110, 61, 87, 14, 201, 33, 53, 174, 218, 227, 35, 220, 189, 42, 140, 160,
     57, 99, 236, 32, 106, 13, 90, 136, 56, 92, 36, 97, 127, 217, 44>>],
  [op |-> "vector", alg |-> "block", v |-> Kalyna256_512, key |-> Up(0, 64), in |-> Up(64, 32),
     expect |-> <<96, 105, 144, 233, 230, 183, 182, 122, 75, 214, 216, 147, 215, 34, 104, 183,
     142, 2, 200, 60, 60, 215, 225, 2, 253, 46, 116, 168, 253, 254, 93, 217>>],
  [op |-> "vector", alg |-> "block", v |-> Kalyna512_512, key |-> Up(0, 64), in |-> Up(64, 64),
     expect |-> <<74, 38, 227, 27, 129, 28, 53, 106, 166, 29, 214, 202, 5, 150, 35, 26, 103,
     186, 131, 84, 170, 71, 243, 161, 62, 29, 238, 195, 32, 235, 86, 184, 149, 208, 244, 23, 23,
     91, 171, 102, 47, 214, 241, 52, 187, 21, 200, 108, 203, 144, 106, 38, 133, 110, 254, 183,
     197, 188, 100, 114, 148, 13, 217, 217>>],
  [op |-> "vector", alg |-> "cbc", v |-> Kalyna128_128, key |-> Up(0, 16), iv |-> Up(16, 16), in
     |-> Up(32, 48), expect |-> <<167, 54, 37, 215, 190, 153, 78, 133, 70, 154, 159, 170, 188,
     237, 170, 182, 219, 197, 246, 93, 215, 123, 179, 94, 6, 189, 125, 29, 142, 175, 200, 98,
     77, 108, 179, 28, 225, 137, 200, 43, 137, 121, 242, 147, 109, 233, 191, 20>>],
  [op |-> "vector", alg |-> "ctr", v |-> Kalyna128_128, key |-> Up(0, 16), iv |-> Up(16, 16), in
     |-> Up(32, 41), expect |-> <<169, 10, 107, 151, 128, 171, 223, 223, 246, 77, 20, 245, 67,
     158, 136, 242, 102, 220, 80, 237, 211, 65, 82, 141, 213, 230, 152, 226, 240, 0, 206, 33,
     248, 114, 218, 249, 254, 24, 17, 132, 74>>],
  [op |-> "vector", alg |-> "ofb", v |-> Kalyna128_128, key |-> Up(0, 16), iv |-> Up(16, 16), in
     |-> Up(32, 48), expect |-> <<161, 158, 62, 94, 83, 190, 138, 7, 201, 224, 192, 18, 152,
     255, 131, 41, 83, 32, 92, 102, 27, 216, 90, 81, 243, 169, 65, 19, 188, 120, 92, 171, 99,
     75, 54, 232, 154, 143, 221, 22, 161, 46, 68, 103, 245, 204, 90, 38>>],
  [op |-> "vector", alg |-> "cfb", v |-> Kalyna128_128, key |-> Up(0, 16), iv |-> Up(16, 16), q
     |-> 16, in |-> Up(32, 48), expect |-> <<161, 158, 62, 94, 83, 190, 138, 7, 201, 224, 192,
     18, 152, 255, 131, 41, 31, 142, 230, 33, 33, 16, 190, 63, 165, 199, 44, 136, 160, 130, 82,
     11, 38, 85, 112, 254, 40, 104, 7, 25, 217, 180, 70, 94, 22, 155, 195, 122>>],
  [op |-> "vector", alg |-> "cfb", v |-> Kalyna128_256, key |-> Down(31, 32), iv |-> Down(47,
     16), q |-> 8, in |-> <<38, 49, 154, 54, 141, 133, 222, 67, 221, 95, 219, 146, 141, 145,
     164, 65, 73, 61, 140, 224, 123, 100, 121, 124, 143, 150, 118, 197, 146, 28, 209, 234, 116,
     63, 94, 39, 119, 195, 39, 172, 88>>, expect |-> Down(95, 41)],
  [op |-> "vector", alg |-> "ccm", v |-> Kalyna128_128, key |-> Up(0, 16), iv |-> Up(16, 16),
     aad |-> Up(32, 16), in |-> Up(48, 16), expect |-> <<185, 26, 123, 135, 144, 187, 207, 207,
     230, 93, 4, 229, 83, 142, 152, 226, 112, 68, 84, 201, 221, 57, 173, 172, 224, 177, 157, 3,
     246, 170, 176, 126>>],
  [op |-> "vector", alg |-> "ccm", v |-> Kalyna512_512, key |-> Up(0, 64), iv |-> Up(64, 64),
     aad |-> Up(128, 64), in |-> Up(192, 64), expect |-> <<34, 6, 66, 215, 39, 125, 16, 71, 136,
     207, 151, 177, 2, 16, 152, 79, 80, 100, 53, 81, 47, 123, 241, 83, 197, 205, 171, 254, 204,
     16, 175, 180, 162, 226, 252, 81, 246, 22, 175, 128, 255, 221, 6, 7, 250, 212, 245, 66, 184,
     239, 6, 103, 113, 124, 227, 234, 170, 143, 188, 48, 60, 231, 108, 153, 189, 143, 128, 206,
     20, 145, 67, 192, 79, 194, 73, 2, 114, 163, 27, 2, 157, 218, 218, 130, 240, 85, 254, 74,
     190, 244, 82, 167, 212, 56, 178, 30, 89, 193, 216, 179, 221, 70, 6, 186, 214, 106, 111, 54,
     48, 14, 243, 206, 14, 95, 59, 181, 159, 17, 65, 110, 128, 183, 252, 90, 142, 139, 5, 122>>],
  [op |-> "vector", alg |-> "gcm", v |-> Kalyna128_128, key |-> Up(0, 16), iv |-> Up(16, 16),
     aad |-> Up(32, 16), in |-> Up(48, 32), expect |-> <<185, 26, 123, 135, 144, 187, 207, 207,
     230, 93, 4, 229, 83, 142, 152, 226, 22, 172, 32, 157, 163, 49, 34, 253, 165, 150, 232, 146,
     128, 112, 190, 81, 200, 49, 5, 113, 205, 96, 249, 88, 75, 69, 193, 180, 236, 225, 121,
     175>>],
  [op |-> "vector", alg |-> "cmac", v |-> Kalyna128_128, key |-> Up(0, 16), in |-> Up(32, 48),
     expect |-> <<18, 59, 78, 171, 142, 99, 236, 243, 230, 69, 169, 156, 17, 21, 226, 65>>],
  [op |-> "vector", alg |-> "gmac", v |-> Kalyna128_128, key |-> Up(0, 16), in |-> <<90, 91, 88,
     89, 94>>, expect |-> <<157, 238, 183, 98, 187, 226, 5, 31, 67, 250, 202, 232, 135, 231,
     205, 173>>],
  [op |-> "vector", alg |-> "xts", v |-> Kalyna128_128, key |-> Up(0, 16), iv |-> Up(16, 16), in
     |-> Up(32, 30), expect |-> <<72, 243, 5, 94, 210, 131, 34, 34, 8, 80, 5, 32, 156, 157, 77,
     65, 179, 228, 49, 179, 251, 175, 49, 16, 140, 48, 38, 105, 238, 113>>],
  [op |-> "vector", alg |-> "kw", v |-> Kalyna128_128, key |-> Up(0, 16), in |-> Up(16, 16),
     expect |-> <<29, 201, 29, 198, 229, 37, 117, 246, 219, 237, 37, 173, 218, 149, 161, 182,
     173, 62, 21, 5, 110, 72, 151, 56, 151, 44, 25, 159, 185, 238, 41, 19>>],
  [op |-> "vector", alg |-> "kw_p", v |-> Kalyna128_128, key |-> Up(0, 16), in |-> Up(16, 18),
     expect |-> <<14, 169, 131, 214, 206, 72, 72, 77, 81, 70, 44, 50, 204, 97, 103, 34, 16, 252,
     196, 65, 150, 171, 230, 53, 186, 248, 120, 253, 184, 62, 26, 99, 17, 65, 40, 88, 93, 73,
     219, 53, 92, 88, 25, 253, 56, 3, 145, 105>>],
  [op |-> "vector", alg |-> "kupyna", v |-> KU!Kupyna256, key |-> <<>>, in |-> Up(0, 95), expect
     |-> <<16, 117, 200, 176, 203, 145, 15, 17, 107, 218, 95, 161, 241, 156, 41, 207, 142, 204,
     117, 202, 255, 114, 8, 186, 41, 148, 182, 143, 197, 110, 141, 22>>],
  [op |-> "vector", alg |-> "kupyna", v |-> KU!Kupyna384, key |-> <<>>, in |-> Up(0, 95), expect
     |-> <<217, 2, 22, 146, 216, 78, 81, 117, 115, 86, 84, 132, 107, 167, 81, 230, 208, 237, 15,
     172, 54, 223, 188, 8, 65, 40, 125, 203, 11, 85, 132, 199, 80, 22, 195, 222, 204, 42, 110,
     71, 197, 11, 47, 56, 17, 227, 81, 184>>],
  [op |-> "vector", alg |-> "kupyna", v |-> KU!Kupyna512, key |-> <<>>, in |-> Up(0, 64), expect
     |-> <<56, 19, 226, 16, 145, 24, 205, 251, 90, 109, 94, 114, 247, 32, 141, 204, 200, 10, 45,
     251, 58, 253, 251, 2, 244, 105, 146, 181, 237, 190, 83, 107, 53, 96, 221, 29, 126, 41, 198,
     245, 57, 120, 175, 88, 180, 68, 227, 123, 166, 133, 192, 221, 145, 5, 51, 186, 93, 120,
     239, 255, 193, 61, 230, 42>>],
  [op |-> "vector", alg |-> "kmac", v |-> KU!Kupyna256, key |-> Down(31, 32), in |-> Up(0, 31),
     expect |-> <<182, 5, 148, 213, 111, 167, 155, 162, 16, 49, 76, 114, 194, 73, 80, 135, 204,
     208, 169, 159, 192, 74, 207, 226, 163, 158, 246, 105, 146, 93, 152, 238>>],
  [op |-> "vector", alg |-> "strumok", v |-> KU!Kupyna256, key |-> <<0, 0, 0, 0, 0, 0, 0, 0, 0,
     0, 0, 0, 0, 0, 0, 0, 0, 0, 0, 0, 0, 0, 0, 0, 0, 0, 0, 0, 0, 0, 0, 128>>, iv |-> <<1, 0, 0,
     0, 0, 0, 0, 0, 2, 0, 0, 0, 0, 0, 0, 0, 3, 0, 0, 0, 0, 0, 0, 0, 4, 0, 0, 0, 0, 0, 0, 0>>, in
     |-> Zeros(64), expect |-> <<205, 42, 90, 139, 80, 162, 68, 254, 66, 39, 29, 210, 78, 91,
     53, 175, 113, 158, 122, 165, 214, 253, 215, 220, 235, 181, 159, 115, 210, 123, 38, 93, 114,
     32, 131, 178, 150, 238, 46, 178, 71, 168, 169, 218, 76, 106, 222, 199, 242, 128, 38, 129,
     147, 218, 213, 114, 224, 44, 218, 147, 126, 203, 10, 74>>],
  [op |-> "vector", alg |-> "strumok", v |-> KU!Kupyna256, key |-> <<0, 0, 0, 0, 0, 0, 0, 0, 0,
     0, 0, 0, 0, 0, 0, 0, 0, 0, 0, 0, 0, 0, 0, 0, 0, 0, 0, 0, 0, 0, 0, 0, 0, 0, 0, 0, 0, 0, 0,
     0, 0, 0, 0, 0, 0, 0, 0, 0, 0, 0, 0, 0, 0, 0, 0, 0, 0, 0, 0, 0, 0, 0, 0, 128>>, iv |-> <<1,
     0, 0, 0, 0, 0, 0, 0, 2, 0, 0, 0, 0, 0, 0, 0, 3, 0, 0, 0, 0, 0, 0, 0, 4, 0, 0, 0, 0, 0, 0,
     0>>, in |-> Zeros(64), expect |-> <<170, 170, 51, 129, 174, 46, 161, 204, 29, 80, 232, 124,
     80, 133, 141, 82, 241, 35, 24, 62, 254, 199, 131, 218, 66, 26, 183, 99, 191, 110, 65, 33,
     235, 37, 166, 241, 43, 109, 215, 38, 252, 30, 11, 205, 224, 110, 198, 238, 168, 69, 163,
     56, 243, 104, 221, 2, 219, 26, 65, 165, 144, 135, 83, 71>>]}

\* Words of the tables of strumok.rs, least significant byte first: for w, those of
\* MUL_ALPHA and MUL_ALPHA_INV at its first byte and of T0 .. T7 at its eight.
Listed(w, alpha, alpha_inv, t) ==
    [op |-> "words", w |-> w, alpha |-> alpha, alpha_inv |-> alpha_inv, t |-> t]

TableWords == {
  Listed(<<0, 0, 0, 0, 0, 0, 0, 0>>, <<0, 0, 0, 0, 0, 0, 0, 0>>,
     <<0, 0, 0, 0, 0, 0, 0, 0>>,
     <<<<168, 154, 127, 215, 41, 168, 50, 168>>, <<206, 206, 31, 80, 158, 62, 206, 209>>,
       <<229, 147, 147, 118, 222, 77, 236, 147>>, <<104, 213, 104, 104, 189, 5, 109, 103>>,
       <<41, 168, 50, 168, 168, 154, 127, 215>>, <<158, 62, 206, 209, 206, 206, 31, 80>>,
       <<222, 77, 236, 147, 229, 147, 147, 118>>, <<189, 5, 109, 103, 104, 213, 104, 104>>>>),
  Listed(<<255, 255, 255, 255, 255, 255, 255, 255>>, <<219, 0, 0, 233, 168, 219, 177, 223>>,
     <<0, 0, 125, 42, 255, 107, 254, 246>>,
     <<<<128, 58, 167, 39, 116, 128, 186, 128>>, <<215, 215, 123, 31, 200, 246, 215, 172>>,
       <<230, 103, 103, 129, 40, 79, 31, 103>>, <<97, 248, 97, 97, 153, 58, 91, 47>>,
       <<116, 128, 186, 128, 128, 58, 167, 39>>, <<200, 246, 215, 172, 215, 215, 123, 31>>,
       <<40, 79, 31, 103, 230, 103, 103, 129>>, <<153, 58, 91, 47, 97, 248, 97, 97>>>>),
  Listed(<<1, 2, 4, 8, 16, 32, 64, 128>>, <<4, 0, 0, 94, 18, 4, 63, 215>>,
     <<0, 0, 153, 138, 1, 198, 252, 71>>,
     <<<<67, 17, 212, 151, 34, 67, 82, 67>>, <<235, 235, 139, 171, 64, 11, 235, 96>>,
       <<194, 152, 152, 90, 239, 119, 180, 152>>, <<212, 163, 212, 212, 119, 22, 194, 238>>,
       <<79, 109, 196, 109, 109, 169, 30, 115>>, <<166, 149, 49, 245, 49, 49, 196, 151>>,
       <<251, 222, 53, 37, 177, 37, 37, 148>>, <<208, 140, 184, 189, 52, 228, 52, 52>>>>),
  Listed(<<2, 4, 8, 16, 32, 64, 128, 1>>, <<8, 0, 0, 188, 36, 8, 126, 179>>,
     <<0, 0, 47, 9, 2, 145, 229, 142>>,
     <<<<95, 97, 128, 223, 194, 95, 62, 95>>, <<234, 234, 143, 172, 70, 3, 234, 101>>,
       <<104, 186, 186, 210, 1, 187, 185, 186>>, <<34, 170, 34, 34, 136, 238, 204, 13>>,
       <<237, 62, 198, 62, 62, 248, 186, 132>>, <<92, 208, 26, 114, 26, 26, 104, 70>>,
       <<178, 53, 76, 135, 161, 135, 135, 38>>, <<14, 132, 9, 28, 141, 131, 141, 141>>>>),
  Listed(<<4, 8, 16, 32, 64, 128, 1, 2>>, <<16, 0, 0, 101, 72, 16, 252, 123>>,
     <<0, 0, 94, 18, 4, 63, 215, 1>>,
     <<<<107, 177, 12, 103, 127, 107, 218, 107>>, <<233, 233, 131, 165, 76, 27, 233, 106>>,
       <<127, 74, 74, 53, 235, 161, 106, 74>>, <<88, 37, 88, 88, 125, 149, 205, 250>>,
       <<174, 220, 139, 220, 220, 87, 46, 242>>, <<252, 77, 42, 130, 42, 42, 168, 214>>,
       <<53, 236, 134, 217, 154, 217, 217, 67>>, <<15, 76, 134, 30, 202, 197, 202, 202>>>>),
  Listed(<<8, 16, 32, 64, 128, 1, 2, 4>>, <<32, 0, 0, 202, 144, 32, 229, 246>>,
     <<0, 0, 188, 36, 8, 126, 179, 2>>,
     <<<<113, 217, 74, 59, 175, 113, 168, 113>>, <<66, 66, 21, 211, 145, 42, 66, 87>>,
       <<112, 73, 73, 57, 226, 171, 114, 73>>, <<181, 91, 181, 181, 238, 44, 153, 193>>,
       <<172, 155, 205, 155, 155, 86, 230, 125>>, <<189, 177, 187, 109, 187, 187, 214, 6>>,
       <<225, 123, 164, 154, 200, 154, 154, 82>>, <<209, 68, 55, 191, 115, 162, 115, 115>>>>),
  Listed(<<16, 32, 64, 128, 1, 2, 4, 8>>, <<64, 0, 0, 137, 61, 64, 215, 241>>,
     <<0, 0, 101, 72, 16, 252, 123, 4>>,
     <<<<109, 169, 30, 115, 79, 109, 196, 109>>, <<49, 49, 196, 151, 166, 149, 49, 245>>,
       <<177, 37, 37, 148, 251, 222, 53, 37>>, <<52, 228, 52, 52, 208, 140, 184, 189>>,
       <<34, 67, 82, 67, 67, 17, 212, 151>>, <<64, 11, 235, 96, 235, 235, 139, 171>>,
       <<239, 119, 180, 152, 194, 152, 152, 90>>, <<119, 22, 194, 238, 212, 163, 212, 212>>>>),
  Listed(<<32, 64, 128, 1, 2, 4, 8, 16>>, <<128, 0, 0, 15, 122, 128, 179, 255>>,
     <<0, 0, 202, 144, 32, 229, 246, 8>>,
     <<<<62, 248, 186, 132, 237, 62, 198, 62>>, <<26, 26, 104, 70, 92, 208, 26, 114>>,
       <<161, 135, 135, 38, 178, 53, 76, 135>>, <<141, 131, 141, 141, 14, 132, 9, 28>>,
       <<194, 95, 62, 95, 95, 97, 128, 223>>, <<70, 3, 234, 101, 234, 234, 143, 172>>,
       <<1, 187, 185, 186, 104, 186, 186, 210>>, <<136, 238, 204, 13, 34, 170, 34, 34>>>>),
  Listed(<<64, 128, 1, 2, 4, 8, 16, 32>>, <<29, 0, 0, 30, 244, 29, 123, 227>>,
     <<0, 0, 137, 61, 64, 215, 241, 16>>,
     <<<<220, 87, 46, 242, 174, 220, 139, 220>>, <<42, 42, 168, 214, 252, 77, 42, 130>>,
       <<154, 217, 217, 67, 53, 236, 134, 217>>, <<202, 197, 202, 202, 15, 76, 134, 30>>,
       <<127, 107, 218, 107, 107, 177, 12, 103>>, <<76, 27, 233, 106, 233, 233, 131, 165>>,
       <<235, 161, 106, 74, 127, 74, 74, 53>>, <<125, 149, 205, 250, 88, 37, 88, 88>>>>),
  Listed(<<128, 1, 2, 4, 8, 16, 32, 64>>, <<58, 0, 0, 60, 245, 58, 246, 219>>,
     <<0, 0, 15, 122, 128, 179, 255, 32>>,
     <<<<155, 86, 230, 125, 172, 155, 205, 155>>, <<187, 187, 214, 6, 189, 177, 187, 109>>,
       <<200, 154, 154, 82, 225, 123, 164, 154>>, <<115, 162, 115, 115, 209, 68, 55, 191>>,
       <<175, 113, 168, 113, 113, 217, 74, 59>>, <<145, 42, 66, 87, 66, 66, 21, 211>>,
       <<226, 171, 114, 73, 112, 73, 73, 57>>, <<238, 44, 153, 193, 181, 91, 181, 181>>>>)}

MCCallTasks ==
    {[op |-> "block", v |-> v, mul |-> m] : v \in Variants, m \in {0, 1, 255}}
    \cup [op : {"aead"}, alg : {"gcm", "ccm"}, aad : {0, 1, 16, 17}, text : {0, 1, 16, 33},
          change : {"none"}]
    \cup [op : {"aead"}, alg : {"gcm", "ccm"}, aad : {0, 255, 256}, text : {1, 255, 256},
          change : {"none"}]
    \cup [op : {"aead"}, alg : {"gcm", "ccm"}, aad : {1, 17}, text : {1, 16, 33},
          change : {"text", "tag", "aad"}]
    \cup MacTasks
    \cup {[op |-> "xts", len |-> n] : n \in {0, 15, 16, 17, 31, 32, 33, 47, 48, 49}}
    \cup [op : {"wrap"}, pad : BOOLEAN, len : {0, 15, 16, 17, 24, 32}, byte : {0, 1, 16, 32}]
    \cup [op : {"wrap"}, pad : BOOLEAN, len : {304, 311, 312, 320, 321, 336}, byte : {0, 320}]
    \cup [op : {"unpad"}, room : {32, 48}, len : 15 .. 40, byte : {0, 17, 26, 32}]
    \cup {[op |-> "field", a |-> <<x, y>>, bs |-> {<<1, 0>>, <<8, 8>>, <<15, 15>>, <<6, 9>>, <<x, y>>}]
            : x \in 0 .. 15, y \in 0 .. 15}
    \cup {[op |-> "tables", n |-> v[1], shift |-> v[2], mul |-> m] :
             v \in {<<8, 7>>, <<16, 11>>}, m \in {0, 1, 5, 255}}
    \cup Vectors \cup TableWords

-----------------------------------------------------------------------------
Gf2mTasks ==
    [op : {"gf2m"}, curve : {163}, x : {0, 1, 2, 1023, 1024, 1365, 1537, 2046, 2047},
     y : {0, 1, 3, 682, 1024, 1792, 2047}]
    \cup [op : {"gf2m"}, curve : {257}, x : {0, 1, 2, 3, 255, 256, 341, 448, 511},
          y : {0, 1, 6, 170, 256, 384, 511}]

Draws == <<65536 - 2048, 65535, 4095, 131 * 8, 1063, 131, 1 + 4096, 77>>

ScalarTasks ==
    [op : {"scalar"}, curve : {163}, x : {0, 1, 1022, 1061, 1062, 1063, 2047}, y : {1, 532, 1062},
     wide : {0, 1063, 1048575}, draws : {Draws}, mask : {2048}]
    \cup [op : {"scalar"}, curve : {257}, x : {0, 1, 129, 130, 131, 255}, y : {1, 66, 130},
          wide : {131, 1048575}, draws : {Draws}, mask : {256}]

\* G and another point of the subgroup, points of order 2, 4, 2n and 4n.
LadderTasks ==
    {[op |-> "ladder", curve |-> 163, x |-> p[1], y |-> p[2], k |-> k] :
        p \in {<<5, 1426>>, <<7, 545>>, <<0, 1924>>, <<2, 1785>>},
        k \in {0, 1, 2, 3, 1024, 1061, 1062, 1063, 2046}}
    \cup {[op |-> "ladder", curve |-> 257, x |-> p[1], y |-> p[2], k |-> k] :
        p \in {<<4, 442>>, <<0, 101>>, <<131, 101>>, <<6, 9>>, <<1, 424>>},
        k \in {0, 1, 2, 3, 128, 129, 130, 131, 262, 510}}

\* Nonces 0 modulo n, ones that give r = 0 (5 for 1626; 29 and 25 for 77 and 1)
\* and s = 0 (1 for the keys 891 and 68).
SignTasks ==
    [op : {"sign"}, curve : {163}, x : {891, 1062}, hash : {77, 1626},
     macs : {<<0, 1063, 5, 9>>, <<1, 9>>, <<16383, 4>>}]
    \cup [op : {"sign"}, curve : {257}, x : {1, 68}, hash : {0, 77},
          macs : {<<0, 131, 29, 9>>, <<25, 9>>, <<1, 9>>}]

\* Signatures of 77 by the keys 1, 2, n - 1 and 17, with halves and key
\* exchanged; keys of order 2, 2n and 4n, unreduced ones, off the curve; and
\* triples that only the order of the key is wrong with, or that have the sum
\* of s G and r Q double a point on the way (the key is 2G).
VerifyTask(c, h, r, s, x, y) ==
    [op |-> "verify", curve |-> c, hash |-> h, r |-> r, s |-> s, x |-> x, y |-> y]

VerifyTasks ==
    {VerifyTask(163, 1462, 1, 2, 802, 1257), VerifyTask(163, 284, 5, 3, 0, 1924),
     VerifyTask(163, 1491, 5, 3, 2, 1785), VerifyTask(257, 212, 1, 2, 176, 57),
     VerifyTask(257, 138, 5, 3, 0, 101), VerifyTask(257, 28, 5, 3, 131, 101),
     VerifyTask(257, 342, 5, 3, 1, 424), VerifyTask(257, 184, 5, 3, 6, 9)}
    \cup {VerifyTask(163, 2048 + 77, s[1], s[2], q[1], q[2]) :
        s \in {<<377, 378>>, <<377, 755>>, <<377, 685>>, <<220, 556>>},
        q \in {<<5, 1431>>, <<5, 1426>>, <<802, 1995>>, <<1257, 996>>, <<0, 1924>>, <<2, 1785>>,
               <<2053, 1431>>, <<5, 3479>>, <<5, 1430>>}}
    \cup {VerifyTask(163, 77, s[1], s[2], 5, 1426) : s \in {<<0, 1>>, <<1, 0>>, <<1, 1>>, <<1063, 378>>}}
    \cup {VerifyTask(257, 77, s[1], s[2], q[1], q[2]) :
        s \in {<<52, 53>>, <<52, 105>>, <<6, 107>>},
        q \in {<<4, 446>>, <<4, 442>>, <<176, 137>>, <<254, 339>>, <<0, 101>>, <<131, 101>>, <<1, 424>>,
               <<516, 446>>, <<4, 445>>}}
    \cup {VerifyTask(257, 77, s[1], s[2], 4, 442) : s \in {<<0, 1>>, <<1, 1>>, <<52, 131>>}}

FpTasks ==
    [op : {"fp"}, curve : {256}, x : {0, 1, 2, 3, 510, 511, 1018, 1019, 1020},
     y : {0, 1, 31, 32, 992, 1019, 1020}]
    \cup [op : {"fp"}, curve : {384}, x : {0, 2, 255, 256, 4080, 4092}, y : {1, 16, 2047, 4092}]
    \cup [op : {"fp"}, curve : {512}, x : {0, 2, 127, 128, 16256, 16380}, y : {1, 128, 8191, 16380}]

FromXTasks ==
    [op : {"fromx"}, curve : {256}, x : (0 .. 24) \cup (260 .. 264) \cup (1016 .. 1023)]
    \cup [op : {"fromx"}, curve : {384}, x : {0, 1, 2, 11, 12, 1029, 1030, 1031, 4082, 4092, 4093, 4094}]
    \cup [op : {"fromx"}, curve : {512}, x : {0, 1, 13, 4125, 4126, 16368, 16380, 16381, 16383}]

BoxTask(c, n, e, eps, other, msg, bits) ==
    [op |-> "box", curve |-> c, draws |-> <<e, n - 1, n, 1, 0, 9>>, epsilon |-> eps, other |-> other,
     msg |-> msg, bits |-> bits]

BoxTasks ==
    UNION {{BoxTask(c[1], c[2], 7, 55, other, <<5>>, 8) : other \in {1, 7, 8, c[2] - 7}} :
              c \in {<<256, 263>>, <<384, 1031>>, <<512, 4127>>}}
    \cup {BoxTask(512, 4127, 7, eps, 7, <<5>>, 8) : eps \in {1, 2, 4125, 4126}}
    \cup {BoxTask(256, 263, e, 261, 9, <<5>>, 8) : e \in {1, 262, 9}}
    \cup {BoxTask(256, 263, 7, 55, 7, m[1], m[2]) :
            m \in {<<<<>>, 0>>, <<<<1>>, 0>>, <<<<1>>, 1>>, <<<<1>>, 9>>, <<<<1, 2>>, 9>>,
                   <<<<1, 2, 3>>, 24>>, <<<<1, 2, 3, 4>>, 25>>, <<<<1, 2, 3>>, 25>>}}

RecipientTasks ==
    {[op |-> "recipient", x |-> p[1], y |-> p[2]] :
        p \in {<<5, 413>>, <<5, 608>>, <<5, 414>>, <<1, 0>>, <<1020, 0>>, <<8, 454>>, <<4, 325>>,
               <<0, 0>>, <<1, 1>>}}

ParseTask(c, d, b, t, tail) == [op |-> "parse", curve |-> c, digest |-> d, bits |-> b, msg |-> t, tail |-> tail]

ParseTasks ==
    {ParseTask(c, d, d[1], d[2], "zeros") :
        c \in {256, 384, 512},
        d \in {0, 1, 7, 8, 9, 16, 17, 24, 25} \X {<<0, 0, 0>>, <<0, 0, 255>>, <<0, 1, 7>>, <<1, 1, 7>>}}
    \cup {ParseTask(256, <<8, <<0, 0, 7>>>>, 16, <<0, 0, 7>>, "zeros"),
          ParseTask(256, <<8, <<0, 0, 7>>>>, 8, <<0, 0, 6>>, "zeros"),
          ParseTask(256, <<8, <<0, 0, 7>>>>, 8, <<0, 0, 7>>, "nothing"),
          ParseTask(256, <<8, <<0, 0, 7>>>>, 8, <<0, 0, 7>>, "other")}

PasswordTask(strength, drawn, free, later, change, theirs, guess) ==
    [op |-> "pwhash", pw |-> "pw", strength |-> strength, drawn |-> drawn, free |-> free,
     later |-> later, change |-> change, theirs |-> theirs, guess |-> guess]

PasswordTasks ==
    {PasswordTask(s, drawn, free, later, "same", FALSE, g) :
        s \in {"Interactive", "Moderate", "Sensitive"}, drawn \in {0, 1},
        free \in {65535, 65536, 262144, 1048576}, later \in {65535, 1048576}, g \in {"pw", "guess"}}
    \cup {PasswordTask("Interactive", 1, 65536, later, c, theirs, g) :
        later \in {63, 64, 524287, 2 ^ 30}, theirs \in BOOLEAN, g \in {"pw", "guess"},
        c \in {"reordered", "argon2i", "argon2d", "version", "twice", "missing", "extra", "not_u32",
               "least", "no_memory", "no_pass", "no_lane", "more_memory", "more_work", "wrapped_work",
               "lanes", "more_lanes", "wrapped_lanes", "short_tag", "long_tag", "salt", "short_salt",
               "unparsed"}}

\* The names of the tests, and every word of up to four of two letters.
SuggestTasks ==
    {[op |-> "suggest", word |-> w, names |-> <<<<"e", "n", "c", "r", "y", "p", "t">>,
                                                <<"d", "e", "c", "r", "y", "p", "t">>,
                                                <<"-", "-", "k", "e", "y">>>>] :
        w \in {<<"e", "n", "c", "r", "p", "y", "t">>, <<"e", "c", "r", "y", "p", "t">>,
               <<"c", "r", "y", "p", "t">>, <<"-", "-", "k", "y", "e">>, <<"-", "k", "e">>, <<"-", "-">>,
               <<>>, <<"s", "i", "g", "n">>}}
    \cup {[op |-> "suggest", word |-> w, names |-> <<n, <<"b">>, <<"a", "b", "a">>, <<"b", "a", "a", "b">>>>] :
        w \in UNION {[1 .. k -> {"a", "b"}] : k \in 0 .. 4},
        n \in UNION {[1 .. k -> {"a", "b"}] : k \in 2 .. 3}}

MCPCallTasks ==
    MCCallTasks \cup Gf2mTasks \cup ScalarTasks \cup LadderTasks \cup SignTasks \cup VerifyTasks
      \cup FpTasks \cup FromXTasks \cup BoxTasks \cup RecipientTasks \cup ParseTasks
      \cup PasswordTasks \cup SuggestTasks
=============================================================================
