--------------------------------- MODULE Aes ---------------------------------
(***************************************************************************)
(* cryptography/AES_Algo: aes_encrypt.c pads and encrypts one line of text *)
(* with an expanded key, and aes_decrypt.c decrypts what it printed.  A    *)
(* step is a word of the key, a round of a block, or what lies between.    *)
(* Bytes, words and matrices are numbered from 0 in the code; sequences    *)
(* here start at 1.                                                        *)
(***************************************************************************)
EXTENDS Integers, Sequences

CONSTANTS
  Keys,     \* what may be typed as a key: sequences of hexadecimal digits
  Texts     \* what may be typed as a text: sequences of bytes, without 0

NotHex == 16           \* a character that is no hexadecimal digit
Byte == 0 .. 255
BLOCK_SIZE == 16

ASSUME AesAssumption == Keys \subseteq Seq(0 .. NotHex) /\ Texts \subseteq Seq(1 .. 255)

VARIABLES
  aes,              \* the loop that runs, or how the program ended
  key_bytes, words, \* the key, and its expansion so far
  input_array,      \* the text
  padded_data,      \* the padded text, what is written behind it included
  num_blocks,
  block, round,     \* the loop counters
  state_matrix,
  printed,          \* the cipher text as it is printed: hexadecimal digits
  plaintext, final_length,
  seen              \* history: the matrix after each round of each block

aesVars == <<aes, key_bytes, words, input_array, padded_data, num_blocks, block, round,
             state_matrix, printed, plaintext, final_length, seen>>

-----------------------------------------------------------------------------
(* Bytes as polynomials over GF(2).                                        *)

Bit(x, i) == (x \div 2^i) % 2
Nibble(bit) == bit[0] + 2 * bit[1] + 4 * bit[2] + 8 * bit[3]
XorTable ==
  [x \in 0 .. 15 |-> [y \in 0 .. 15 |-> Nibble([i \in 0 .. 3 |-> (Bit(x, i) + Bit(y, i)) % 2])]]
Xor(x, y) == 16 * XorTable[x \div 16][y \div 16] + XorTable[x % 16][y % 16]

xtime(x) == Xor((2 * x) % 256, IF x >= 128 THEN \h1B ELSE 0)

\* The loop of mul: what is added up so far, and what a and b have become.
mul(x, y) ==
  LET turn[i \in 0 .. 8] ==
        IF i = 0 THEN [result |-> 0, a |-> x, b |-> y]
        ELSE LET t == turn[i - 1]
             IN  [result |-> IF t.b % 2 = 1 THEN Xor(t.result, t.a) ELSE t.result,
                  a |-> xtime(t.a), b |-> t.b \div 2]
  IN  turn[8].result

sbox ==
  << \h63, \h7C, \h77, \h7B, \hF2, \h6B, \h6F, \hC5, \h30, \h01, \h67, \h2B, \hFE, \hD7, \hAB, \h76,
     \hCA, \h82, \hC9, \h7D, \hFA, \h59, \h47, \hF0, \hAD, \hD4, \hA2, \hAF, \h9C, \hA4, \h72, \hC0,
     \hB7, \hFD, \h93, \h26, \h36, \h3F, \hF7, \hCC, \h34, \hA5, \hE5, \hF1, \h71, \hD8, \h31, \h15,
     \h04, \hC7, \h23, \hC3, \h18, \h96, \h05, \h9A, \h07, \h12, \h80, \hE2, \hEB, \h27, \hB2, \h75,
     \h09, \h83, \h2C, \h1A, \h1B, \h6E, \h5A, \hA0, \h52, \h3B, \hD6, \hB3, \h29, \hE3, \h2F, \h84,
     \h53, \hD1, \h00, \hED, \h20, \hFC, \hB1, \h5B, \h6A, \hCB, \hBE, \h39, \h4A, \h4C, \h58, \hCF,
     \hD0, \hEF, \hAA, \hFB, \h43, \h4D, \h33, \h85, \h45, \hF9, \h02, \h7F, \h50, \h3C, \h9F, \hA8,
     \h51, \hA3, \h40, \h8F, \h92, \h9D, \h38, \hF5, \hBC, \hB6, \hDA, \h21, \h10, \hFF, \hF3, \hD2,
     \hCD, \h0C, \h13, \hEC, \h5F, \h97, \h44, \h17, \hC4, \hA7, \h7E, \h3D, \h64, \h5D, \h19, \h73,
     \h60, \h81, \h4F, \hDC, \h22, \h2A, \h90, \h88, \h46, \hEE, \hB8, \h14, \hDE, \h5E, \h0B, \hDB,
     \hE0, \h32, \h3A, \h0A, \h49, \h06, \h24, \h5C, \hC2, \hD3, \hAC, \h62, \h91, \h95, \hE4, \h79,
     \hE7, \hC8, \h37, \h6D, \h8D, \hD5, \h4E, \hA9, \h6C, \h56, \hF4, \hEA, \h65, \h7A, \hAE, \h08,
     \hBA, \h78, \h25, \h2E, \h1C, \hA6, \hB4, \hC6, \hE8, \hDD, \h74, \h1F, \h4B, \hBD, \h8B, \h8A,
     \h70, \h3E, \hB5, \h66, \h48, \h03, \hF6, \h0E, \h61, \h35, \h57, \hB9, \h86, \hC1, \h1D, \h9E,
     \hE1, \hF8, \h98, \h11, \h69, \hD9, \h8E, \h94, \h9B, \h1E, \h87, \hE9, \hCE, \h55, \h28, \hDF,
     \h8C, \hA1, \h89, \h0D, \hBF, \hE6, \h42, \h68, \h41, \h99, \h2D, \h0F, \hB0, \h54, \hBB, \h16 >>

inv_sbox ==
  << \h52, \h09, \h6A, \hD5, \h30, \h36, \hA5, \h38, \hBF, \h40, \hA3, \h9E, \h81, \hF3, \hD7, \hFB,
     \h7C, \hE3, \h39, \h82, \h9B, \h2F, \hFF, \h87, \h34, \h8E, \h43, \h44, \hC4, \hDE, \hE9, \hCB,
     \h54, \h7B, \h94, \h32, \hA6, \hC2, \h23, \h3D, \hEE, \h4C, \h95, \h0B, \h42, \hFA, \hC3, \h4E,
     \h08, \h2E, \hA1, \h66, \h28, \hD9, \h24, \hB2, \h76, \h5B, \hA2, \h49, \h6D, \h8B, \hD1, \h25,
     \h72, \hF8, \hF6, \h64, \h86, \h68, \h98, \h16, \hD4, \hA4, \h5C, \hCC, \h5D, \h65, \hB6, \h92,
     \h6C, \h70, \h48, \h50, \hFD, \hED, \hB9, \hDA, \h5E, \h15, \h46, \h57, \hA7, \h8D, \h9D, \h84,
     \h90, \hD8, \hAB, \h00, \h8C, \hBC, \hD3, \h0A, \hF7, \hE4, \h58, \h05, \hB8, \hB3, \h45, \h06,
     \hD0, \h2C, \h1E, \h8F, \hCA, \h3F, \h0F, \h02, \hC1, \hAF, \hBD, \h03, \h01, \h13, \h8A, \h6B,
     \h3A, \h91, \h11, \h41, \h4F, \h67, \hDC, \hEA, \h97, \hF2, \hCF, \hCE, \hF0, \hB4, \hE6, \h73,
     \h96, \hAC, \h74, \h22, \hE7, \hAD, \h35, \h85, \hE2, \hF9, \h37, \hE8, \h1C, \h75, \hDF, \h6E,
     \h47, \hF1, \h1A, \h71, \h1D, \h29, \hC5, \h89, \h6F, \hB7, \h62, \h0E, \hAA, \h18, \hBE, \h1B,
     \hFC, \h56, \h3E, \h4B, \hC6, \hD2, \h79, \h20, \h9A, \hDB, \hC0, \hFE, \h78, \hCD, \h5A, \hF4,
     \h1F, \hDD, \hA8, \h33, \h88, \h07, \hC7, \h31, \hB1, \h12, \h10, \h59, \h27, \h80, \hEC, \h5F,
     \h60, \h51, \h7F, \hA9, \h19, \hB5, \h4A, \h0D, \h2D, \hE5, \h7A, \h9F, \h93, \hC9, \h9C, \hEF,
     \hA0, \hE0, \h3B, \h4D, \hAE, \h2A, \hF5, \hB0, \hC8, \hEB, \hBB, \h3C, \h83, \h53, \h99, \h61,
     \h17, \h2B, \h04, \h7E, \hBA, \h77, \hD6, \h26, \hE1, \h69, \h14, \h63, \h55, \h21, \h0C, \h7D >>

-----------------------------------------------------------------------------
(* The key.                                                                *)

hex_byte(high, low) ==
  LET value(c) == IF c = NotHex THEN 0 ELSE c
  IN  value(high) * 16 + value(low)

\* Mutant: the rotation is forgotten.
Unrotated(w) == w
RotWord(w) == <<w[2], w[3], w[4], w[1]>>
SubWord(w) == [i \in 1 .. 4 |-> sbox[w[i] + 1]]
rcon == << \h01, \h02, \h04, \h08, \h10, \h20, \h40, \h80, \h1B, \h36 >>

NextWord(w) ==
  LET i    == Len(w)
      last == w[i]
      sub  == SubWord(RotWord(last))
      temp == IF i % 4 = 0 THEN [sub EXCEPT ![1] = Xor(sub[1], rcon[i \div 4])] ELSE last
  IN  [k \in 1 .. 4 |-> Xor(w[i - 3][k], temp[k])]

-----------------------------------------------------------------------------
(* The matrix.                                                             *)

Cells == (0 .. 3) \X (0 .. 3)

ToMatrix(bytes, b) == [c \in Cells |-> bytes[16 * b + c[1] + 4 * c[2] + 1]]
FromMatrix(s) == [k \in 1 .. 16 |-> s[<<(k - 1) % 4, (k - 1) \div 4>>]]

add_state_round(s, r) == [c \in Cells |-> Xor(s[c], words[4 * r + c[2] + 1][c[1] + 1])]

sub_bytes(s)     == [c \in Cells |-> sbox[s[c] + 1]]
inv_sub_bytes(s) == [c \in Cells |-> inv_sbox[s[c] + 1]]

\* Mutant: the rows turn the same way when they are turned back.
shift_rows(s)     == [c \in Cells |-> s[<<c[1], (c[2] + c[1]) % 4>>]]
ShiftAgain(s)     == [c \in Cells |-> s[<<c[1], (c[2] + c[1]) % 4>>]]
inv_shift_rows(s) == [c \in Cells |-> s[<<c[1], (c[2] - c[1] + 4) % 4>>]]

\* The k-th byte below c in its column, from the top again after the bottom.
Below(s, c, k) == s[<<(c[1] + k) % 4, c[2]>>]

mix_columns(s) ==
  LET twice == [c \in Cells |-> xtime(s[c])]
  IN  [c \in Cells |-> Xor(Xor(twice[c], Xor(Below(twice, c, 1), Below(s, c, 1))),
                           Xor(Below(s, c, 2), Below(s, c, 3)))]

Product == [f \in {9, 11, 13, 14} |-> [x \in Byte |-> mul(f, x)]]
inv_mix_columns(s) ==
  [c \in Cells |-> Xor(Xor(Product[14][s[c]], Product[11][Below(s, c, 1)]),
                       Xor(Product[13][Below(s, c, 2)], Product[9][Below(s, c, 3)]))]

-----------------------------------------------------------------------------
(* Key and text.                                                           *)

AesInit ==
  /\ aes = "key"
  /\ key_bytes = <<>> /\ words = <<>> /\ input_array = <<>> /\ padded_data = <<>>
  /\ num_blocks = 0 /\ block = 0 /\ round = 0
  /\ state_matrix = [c \in Cells |-> 0]
  /\ printed = <<>> /\ plaintext = <<>> /\ final_length = 0 /\ seen = <<>>

\* scanf() takes 32 characters of the line at most, and flush_input() drops
\* the others.
ReadKey ==
  /\ aes = "key"
  /\ \E typed \in Keys :
       \/ /\ Len(typed) < 32
          /\ aes' = "short_key"
          /\ UNCHANGED <<key_bytes, words>>
       \/ /\ Len(typed) >= 32
          /\ key_bytes' = [k \in 1 .. 16 |-> hex_byte(typed[2 * k - 1], typed[2 * k])]
          /\ words' = [w \in 1 .. 4 |-> SubSeq(key_bytes', 4 * w - 3, 4 * w)]
          /\ aes' = "expand"
  /\ UNCHANGED <<input_array, padded_data, num_blocks, block, round, state_matrix,
                 printed, plaintext, final_length, seen>>

KeyExpansion ==
  /\ aes = "expand"
  /\ \/ /\ Len(words) < 44
        /\ words' = Append(words, NextWord(words))
        /\ UNCHANGED aes
     \/ /\ Len(words) = 44
        /\ aes' = "text"
        /\ UNCHANGED words
  /\ UNCHANGED <<key_bytes, input_array, padded_data, num_blocks, block, round,
                 state_matrix, printed, plaintext, final_length, seen>>

PaddingOf(text) ==
  LET length == BLOCK_SIZE - (Len(text) % BLOCK_SIZE) IN [k \in 1 .. length |-> length]

\* The blocks are counted before the padding: the block of padding that a text
\* of full blocks gets is written behind the buffer and never counted.  The
\* heap may not survive that, at any time until free().
ReadText ==
  /\ aes = "text"
  /\ \E text \in Texts :
       /\ input_array' = text
       /\ num_blocks' = (Len(text) + BLOCK_SIZE - 1) \div BLOCK_SIZE
       /\ padded_data' = text \o PaddingOf(text)
       /\ aes' \in IF num_blocks' = 0 THEN {"invalid", "crashed"}
                   ELSE IF Len(text) % BLOCK_SIZE = 0 THEN {"encrypt", "crashed"}
                   ELSE {"encrypt"}
  /\ UNCHANGED <<key_bytes, words, block, round, state_matrix, printed, plaintext,
                 final_length, seen>>

-----------------------------------------------------------------------------
(* Encryption: round 0, the rounds 1 to 10, the output.                    *)

HexDigits(bytes) ==
  [k \in 1 .. (2 * Len(bytes)) |->
     IF k % 2 = 1 THEN bytes[(k + 1) \div 2] \div 16 ELSE bytes[k \div 2] % 16]

FirstRound ==
  /\ block < num_blocks /\ round = 0
  /\ state_matrix' = add_state_round(ToMatrix(padded_data, block), 0)
  /\ round' = 1
  /\ seen' = Append(seen, <<state_matrix'>>)
  /\ UNCHANGED <<aes, block, printed>>

NextRound ==
  /\ round \in 1 .. 10
  /\ LET s     == shift_rows(sub_bytes(state_matrix))
         mixed == IF round < 10 THEN mix_columns(s) ELSE s
     IN  state_matrix' = add_state_round(mixed, round)
  /\ round' = round + 1
  /\ seen' = [seen EXCEPT ![block + 1] = Append(@, state_matrix')]
  /\ UNCHANGED <<aes, block, printed>>

BlockIsEncrypted ==
  /\ round = 11
  /\ printed' = printed \o HexDigits(FromMatrix(state_matrix))
  /\ round' = 0
  /\ block' = block + 1
  /\ UNCHANGED <<aes, state_matrix, seen>>

\* aes_decrypt.c is then given the cipher text that was printed.
TextIsEncrypted ==
  /\ block = num_blocks
  /\ aes' = "decrypt"
  /\ block' = 0
  /\ UNCHANGED <<round, state_matrix, printed, seen>>

aes_encrypt ==
  /\ aes = "encrypt"
  /\ FirstRound \/ NextRound \/ BlockIsEncrypted \/ TextIsEncrypted
  /\ UNCHANGED <<key_bytes, words, input_array, padded_data, num_blocks, plaintext,
                 final_length>>

-----------------------------------------------------------------------------
(* Decryption: round 10, the rounds 9 to 1, round 0 with the output.       *)

Blocks == Len(printed) \div 32
cipher_bytes ==
  [k \in 1 .. (Len(printed) \div 2) |-> hex_byte(printed[2 * k - 1], printed[2 * k])]

LastRoundFirst ==
  /\ block < Blocks /\ round = 0
  /\ state_matrix' =
       inv_sub_bytes(inv_shift_rows(add_state_round(ToMatrix(cipher_bytes, block), 10)))
  /\ round' = 9
  /\ UNCHANGED <<aes, block, plaintext, final_length>>

\* The last turn of the loop goes on to round 0 and the output.
RoundBefore ==
  /\ round \in 1 .. 9
  /\ LET mixed == inv_mix_columns(add_state_round(state_matrix, round))
         s     == inv_sub_bytes(inv_shift_rows(mixed))
     IN  IF round > 1
         THEN /\ state_matrix' = s
              /\ UNCHANGED <<block, plaintext>>
         ELSE /\ state_matrix' = add_state_round(s, 0)
              /\ plaintext' = plaintext \o FromMatrix(state_matrix')
              /\ block' = block + 1
  /\ round' = round - 1
  /\ UNCHANGED <<aes, final_length>>

\* Without a bound of the padding: it is whatever the last byte says.
RemovePadding ==
  /\ block = Blocks
  /\ final_length' = BLOCK_SIZE * Blocks - plaintext[Len(plaintext)]
  /\ aes' = "done"
  /\ UNCHANGED <<block, round, state_matrix, plaintext>>

aes_decrypt ==
  /\ aes = "decrypt"
  /\ LastRoundFirst \/ RoundBefore \/ RemovePadding
  /\ UNCHANGED <<key_bytes, words, input_array, padded_data, num_blocks, printed, seen>>

AesCompute == KeyExpansion \/ aes_encrypt \/ aes_decrypt
AesNext == ReadKey \/ ReadText \/ AesCompute

-----------------------------------------------------------------------------
(* Properties.                                                             *)

AesTypeOK ==
  /\ aes \in {"key", "short_key", "expand", "text", "invalid", "crashed", "encrypt",
              "decrypt", "done"}
  /\ words \in Seq([1 .. 4 -> Byte]) /\ Len(words) <= 44
  /\ input_array \in Seq(1 .. 255) /\ padded_data \in Seq(Byte)
  /\ block \in 0 .. num_blocks /\ round \in 0 .. 11
  /\ state_matrix \in [Cells -> Byte]
  /\ printed \in Seq(0 .. 15) /\ plaintext \in Seq(Byte)
  /\ final_length \in Int

\* Decryption goes back the way encryption came: before the key of a round is
\* added again, the matrix is the one that encryption left after that round,
\* of the same block, in every round of every block.
RoundsMirror ==
  aes = "decrypt" /\ round \in 1 .. 9 => state_matrix = seen[block + 1][round + 1]

\* What is decrypted is what was padded, byte by byte and in order.
BlocksComeBack ==
  aes \in {"decrypt", "done"} =>
    plaintext = SubSeq(padded_data, 1, BLOCK_SIZE * block)

\* The padding tells where a text ends that does not fill its last block.
LengthIsFound ==
  aes = "done" /\ Len(input_array) % BLOCK_SIZE # 0 => final_length = Len(input_array)

\* Decrypting undoes encrypting: round by round, block by block, and then down
\* to the length of the text.
TextComesBack == RoundsMirror /\ BlocksComeBack /\ LengthIsFound

\* The padding tells where any text ends: a text of full blocks gets a block of
\* padding for that (string_input_processing.c:14-21).
PaddingIsUnambiguous == aes = "done" => final_length = Len(input_array)

\* The example that aes_decrypt.c:295-297 gives: key, text and cipher text.
\* The text is "Hello Cipher World".
ExampleKey == <<1, 12, 13, 15, 10, 10, 11, 10, 11, 7, 11, 9, 11, 10, 7, 14,
                0, 14, 14, 9, 3, 9, 0, 3, 5, 15, 8, 1, 6, 5, 10, 10>>
ExampleText == <<72, 101, 108, 108, 111, 32, 67, 105, 112, 104, 101, 114, 32,
                 87, 111, 114, 108, 100>>
ExampleCipher == << \hB1, \h46, \hA1, \h31, \hF3, \hF0, \hEA, \h0E, \h26, \hD8, \hDA,
                    \hBF, \hB3, \h9A, \h81, \h12, \hA1, \h5F, \hA3, \h80, \hEE, \hCE,
                    \hB3, \h35, \hCB, \hEA, \h13, \h4A, \h86, \h02, \hCF, \h6A >>
ExampleHolds ==
  aes = "done" /\ HexDigits(key_bytes) = ExampleKey /\ input_array = ExampleText =>
    printed = HexDigits(ExampleCipher)

\* The table is the one its comment describes (aes_encrypt.c:8-15): a byte is
\* replaced by its inverse in GF(2^8), or 0 by 0, and that by an affine map.
Affine ==
  LET bit(x, i) == Bit(x, i % 8)
      sums(x)   == [i \in 0 .. 7 |-> (bit(x, i) + bit(x, i + 4) + bit(x, i + 5)
                                        + bit(x, i + 6) + bit(x, i + 7)) % 2]
  IN  [x \in Byte |-> Xor(16 * Nibble([i \in 0 .. 3 |-> sums(x)[i + 4]]) + Nibble(sums(x)),
                          \h63)]
AsDesigned ==
  \A x \in Byte : \E y \in Byte :
    sbox[x + 1] = Affine[y] /\ (IF x = 0 THEN y = 0 ELSE mul(x, y) = 1)
SubstitutionAsDesigned == aes = "expand" => AsDesigned

\* The cipher is the one that is documented: in its table of substitutions and
\* in what it makes of the documented key and text.
CipherAsDesigned == SubstitutionAsDesigned /\ ExampleHolds
=============================================================================
