------------------------------- MODULE Target -------------------------------
(***************************************************************************)
(* The difficulty target as the program stores and computes it             *)
(* (crates/equihash-core/src/target.rs, programs/equium/src/schedule.rs):  *)
(* bytes, most significant first, scaled as four limbs in words of twice   *)
(* their width.  Difficulty.tla says what it means as a number, Equium.tla *)
(* what the program does with it, and EquiumProofs that the two agree for  *)
(* every width of bytes and words.                                         *)
(*                                                                         *)
(* Digits and limbs count from 0, as in the code.  A shift by a limb is a  *)
(* quotient, a mask a remainder; rem << 64 and acc[i] share no bits        *)
(* (NoBitIsLost), so that | is +.                                          *)
(***************************************************************************)
EXTENDS Equium

CONSTANTS
    Byte,       \* values of a byte, 256 in the program
    WordBytes   \* bytes of a u64, 8 in the program

(* Of the bytes' positions.                                                *)
Power[n \in Nat] == IF n = 0 THEN 1 ELSE Byte * Power[n - 1]

Bytes == 4 * WordBytes
Word == Power[WordBytes]

ASSUME TargetAssumption ==
    /\ Byte \in Nat /\ Byte >= 2 /\ WordBytes \in Nat \ {0}
    /\ MAX_TARGET = Power[Bytes] - 1
    /\ RETARGET_TARGET_SECONDS < Word /\ RETARGET_MIN_DEN < Word /\ RETARGET_MAX_NUM < Word

Words == 0 .. Word - 1
ByteStrings == [0 .. Bytes - 1 -> 0 .. Byte - 1]

(* The number that the first n digits write.                               *)
Number(digits, n) ==
    LET v[i \in 0 .. n] == IF i = 0 THEN 0 ELSE Byte * v[i - 1] + digits[i - 1]
    IN  v[n]

(* Mutant: a byte that is greater does not settle it.                      *)
hash_under_bytes_any(hash, target) == \E i \in 0 .. Bytes - 1 : hash[i] < target[i]

(* The first byte that differs is less.                                    *)
hash_under_bytes(hash, target) ==
    \E i \in 0 .. Bytes - 1 :
       hash[i] < target[i] /\ \A j \in 0 .. i - 1 : hash[j] = target[j]

-----------------------------------------------------------------------------
(* old * num / den.                                                        *)

from_be_bytes(old, i) ==
    Number([j \in 0 .. WordBytes - 1 |-> old[i * WordBytes + j]], WordBytes)

to_be_bytes(limb) ==
    [j \in 0 .. WordBytes - 1 |-> (limb \div Power[WordBytes - 1 - j]) % Byte]

High(x) == x \div Word
Low(x) == x % Word

products(old, num) == [i \in 0 .. 3 |-> from_be_bytes(old, i) * num]

(* Every product takes two places, and has its lower half in common with   *)
(* the upper half of the next.                                             *)
aligned(p) ==
    [i \in 0 .. 4 |-> (IF i = 0 THEN 0 ELSE Low(p[i - 1])) + (IF i = 4 THEN 0 ELSE High(p[i]))]

(* acc[i] once the carry of the place below has come in.                   *)
sums(acc) ==
    LET sum[i \in 0 .. 4] == acc[i] + (IF i = 4 THEN 0 ELSE High(sum[i + 1]))
    IN  sum

carried(acc) == [i \in 0 .. 4 |-> IF i = 0 THEN sums(acc)[0] ELSE Low(sums(acc)[i])]

(* rem before each place of the long division, and after the last.         *)
remainders(acc, den) ==
    LET rem[i \in 0 .. 5] == IF i = 0 THEN 0 ELSE (rem[i - 1] * Word + acc[i - 1]) % den
    IN  rem

quotients(acc, den) ==
    [i \in 0 .. 4 |-> (remainders(acc, den)[i] * Word + acc[i]) \div den]

Saturated == [k \in 0 .. Bytes - 1 |-> Byte - 1]

Written(q) ==
    [k \in 0 .. Bytes - 1 |-> to_be_bytes(Low(q[1 + k \div WordBytes]))[k % WordBytes]]

(* Mutant: only the first check for an overflow is made.                   *)
scale_bytes_unchecked(old, num, den) ==
    LET acc == carried(aligned(products(old, num)))
    IN  IF num = den THEN old
        ELSE IF acc[0] >= den * Word THEN Saturated
        ELSE Written(quotients(acc, den))

scale_bytes(old, num, den) ==
    LET acc == carried(aligned(products(old, num)))
        q == quotients(acc, den)
    IN  IF num = den THEN old
        ELSE IF acc[0] >= den * Word \/ Low(q[0]) # 0 THEN Saturated
        ELSE Written(q)

-----------------------------------------------------------------------------
(* The retarget, in words.                                                 *)

(* Mutant: wrapping_mul.                                                   *)
saturating_mul_wrapping(x, y) == (x * y) % Word

saturating_mul(x, y) == IF x * y < Word THEN x * y ELSE Word - 1

next_bytes(old, actual_seconds) ==
    LET expected == RETARGET_TARGET_SECONDS
    IN  IF \/ actual_seconds = 0
           \/ saturating_mul(actual_seconds, RETARGET_MIN_DEN)
                < saturating_mul(expected, RETARGET_MIN_NUM)
        THEN scale_bytes(old, RETARGET_MIN_NUM, RETARGET_MIN_DEN)
        ELSE IF saturating_mul(actual_seconds, RETARGET_MAX_DEN)
                  > saturating_mul(expected, RETARGET_MAX_NUM)
        THEN scale_bytes(old, RETARGET_MAX_NUM, RETARGET_MAX_DEN)
        ELSE scale_bytes(old, actual_seconds, expected)

-----------------------------------------------------------------------------
(* The width of the words is enough: no sum or shift leaves a u128, what is*)
(* or-ed to a shifted remainder is below it, and no digit of a quotient is *)
(* cut when it becomes a u64 (target.rs:57-79).                            *)
NoBitIsLost ==
    \A old \in ByteStrings, num \in Words, den \in Words \ {0} :
       LET p == aligned(products(old, num))
           acc == carried(p)
       IN  \A i \in 0 .. 4 :
              /\ sums(p)[i] < Word * Word
              /\ acc[i] < Word
              /\ remainders(acc, den)[i] * Word + acc[i] < Word * Word
              /\ quotients(acc, den)[i] < Word

BytesScale ==
    \A old \in ByteStrings, num \in Words, den \in Words \ {0} :
       Number(scale_bytes(old, num, den), Bytes) = scale_target(Number(old, Bytes), num, den)

BytesOrder ==
    \A hash, target \in ByteStrings :
       hash_under_bytes(hash, target)
          <=> hash_under_target(Number(hash, Bytes), Number(target, Bytes))

(* "Multiply a 256-bit big-endian target by a damped ratio", "saturating at*)
(* [0xFF; 32]" (target.rs:20-25): whatever target the program stores, no   *)
(* bit is lost on the way, and what the carries, the long division and the *)
(* overflow checks write is old * num / den, rounded down and capped.      *)
ScaleIsExact == initialized => NoBitIsLost /\ BytesScale

(* Whatever target it stores, the order of the bytes is that of the numbers*)
(* (target.rs:6-18).                                                       *)
OrderIsNumeric == initialized => BytesOrder

(* What the bytes of each target become after each window.                 *)
Retargets ==
    {<<Number(old, Bytes), actual_seconds, Number(next_bytes(old, actual_seconds), Bytes)>> :
       old \in ByteStrings, actual_seconds \in Words}

(* Whenever a round closes on a retarget boundary, however the clock went, *)
(* the new target is what bytes and words make of the old one              *)
(* (schedule.rs:34-67, round.rs:73-78).                                    *)
RetargetedBytes ==
    LET window == unix_timestamp - last_retarget_unix_ts
        actual_seconds == IF window < 0 THEN 0 ELSE window
    IN  /\ block_height' # block_height
        /\ is_retarget_boundary(block_height')
        /\ actual_seconds \in Words
        => <<current_target, actual_seconds, current_target'>> \in Retargets
RetargetIsExact == [][initialized => RetargetedBytes]_vars

=============================================================================
