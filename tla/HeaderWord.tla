---------------------------- MODULE HeaderWord ----------------------------
(* The header of an IO buffer as the one word that src/pagecache/header.rs *)
(* packs it into: an offset, a count of writers, the bits for sealed and   *)
(* maxed, and a salt, with the operations that reserve_inner,              *)
(* exit_reservation and maybe_seal_and_write_iobuf do on it.  Beside the   *)
(* word stand the fields that it is to hold.  The word is u64 with 24 bits *)
(* of offset and 7 of writers in the code; here the fields are narrower,   *)
(* and the carries from one into the next come sooner.                     *)
EXTENDS Integers

CONSTANTS
  OffsetBits, WriterBits, SaltBits,  \* widths of the fields
  SegmentSize,                       \* at most 2^OffsetBits (config.rs)
  SegHeaderLen,                      \* SEG_HEADER_LEN
  MaxMsgHeaderLen                    \* MAX_MSG_HEADER_LEN

\* The constants are meant to satisfy
\*   /\ SegmentSize <= 2^OffsetBits
\*   /\ SegHeaderLen + MaxMsgHeaderLen < SegmentSize

VARIABLES
  word,      \* the header of the buffer in use
  capacity,  \* its capacity
  fields     \* what the header is to hold

vars == <<word, capacity, fields>>

-----------------------------------------------------------------------------
(* header.rs: shifts and masks as division and remainder                   *)

SealBit == 2^(OffsetBits + WriterBits)
MaxBit == 2 * SealBit
SaltOne == 2 * MaxBit
Width == SaltOne * 2^SaltBits
MAX_WRITERS == 2^WriterBits - 1

bit(v, b) == (v \div b) % 2 = 1

is_maxed(v) == bit(v, MaxBit)
is_sealed(v) == bit(v, SealBit)
mk_maxed(v) == IF is_maxed(v) THEN v ELSE v + MaxBit
mk_sealed(v) == IF is_sealed(v) THEN v ELSE v + SealBit

n_writers(v) == (v % SealBit) \div 2^OffsetBits
incr_writers(v) == (v + 2^OffsetBits) % Width
decr_writers(v) == v - 2^OffsetBits

offset(v) == v % 2^OffsetBits
bump_offset(v, by) == (v + by) % Width

salt(v) == (v \div SaltOne) * SaltOne

\* 0xFFFF_FFFD_0000_0000 keeps the bit of maxed and the salt but for its lowest
\* bit, and clears all else.
bump_salt(v) ==
  LET sum == (v + SaltOne) % Width IN
  (sum \div (2 * SaltOne)) * (2 * SaltOne) + (IF is_maxed(sum) THEN MaxBit ELSE 0)

-----------------------------------------------------------------------------
(* What the log does with a header                                         *)

\* The header of the buffer that follows: in the same segment, or behind the
\* header of the next one (store_segment_header).
next_word(v, maxed) ==
  bump_offset(bump_salt(salt(v)), IF maxed THEN SegHeaderLen ELSE 0)

Init ==
  /\ word = next_word(0, TRUE) /\ capacity = SegmentSize
  /\ fields = [offset |-> SegHeaderLen, writers |-> 0,
               sealed |-> FALSE, maxed |-> FALSE]

\* One more writer would be the last that the count can hold.
Crowded(bumped) == n_writers(bumped) = MAX_WRITERS

\* reserve_inner claims len bytes.
reserve(len) ==
  LET bumped == bump_offset(word, len) IN
  /\ ~is_sealed(word)
  /\ offset(word) + len <= capacity
  /\ capacity - offset(word) >= MaxMsgHeaderLen
  /\ ~Crowded(bumped)
  /\ word' = incr_writers(bumped)
  /\ fields' = [fields EXCEPT !.offset = @ + len, !.writers = @ + 1]
  /\ UNCHANGED capacity

\* exit_reservation: one of the writers inside leaves.
exit_reservation ==
  /\ fields.writers > 0
  /\ word' = decr_writers(word)
  /\ fields' = [fields EXCEPT !.writers = @ - 1]
  /\ UNCHANGED capacity

\* maybe_seal_and_write_iobuf, called by a thread whose message does not fit,
\* or by one that waits for what has been written.
seal(full) ==
  LET maxed == full \/ capacity - offset(word) < MaxMsgHeaderLen IN
  /\ ~is_sealed(word) /\ offset(word) <= capacity
  /\ full \/ offset(word) > 0
  /\ word' = IF maxed THEN mk_maxed(mk_sealed(word)) ELSE mk_sealed(word)
  /\ fields' = [fields EXCEPT !.sealed = TRUE, !.maxed = maxed]
  /\ UNCHANGED capacity

\* The next buffer takes the place of a sealed one, whose writers have its word
\* to themselves from then on.
roll_iobuf ==
  LET maxed == is_maxed(word) IN
  /\ is_sealed(word)
  /\ word' = next_word(word, maxed)
  /\ capacity' = IF maxed THEN SegmentSize ELSE capacity - offset(word)
  /\ fields' = [offset |-> IF maxed THEN SegHeaderLen ELSE 0, writers |-> 0,
                sealed |-> FALSE, maxed |-> FALSE]

Next ==
  \/ exit_reservation
  \/ roll_iobuf
  \/ \E full \in BOOLEAN : seal(full)
  \/ \E len \in 1..SegmentSize : reserve(len)

Spec == Init /\ [][Next]_vars

-----------------------------------------------------------------------------
(* Properties                                                              *)

\* A word, and a capacity of which at least a message header is left.
TypeOK == word \in 0..(Width - 1) /\ capacity \in MaxMsgHeaderLen..SegmentSize

\* No field carries into the next: after any reservations, exits and seals each
\* accessor of header.rs returns what the operations add up to.
FieldsAgree ==
  fields = [offset |-> offset(word), writers |-> n_writers(word),
            sealed |-> is_sealed(word), maxed |-> is_maxed(word)]

\* What header.rs says of the salt, 31 bits that bump_salt is to move on: the
\* header of the next buffer differs from all that the last one had.
SaltIsNew == [][is_sealed(word) /\ ~is_sealed(word') => salt(word') # salt(word)]_vars
====
