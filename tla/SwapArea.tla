------------------------------ MODULE SwapArea ------------------------------
(***************************************************************************)
(* The swap area's map of sectors (kernel/zswap.c: slot_get, slot_put): a  *)
(* bit for each, searched from where the last search ended, a byte full of *)
(* used ones at a time.                                                    *)
(***************************************************************************)
EXTENDS Integers, FiniteSets, FiniteSetsExt

CONSTANTS
    Total,      \* g_nslots
    Byte,       \* 8: sectors in a byte of the map
    MaxN        \* most sectors of a compressed page

SwapAreaAssumption == {Total, Byte, MaxN} \subseteq Nat \ {0}

VARIABLES
    bits,       \* g_slot_map: the sectors whose bit is set
    used, hint, \* g_slots_used, g_sw_hint
    slots       \* what was given out: [first, n], in sectors

vars == <<bits, used, hint, slots>>

Run(first, n) == first..(first + n - 1)

Init == bits = {} /\ used = 0 /\ hint = 0 /\ slots = {}

FullByte(i) == i % Byte = 0 /\ Run(i, Byte) \subseteq bits

LookNoRestart(n) ==
    LET From[k \in 0..(Total + MaxN + Byte), run \in 0..MaxN, start \in 0..(Total - 1)] ==
          LET i == (hint + k) % Total
          IN  IF k >= Total + n THEN 0
              ELSE IF FullByte(i) THEN From[k + Byte, 0, start]
              ELSE IF i \in bits THEN From[k + 1, 0, start]
              ELSE LET first == IF run = 0 THEN i ELSE start
                   IN  IF run + 1 = n THEN first + 1 ELSE From[k + 1, run + 1, first]
    IN  IF n > Total THEN 0 ELSE From[0, 0, 0]

LookOnce(n) ==
    LET From[k \in 0..(Total + MaxN + Byte), run \in 0..MaxN, start \in 0..(Total - 1)] ==
          LET i == (hint + k) % Total
              r == IF i = 0 THEN 0 ELSE run
          IN  IF k >= Total THEN 0
              ELSE IF FullByte(i) THEN From[k + Byte, 0, start]
              ELSE IF i \in bits THEN From[k + 1, 0, start]
              ELSE LET first == IF r = 0 THEN i ELSE start
                   IN  IF r + 1 = n THEN first + 1 ELSE From[k + 1, r + 1, first]
    IN  IF n > Total THEN 0 ELSE From[0, 0, 0]

\* slot_get's search: the first sector of n free ones + 1, 0: none
Look(n) ==
    LET From[k \in 0..(Total + MaxN + Byte), run \in 0..MaxN, start \in 0..(Total - 1)] ==
          LET i == (hint + k) % Total
              r == IF i = 0 THEN 0 ELSE run            \* a run does not wrap
          IN  IF k >= Total + n THEN 0
              ELSE IF FullByte(i) THEN From[k + Byte, 0, start]
              ELSE IF i \in bits THEN From[k + 1, 0, start]
              ELSE LET first == IF r = 0 THEN i ELSE start
                   IN  IF r + 1 = n THEN first + 1 ELSE From[k + 1, r + 1, first]
    IN  IF n > Total THEN 0 ELSE From[0, 0, 0]

\* slot_get
Get(n) ==
    LET s == Look(n)
    IN  /\ s # 0
        /\ bits' = bits \union Run(s - 1, n)
        /\ used' = used + n
        /\ hint' = s - 1 + n
        /\ slots' = slots \union {[first |-> s - 1, n |-> n]}

\* slot_put
Put(s) ==
    LET gone == Run(s.first, s.n)
    IN  /\ bits' = bits \ gone
        /\ used' = used - Cardinality(gone \intersect bits)
        /\ slots' = slots \ {s}
        /\ UNCHANGED hint

Next == (\E n \in 1..MaxN : Get(n)) \/ (\E s \in slots : Put(s))

Spec == Init /\ [][Next]_vars

-----------------------------------------------------------------------------
(* Properties *)

\* No two compressed pages share a sector, and none reaches beyond the end
\* of the area, where the search goes on at its start.
SlotsApart ==
    /\ \A s \in slots : Run(s.first, s.n) \subseteq 0..(Total - 1)
    /\ \A s, r \in slots : s # r => Run(s.first, s.n) \intersect Run(r.first, r.n) = {}

\* A sector is marked as used if and only if some page is there.
MapExact ==
    /\ bits = UNION {Run(s.first, s.n) : s \in slots}
    /\ used = Cardinality(bits)

\* The search fails only if there are no n free sectors in a row, wherever
\* the last one ended and whatever the byte steps skipped.
FindsIfAny ==
    \A n \in 1..MaxN :
      Look(n) = 0 => ~\E a \in 0..(Total - n) : Run(a, n) \intersect bits = {}
=============================================================================
