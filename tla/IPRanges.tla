-------------------------------- MODULE IPRanges --------------------------------
(***************************************************************************)
(* The algorithms of net/IPRangeSet: a set of addresses kept as the sorted *)
(* vector s of the starts and ends of its ranges.  An address is a number  *)
(* below 2^Bits; the code has 32 bits.  Positions count from 0 as in the   *)
(* code.                                                                   *)
(***************************************************************************)
EXTENDS Integers, Sequences

CONSTANT Bits   \* width of an address

IPs == 0..(2^Bits - 1)
Wrap(n) == n % 2^Bits

Nth(s, i) == s[i + 1]
Put(s, i, ip) == [s EXCEPT ![i + 1] = ip]
Odd(n) == n % 2 = 1
Even(n) == n - (n % 2)

find_NoMatch(s, ip) ==
    LET seek[r \in (0..Len(s)) \X (0..Len(s))] ==
          LET start == r[1]
              end   == r[2]
              mid   == (end - start) \div 2 + start
          IN  IF start >= end THEN start
              ELSE IF ip < Nth(s, mid) THEN seek[<<start, mid>>]
              ELSE seek[<<mid + 1, end>>]
    IN  seek[<<0, Len(s)>>]

\* find(): the bisection; odd when ip is within a range.
find(s, ip) ==
    LET seek[r \in (0..Len(s)) \X (0..Len(s))] ==
          LET start == r[1]
              end   == r[2]
              mid   == (end - start) \div 2 + start
          IN  IF start >= end THEN start
              ELSE IF Nth(s, mid) = ip THEN IF Odd(mid) THEN mid ELSE mid + 1
              ELSE IF ip < Nth(s, mid) THEN seek[<<start, mid>>]
              ELSE seek[<<mid + 1, end>>]
    IN  seek[<<0, Len(s)>>]

contains(s, ip) == Odd(find(s, ip))

\* shift(): room for amount numbers at position, or the numbers before it removed.
shift(s, amount, position) ==
    IF amount >= 0
    THEN SubSeq(s, 1, position) \o [i \in 1..amount |-> 0]
         \o SubSeq(s, position + 1, Len(s))
    ELSE SubSeq(s, 1, position + amount) \o SubSeq(s, position + 1, Len(s))

\* insert() of the range from start to end, start <= end.
Insert(s, start, end) ==
    LET startPos    == find(s, start)
        endPos      == find(s, end)
        startInside == Odd(startPos)
        endInside   == Odd(endPos)
        change == (IF ~startInside /\ ~endInside THEN 2 ELSE 0) - Even(endPos - startPos)
        t == shift(s, change, endPos)
        u == IF startInside THEN t ELSE Put(t, startPos, start)
    IN  IF endInside THEN u ELSE Put(u, endPos + change - 1, end)

\* erase(): a range that is cut at its very first or last address counts as outside.
Erase(s, start, end) ==
    LET p == find(s, start)
        q == find(s, end)
        startEdge == Odd(p) /\ Nth(s, p - 1) = start
        endEdge   == Odd(q) /\ Nth(s, q) = end
        startPos  == IF startEdge THEN p - 1 ELSE p
        endPos    == IF endEdge THEN q + 1 ELSE q
        startInside == Odd(p) /\ ~startEdge
        endInside   == Odd(q) /\ ~endEdge
        change == (IF startInside /\ endInside THEN 2 ELSE 0) - Even(endPos - startPos)
        t == shift(s, change, endPos)
        u == IF startInside THEN Put(t, startPos, Wrap(start - 1)) ELSE t
    IN  IF endInside THEN Put(u, endPos + change - 1, Wrap(end + 1)) ELSE u

Lesser(a, b) == IF a < b THEN a ELSE b
Greater(a, b) == IF a < b THEN b ELSE a
=================================================================================
