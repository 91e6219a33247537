------------------------------ MODULE InputBuffer ------------------------------
(***************************************************************************)
(* tamer::buffer: input is read into a ring whose size is a power of two    *)
(* and which doubles when it is full; take_until hands out what comes up to *)
(* a delimiter.  One reader at a time: two would move each other's marks.   *)
(***************************************************************************)
EXTENDS Integers, Sequences

CONSTANTS
  InitialSize,   \* capacity asked for
  MaxInput,      \* bound on the length of the input
  MaxSize        \* max_size of take_until

VARIABLES
  input,      \* what will arrive, as a sequence of characters
  arrived,    \* how much of it was read into the buffer
  buf, size, head, tail,   \* buf_, size_, head_ and tail_
  pos,        \* how far the current call has looked
  pc,         \* "idle", "scan", "polling"; "over" when there was an end or an error
  taken,      \* the strings handed out
  cuts        \* history: the length of all strings up to each of them

vars == <<input, arrived, buf, size, head, tail, pos, pc, taken, cuts>>

Delimiter == "c"
Char == {"a", "b", Delimiter}

\* The smallest power of two that is large enough
RoundUp(n) == CHOOSE s \in {2^k : k \in 0 .. n} : s >= n /\ \A k \in 0 .. n : 2^k >= n => s <= 2^k

\* What the constants must satisfy; each instance assumes it.
BufferAssumption ==
  /\ {InitialSize, MaxInput, MaxSize} \subseteq Nat
  /\ RoundUp(InitialSize) \in Nat \ {0}

Init ==
  /\ input \in [1 .. MaxInput -> Char]
  /\ arrived = 0
  /\ size = RoundUp(InitialSize)
  /\ buf = [i \in 0 .. size - 1 |-> "a"]
  /\ head = 0 /\ tail = 0 /\ pos = 0
  /\ pc = "idle"
  /\ taken = <<>> /\ cuts = <<>>

At(b, s, i) == b[i % s]

\* take_until, and fill_until that it calls
TakeUntil ==
  /\ pc = "idle"
  /\ pos' = head
  /\ pc' = "scan"
  /\ UNCHANGED <<input, arrived, buf, size, head, tail, taken, cuts>>

\* Where the scan finds the delimiter
Found ==
  {p \in pos .. tail - 1 : p < head + MaxSize /\ At(buf, size, p) = Delimiter}

\* What take_until copies: up to the end of the ring, and on from its start.
Between(a, n) ==
  LET x == a % size
      y == (a + n) % size
      part(i, j) == [k \in 1 .. j - i |-> buf[i + k - 1]] IN
  IF x < y THEN part(x, y) ELSE part(x, size) \o part(0, y)

\* Where in the input the k-th string ends
Cut(k) == IF k = 0 THEN 0 ELSE cuts[k]

\* The delimiter is there.
Deliver ==
  /\ pc = "scan"
  /\ \E p \in Found :
       /\ \A o \in Found : p <= o
       /\ LET n == p + 1 - head IN
            /\ taken' = Append(taken, Between(head, n))
            /\ cuts' = Append(cuts, Cut(Len(cuts)) + n)
            /\ head' = head + n
            /\ pos' = p + 1
  /\ pc' = "idle"
  /\ UNCHANGED <<input, arrived, buf, size, tail>>

\* What is there is too long; the caller is told so and gives up.
TooBig ==
  /\ pc = "scan" /\ Found = {} /\ tail >= head + MaxSize
  /\ pos' = head + MaxSize
  /\ pc' = "over"
  /\ UNCHANGED <<input, arrived, buf, size, head, tail, taken, cuts>>

BugGrown ==
  [buf |-> [i \in 0 .. 2 * size - 1 |-> buf[i % size]], size |-> 2 * size, head |-> 0, tail |-> size]

\* A full ring is copied, from the head on, to the front of one twice as large.
Grown ==
  LET off == head % size IN
  [buf |-> [i \in 0 .. 2 * size - 1 |->
              IF i < size - off THEN buf[off + i]
              ELSE IF i < size THEN buf[i - (size - off)] ELSE "a"],
   size |-> 2 * size, head |-> 0, tail |-> size]

\* How much read(2) is asked for: to the end of the ring or up to the head.
Room(b) ==
  LET h == b.head % b.size
      t == b.tail % b.size IN
  IF h <= t THEN b.size - t ELSE h - t

\* fill_more: grow if need be, read what there is, or wait, or meet the end.
FillMore ==
  /\ pc = "scan" /\ Found = {} /\ tail < head + MaxSize
  /\ LET b == IF head + size = tail THEN Grown
              ELSE [buf |-> buf, size |-> size, head |-> head, tail |-> tail]
         t == b.tail % b.size IN
       /\ size' = b.size
       /\ head' = b.head
       /\ pos' = b.tail
       /\ \/ \E n \in 1 .. Room(b) :
               /\ arrived + n <= Len(input)
               /\ buf' = [i \in DOMAIN b.buf |->
                    IF i \in t .. t + n - 1 THEN input[arrived + i - t + 1] ELSE b.buf[i]]
               /\ arrived' = arrived + n
               /\ tail' = b.tail + n
               /\ UNCHANGED pc
          \/ /\ pc' = IF arrived = Len(input) THEN "over" ELSE "polling"
             /\ buf' = b.buf
             /\ tail' = b.tail
             /\ UNCHANGED arrived
  /\ UNCHANGED <<input, taken, cuts>>

Ready ==
  /\ pc = "polling"
  /\ pc' = "scan"
  /\ UNCHANGED <<input, arrived, buf, size, head, tail, pos, taken, cuts>>

\* The caller's event is triggered by somebody else: the call ends, and what it
\* has read is left for the next one.
Cancel ==
  /\ pc = "polling"
  /\ pc' = "idle"
  /\ UNCHANGED <<input, arrived, buf, size, head, tail, pos, taken, cuts>>

Next == TakeUntil \/ Deliver \/ TooBig \/ FillMore \/ Ready \/ Cancel

Spec == Init /\ [][Next]_vars

(* Properties *)

Ends(s) == {k \in DOMAIN s : s[k] = Delimiter}
Piece(from, to) == [k \in 1 .. to - from |-> input[from + k]]

\* The strings handed out are the input, cut after each delimiter, and nothing
\* of it is lost or repeated: what is in the ring is the rest of what arrived,
\* wherever head and tail stand and however often the ring has grown.
LinesExact ==
  /\ Len(taken) = Len(cuts)
  /\ \A k \in DOMAIN taken :
       /\ Ends(taken[k]) = {Len(taken[k])} /\ Len(taken[k]) <= MaxSize
       /\ taken[k] = Piece(Cut(k - 1), Cut(k))
  /\ [k \in 1 .. tail - head |-> At(buf, size, head + k - 1)] = Piece(Cut(Len(cuts)), arrived)
  /\ tail - head \in 0 .. size

\* What has been looked at is in the buffer and holds no delimiter, so that no
\* line is held back: a call waits or gives up only without one.
NothingOverlooked ==
  /\ pos \in head .. tail
  /\ \A p \in head .. pos - 1 : At(buf, size, p) # Delimiter
===============================================================================
