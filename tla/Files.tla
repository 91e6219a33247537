--------------------------------- MODULE Files ---------------------------------
(***************************************************************************)
(* The operations on a descriptor, the descriptors that exec gives to a    *)
(* child process, the pool of helper processes and the buffer of what was  *)
(* read.  The four are models of their own, for any values of their        *)
(* constants.                                                              *)
(***************************************************************************)
EXTENDS Fd

CONSTANTS MaxNum, MaxEntries, Targets, Given, InUse   \* of ExecFds
CONSTANTS Request, NHelper, Kinds, DataSize, CrapSize   \* of HelperPool
CONSTANTS InitialSize, MaxInput, MaxSize   \* of InputBuffer

VARIABLES list, outer, inner, before, parent, child, at, epc

execVars == <<list, outer, inner, before, parent, child, at, epc>>

Exec == INSTANCE ExecFds WITH i <- at, pc <- epc

VARIABLES
  count, ready, waiting, hkind, hpc, mine, hpos, hactive, got, query, reply, serving,
  astray, short

poolVars == <<count, ready, waiting, hkind, hpc, mine, hpos, hactive, got,
              query, reply, serving, astray, short>>

Pool == INSTANCE HelperPool WITH
  Size <- DataSize, kind <- hkind, pc <- hpc, pos <- hpos, active <- hactive

VARIABLES input, arrived, buf, size, head, tail, bpos, bpc, taken, cuts

bufferVars == <<input, arrived, buf, size, head, tail, bpos, bpc, taken, cuts>>

Buffer == INSTANCE InputBuffer WITH pos <- bpos, pc <- bpc

(* Properties *)

\* A helper process serves one request at a time, and a request gets its own
\* reply: the socket is in order whenever a helper is handed on, as long as the
\* helper has not gone astray.
HelperInOrder == Pool!HelperPlaced /\ Pool!InSync /\ Pool!HelperCounts

\* A child process finds each descriptor at its number and holds no end of a pipe
\* that is the caller's, and the caller is left with exactly what is its own.
ChildDescriptors == Exec!ChildTable /\ Exec!NoDescriptorLeak

\* take_until hands out the input, cut after each delimiter, and never misses one.
LinesExact == Buffer!LinesExact /\ Buffer!NothingOverlooked
===============================================================================
