-------------------------------- MODULE ExecFds --------------------------------
(***************************************************************************)
(* tamer::exec: the descriptors of a child process.  Pipes are made for the *)
(* entries that ask for one, the process forks, and the child moves every   *)
(* descriptor to the number it was asked for, with dup2, while the numbers  *)
(* that are still needed may be in the way.                                 *)
(***************************************************************************)
EXTENDS Integers, Sequences

CONSTANTS
  MaxNum,       \* descriptor numbers are 0 .. MaxNum
  MaxEntries,   \* bound on the length of the list
  Targets,      \* numbers asked for in the child
  Given,        \* numbers of the descriptors that the list may give to the child
  InUse         \* sets of numbers that the caller may have in use besides

Num == 0 .. MaxNum

\* What the constants must satisfy; each instance assumes it.
ExecAssumption ==
  /\ {MaxNum, MaxEntries} \subseteq Nat
  /\ Targets \subseteq Num /\ Given \subseteq Num /\ InUse \subseteq SUBSET Num

VARIABLES
  list,     \* exec_fds: child_fd and type, and the number for a descriptor given
  outer,    \* the number in exec_fds[i].f, or -1
  inner,    \* inner_fds
  before,   \* the caller's descriptor table before the call
  parent,   \* the caller's table: what each number refers to
  child,    \* the child's table
  i,        \* the entry that the current loop is at
  pc        \* "pipes", "place", then "running" or "failed"

vars == <<list, outer, inner, before, parent, child, i, pc>>

Closed == <<"closed", 0>>
Made(e) == e.type \in {"newin", "newout"}

\* The pipe of entry n: the child reads from it for newin.
ChildEnd(n) == <<IF list[n].type = "newin" THEN "read end" ELSE "write end", n>>
CallerEnd(n) == <<IF list[n].type = "newin" THEN "write end" ELSE "read end", n>>

\* Lists that ask for each number once, and give each descriptor once.
Entries ==
  {l \in UNION {[1 .. n ->
        [child_fd : Targets, type : {"newin", "newout"}, num : {-1}]
        \cup [child_fd : Targets, type : {"share", "transfer"}, num : Given]] :
      n \in 1 .. MaxEntries} :
   \A m, n \in DOMAIN l : m # n =>
     l[m].child_fd # l[n].child_fd /\ (l[m].num = l[n].num => Made(l[m]))}

\* The caller has the descriptors that it gives away, and perhaps the first few.
Init ==
  /\ list \in Entries
  /\ outer = [n \in DOMAIN list |-> list[n].num]
  /\ inner = [n \in DOMAIN list |-> -1]
  /\ \E rest \in InUse :
       before = [k \in Num |->
         IF k \in rest \cup {list[n].num : n \in DOMAIN list} THEN <<"file", k>> ELSE Closed]
  /\ parent = before
  /\ child = [k \in Num |-> Closed]
  /\ i = 1
  /\ pc = "pipes"

Free(table) == {k \in Num : table[k] = Closed}

\* The least element of a set of numbers, which std::find meets first and which
\* the kernel gives out first: a set of one element, or empty.
Least(S) == {k \in S : \A l \in S : k <= l}

\* kill_exec_fds: every f becomes an error; the caller keeps what it shares.
Killed(table) ==
  [k \in Num |->
     IF \E n \in DOMAIN list :
          \/ k = outer[n] /\ list[n].type # "share"
          \/ k = inner[n] /\ Made(list[n])
     THEN Closed ELSE table[k]]

\* The loop that opens pipes, one entry
OpenPipe ==
  /\ pc = "pipes" /\ i <= Len(list)
  /\ i' = i + 1
  /\ IF Made(list[i])
     THEN \E r \in Least(Free(parent)) : \E w \in Least(Free(parent) \ {r}) :
          LET in == list[i].type = "newin" IN
          /\ inner' = [inner EXCEPT ![i] = IF in THEN r ELSE w]
          /\ outer' = [outer EXCEPT ![i] = IF in THEN w ELSE r]
          /\ parent' = [parent EXCEPT ![r] = <<"read end", i>>, ![w] = <<"write end", i>>]
     ELSE /\ inner' = [inner EXCEPT ![i] = list[i].num]
          /\ UNCHANGED <<outer, parent>>
  /\ UNCHANGED <<list, before, child, pc>>

\* pipe or fork fails.
Fail ==
  /\ \/ pc = "pipes" /\ i <= Len(list) /\ Made(list[i])
     \/ pc = "pipes" /\ i > Len(list)
  /\ parent' = Killed(parent)
  /\ outer' = [n \in DOMAIN list |-> -1]
  /\ pc' = "failed"
  /\ UNCHANGED <<list, inner, before, child, i>>

\* The child starts with a copy, and closes the caller's ends of the pipes.
Fork ==
  /\ pc = "pipes" /\ i > Len(list)
  /\ child' = [k \in Num |->
       IF \E n \in DOMAIN list : Made(list[n]) /\ outer[n] = k THEN Closed ELSE parent[k]]
  /\ i' = 1
  /\ pc' = "place"
  /\ UNCHANGED <<list, outer, inner, before, parent>>

BugPlaceOverwrites ==
  /\ pc = "place" /\ i <= Len(list)
  /\ child' = [child EXCEPT ![list[i].child_fd] = child[inner[i]],
                            ![inner[i]] = IF inner[i] = list[i].child_fd THEN @ ELSE Closed]
  /\ i' = i + 1
  /\ UNCHANGED <<list, outer, inner, before, parent, pc>>

\* One entry is put into its place; a later one found there is moved away first,
\* to a number that dup finds: the child is not out of descriptors.
Place ==
  /\ pc = "place" /\ i <= Len(list)
  /\ i' = i + 1
  /\ LET from == inner[i]
         to == list[i].child_fd
         found == {n \in i .. Len(list) : inner[n] = to} IN
       \/ from = to /\ UNCHANGED <<inner, child>>
       \/ /\ from # to /\ found = {}
          /\ child' = [child EXCEPT ![to] = child[from], ![from] = Closed]
          /\ UNCHANGED inner
       \/ /\ from # to
          /\ \E n \in Least(found), spare \in Least(Free(child)) :
               /\ inner' = [inner EXCEPT ![n] = spare]
               /\ child' = [child EXCEPT ![spare] = child[to], ![to] = child[from],
                                         ![from] = Closed]
  /\ UNCHANGED <<list, outer, before, parent, pc>>

\* The caller closes the child's ends, and what it transferred, then returns.
CloseRelevant ==
  /\ pc = "place" /\ i > Len(list)
  /\ parent' = [k \in Num |->
       IF \E n \in DOMAIN list :
            \/ Made(list[n]) /\ parent[k] = ChildEnd(n)
            \/ list[n].type = "transfer" /\ list[n].num = k
       THEN Closed ELSE parent[k]]
  /\ pc' = "running"
  /\ UNCHANGED <<list, outer, inner, before, child, i>>

Next == OpenPipe \/ Fail \/ Fork \/ Place \/ CloseRelevant

Spec == Init /\ [][Next]_vars

(* Properties *)

\* Every variable has its type; a call that has gone through the list is over.
TypeOK ==
  /\ list \in Entries
  /\ {outer, inner} \subseteq [DOMAIN list -> -1 .. MaxNum]
  /\ DOMAIN parent = Num /\ DOMAIN child = Num
  /\ i \in 1 .. MaxEntries + 1
  /\ pc \in {"pipes", "place", "running", "failed"}

\* The program that is started finds each descriptor at the number it was asked
\* for, whatever numbers the pipes got and in whatever order they overlap; and
\* it does not hold the caller's end of a pipe, which would keep it from ever
\* seeing the end of its input.
ChildTable ==
  pc = "running" => \A n \in DOMAIN list :
    /\ child[list[n].child_fd] =
         IF Made(list[n]) THEN ChildEnd(n) ELSE <<"file", list[n].num>>
    /\ \A k \in Num : child[k] # CallerEnd(n)

\* No call leaves a descriptor behind in the caller, one that fails halfway
\* through the pipes included, nor takes one that it was not given.
NoDescriptorLeak ==
  pc \in {"running", "failed"} =>
    \A k \in Num :
      parent[k] =
        IF \E n \in DOMAIN list : list[n].type = "transfer" /\ list[n].num = k THEN Closed
        ELSE IF pc = "running" /\ \E n \in DOMAIN list : Made(list[n]) /\ outer[n] = k
        THEN CallerEnd(CHOOSE n \in DOMAIN list : Made(list[n]) /\ outer[n] = k)
        ELSE before[k]
===============================================================================
