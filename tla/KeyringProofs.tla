--------------------------- MODULE KeyringProofs ---------------------------
(***************************************************************************)
(* The keyring for every number of processes, rows and versions: what is   *)
(* sealed can be opened (RowsReadable), a pass that ends well leaves no    *)
(* row behind (PassReseals), and seals only move forward (SealsAdvance).   *)
(* KeyringInv says what makes it so: a key that can be read stays where it *)
(* is, because the process that writes or removes a file has created it,   *)
(* and a process has what the files and the rows were when it read them.   *)
(***************************************************************************)
EXTENDS Keyring, Sums

\* Where a process has not read a key yet, and where it has all of them.
Opening == {"down", "scan", "legacy", "stat", "rename"}
Open == {"opened", "select", "fill", "serving", "reseal", "done"}

\* f is a function over S.
Over(f, S) == f = [x \in S |-> f[x]]

DiskOK ==
  /\ legacy \in {0, 1} /\ made \in Nat \ {0} /\ {starts, faults} \subseteq Nat
  /\ Over(files, DOMAIN files) /\ DOMAIN files \subseteq 1..MaxVersion
  /\ \A v \in DOMAIN files : files[v] \in 0..made

\* A legacy key is there only until the first process has it renamed.
LegacyOK ==
  legacy # 0 => files = NoKeys /\ \A p \in Procs : pc[p] \in Opening

\* The rows there are; a sealed one can be opened.
RowsOK ==
  /\ DOMAIN rows \subseteq Rows
  /\ \A r \in DOMAIN rows :
       rows[r] # Plain =>
         /\ rows[r] \in Seal
         /\ Holds(rows[r].version) /\ files[rows[r].version] = rows[r].key

ProcsOK ==
  /\ Over(pc, Procs) /\ Over(cmd, Procs) /\ Over(ring, Procs)
  /\ Over(left, Procs) /\ Over(todo, Procs) /\ Over(others, Procs)

\* The short file of a process that is about to write it is its own.
WritersOK ==
  \A p, q \in Procs :
    At(p, "write") /\ At(q, "write") /\ p # q => NextVersion(p) # NextVersion(q)

\* What process p has in memory: keys that are in the files as they were read,
RingOK(p) ==
  /\ pc[p] \in Labels /\ cmd[p] \in Commands
  /\ Over(ring[p], DOMAIN ring[p])
  /\ \A v \in DOMAIN ring[p] : Holds(v) /\ ring[p][v] = files[v]
  /\ pc[p] \in Opening => ring[p] = NoKeys
  /\ pc[p] \in Open => ring[p] # NoKeys
  /\ pc[p] \in {"create", "write"} => NextVersion(p) \in 1..MaxVersion
  /\ pc[p] = "write" =>
       NextVersion(p) \in DOMAIN files /\ files[NextVersion(p)] = Short
  /\ left[p] \subseteq 1..MaxVersion

\* and the rows it has still to write, as they are if nobody else has written
\* them.
TodoOK(p) ==
  /\ others[p] \subseteq Rows /\ DOMAIN todo[p] \subseteq Rows
  /\ pc[p] \in {"fill", "reseal"} => DOMAIN todo[p] \subseteq DOMAIN rows
  /\ pc[p] = "reseal" =>
       \A r \in DOMAIN todo[p] :
         /\ todo[p][r] \in Seal /\ todo[p][r].version # Latest(p)
         /\ r \notin others[p] => rows[r] = todo[p][r]
  /\ pc[p] \in {"reseal", "done"} =>
       \A r \in Rows \ others[p] :
         Sealed(r) => \/ rows[r].version = Latest(p)
                      \/ pc[p] = "reseal" /\ r \in DOMAIN todo[p]

KeyringInv ==
  /\ DiskOK /\ LegacyOK /\ RowsOK /\ ProcsOK /\ WritersOK
  /\ \A p \in Procs : RingOK(p) /\ TodoOK(p)

-----------------------------------------------------------------------------
\* Max is the largest element of a set of numbers that has one.
LEMMA MaxOf ==
  ASSUME NEW n \in Nat, NEW S, S \subseteq 1..n, S # {}
  PROVE  Max(S) \in S /\ \A x \in S : x <= Max(S)
<1> DEFINE Bounds == {m \in Nat : \A x \in S : x <= m}
<1>1. n \in Bounds /\ Bounds \subseteq Nat
  OBVIOUS
<1>2. PICK m \in Bounds : \A k \in Bounds : m <= k
  BY <1>1, LeastNumber
<1>3. m \in S
  <2> SUFFICES ASSUME m \notin S PROVE FALSE
    OBVIOUS
  <2>1. \A x \in S : x \in 1..n /\ x <= m /\ x # m
    OBVIOUS
  <2>2. m # 0
    <3>1. PICK x \in S : TRUE
      OBVIOUS
    <3>2. x \in 1..n /\ x <= m
      BY <2>1
    <3>3. QED
      BY <3>2
  <2>3. m - 1 \in Bounds
    BY <2>1, <2>2
  <2>4. QED
    BY <1>2, <2>3
<1>4. \E x \in S : \A y \in S : x >= y
  <2>1. \A y \in S : m >= y
    OBVIOUS
  <2>2. QED
    BY <1>3, <2>1
<1>5. Max(S) \in S /\ \A y \in S : Max(S) >= y
  BY <1>4, Zenon DEF Max
<1>6. QED
  BY <1>5

\* The latest version of a keyring that has any.
LEMMA LatestIsLast ==
  ASSUME DiskOK, NEW p \in Procs, RingOK(p), ring[p] # NoKeys
  PROVE  /\ Latest(p) \in DOMAIN ring[p] /\ Latest(p) \in 1..MaxVersion
         /\ \A v \in DOMAIN ring[p] : v \in 1..MaxVersion /\ v <= Latest(p)
<1>1. DOMAIN ring[p] # {}
  <2> SUFFICES ASSUME DOMAIN ring[p] = {} PROVE FALSE
    OBVIOUS
  <2>1. ring[p] = [v \in {} |-> ring[p][v]]
    BY DEF RingOK, Over
  <2>2. QED
    BY <2>1 DEF NoKeys
<1>2. DOMAIN ring[p] \subseteq 1..MaxVersion
  BY DEF RingOK, Holds, DiskOK
<1>3. MaxVersion \in Nat
  BY KeyringAssumption
<1>4. QED
  BY <1>1, <1>2, <1>3, MaxOf DEF Latest
-----------------------------------------------------------------------------
(* What a step leaves alone.                                               *)

\* Process q has what it had.
Same(q) ==
  /\ pc'[q] = pc[q] /\ cmd'[q] = cmd[q] /\ ring'[q] = ring[q]
  /\ left'[q] = left[q] /\ todo'[q] = todo[q]

\* Only process p has done something.
Alone(p) == ProcsOK' /\ \A q \in Procs : q # p => Same(q)

\* A key that can be read stays where it is.
FilesKept == \A v : Holds(v) => Holds(v)' /\ files'[v] = files[v]

LEMMA SameLatest ==
  ASSUME NEW q, ring'[q] = ring[q]
  PROVE  Latest(q)' = Latest(q) /\ NextVersion(q)' = NextVersion(q)
BY DEF Latest, NextVersion

LEMMA RingKept ==
  ASSUME NEW q, RingOK(q), Same(q), FilesKept,
         pc[q] = "write" => /\ NextVersion(q) \in DOMAIN files'
                            /\ files'[NextVersion(q)] = Short
  PROVE  RingOK(q)'
<1>1. NextVersion(q)' = NextVersion(q)
  BY SameLatest DEF Same
<1>2. \A v \in DOMAIN ring[q] : Holds(v)' /\ ring[q][v] = files'[v]
  BY DEF RingOK, FilesKept
<1>3. QED
  BY <1>1, <1>2 DEF RingOK, Same, Over

LEMMA TodoKept ==
  ASSUME NEW q, TodoOK(q), Same(q), others[q] \subseteq others'[q],
         others'[q] \subseteq Rows, DOMAIN rows \subseteq DOMAIN rows',
         pc[q] \in {"reseal", "done"} =>
           \A r \in Rows \ others'[q] :
             r \in DOMAIN rows' => r \in DOMAIN rows /\ rows'[r] = rows[r]
  PROVE  TodoOK(q)'
<1>1. Latest(q)' = Latest(q)
  BY SameLatest DEF Same
<1>2. others[q]' \subseteq Rows /\ DOMAIN todo[q]' \subseteq Rows
  BY DEF TodoOK, Same
<1>3. pc[q]' \in {"fill", "reseal"} => DOMAIN todo[q]' \subseteq DOMAIN rows'
  BY DEF TodoOK, Same
<1>4. ASSUME pc[q]' = "reseal", NEW r \in DOMAIN todo[q]'
      PROVE  /\ todo[q][r]' \in Seal /\ todo[q][r]'.version # Latest(q)'
             /\ r \notin others[q]' => rows[r]' = todo[q][r]'
  <2>1. pc[q] = "reseal" /\ r \in DOMAIN todo[q] /\ todo'[q] = todo[q]
    BY <1>4 DEF Same
  <2>2. /\ todo[q][r] \in Seal /\ todo[q][r].version # Latest(q)
        /\ r \notin others[q] => rows[r] = todo[q][r]
        /\ r \in Rows
    BY <2>1 DEF TodoOK
  <2>3. r \notin others'[q] => rows'[r] = rows[r]
    BY <2>1, <2>2 DEF TodoOK
  <2>4. QED
    BY <1>1, <2>1, <2>2, <2>3
<1>5. ASSUME pc[q]' \in {"reseal", "done"}, NEW r \in Rows \ others[q]', Sealed(r)'
      PROVE  \/ rows[r]'.version = Latest(q)'
             \/ pc[q]' = "reseal" /\ r \in DOMAIN todo[q]'
  <2>1. pc[q] \in {"reseal", "done"} /\ pc'[q] = pc[q] /\ todo'[q] = todo[q]
    BY <1>5 DEF Same
  <2>2. rows'[r] = rows[r] /\ r \in DOMAIN rows
    BY <1>5, <2>1 DEF Sealed
  <2>3. r \in Rows \ others[q] /\ Sealed(r)
    BY <1>5, <2>2 DEF Sealed
  <2>4. \/ rows[r].version = Latest(q)
        \/ pc[q] = "reseal" /\ r \in DOMAIN todo[q]
    BY <2>1, <2>3 DEF TodoOK
  <2>5. QED
    BY <1>1, <2>1, <2>2, <2>4
<1>6. QED
  BY <1>2, <1>3, <1>4, <1>5 DEF TodoOK

\* The rows are what they were, and so are the files that can be read.
LEMMA RowsKept ==
  ASSUME RowsOK, rows' = rows, FilesKept
  PROVE  RowsOK'
<1>1. ASSUME NEW r \in DOMAIN rows, rows[r] # Plain
      PROVE  /\ rows[r] \in Seal /\ Holds(rows[r].version)'
             /\ files'[rows[r].version] = rows[r].key
  BY <1>1 DEF RowsOK, FilesKept
<1>2. Plain' = Plain /\ Seal' = Seal
  BY DEF Plain, Seal
<1>3. DOMAIN rows \subseteq Rows
  BY DEF RowsOK
<1>4. QED
  BY <1>1, <1>2, <1>3 DEF RowsOK, Holds

\* A step of process p that touches neither files nor rows.
LEMMA LocalKeeps ==
  ASSUME KeyringInv, NEW p \in Procs, Alone(p),
         UNCHANGED <<disk, rows>>, starts' \in Nat, faults' \in Nat,
         \A q \in Procs : q # p => others'[q] = others[q],
         RingOK(p)', TodoOK(p)',
         legacy # 0 => pc'[p] \in Opening, pc'[p] # "write"
  PROVE  KeyringInv'
<1>1. FilesKept
  BY DEF FilesKept, Holds, disk
<1>2. DiskOK' /\ RowsOK' /\ ProcsOK'
  BY <1>1, RowsKept DEF KeyringInv, DiskOK, disk, Alone, Over
<1>3. LegacyOK'
  BY DEF KeyringInv, LegacyOK, disk, Alone, Same
<1>4. WritersOK'
  <2> SUFFICES ASSUME NEW q \in Procs, NEW r \in Procs, pc'[q] = "write",
                      pc'[r] = "write", q # r
               PROVE  NextVersion(q)' # NextVersion(r)'
    BY DEF WritersOK, At
  <2>1. q # p /\ r # p
    OBVIOUS
  <2>2. Same(q) /\ Same(r)
    BY <2>1 DEF Alone
  <2>3. /\ pc[q] = "write" /\ pc[r] = "write"
        /\ NextVersion(q)' = NextVersion(q) /\ NextVersion(r)' = NextVersion(r)
    BY <2>2, SameLatest DEF Same
  <2>4. QED
    BY <2>3 DEF KeyringInv, WritersOK, At
<1>5. ASSUME NEW q \in Procs, q # p PROVE RingOK(q)' /\ TodoOK(q)'
  <2>1. Same(q) /\ RingOK(q) /\ TodoOK(q)
    BY <1>5 DEF Alone, KeyringInv
  <2>2. RingOK(q)'
    BY <1>1, <2>1, RingKept DEF RingOK, disk
  <2>3. others'[q] = others[q] /\ others[q] \subseteq Rows /\ rows' = rows
    BY <1>5, <2>1 DEF TodoOK
  <2>4. TodoOK(q)'
    BY <2>1, <2>3, TodoKept
  <2>5. QED
    BY <2>2, <2>4
<1>6. QED
  BY <1>2, <1>3, <1>4, <1>5 DEF KeyringInv
-----------------------------------------------------------------------------
(* Steps of one process that touch neither files nor rows.                 *)

LEMMA Exits ==
  ASSUME KeyringInv, NEW p \in Procs, Exit(p)
  PROVE  /\ Alone(p) /\ pc'[p] = "down" /\ RingOK(p)' /\ TodoOK(p)'
         /\ \A q \in Procs : q # p => others'[q] = others[q]
<1>1. /\ pc'[p] = "down" /\ cmd'[p] = "serve" /\ ring'[p] = NoKeys
      /\ left'[p] = {} /\ todo'[p] = NoRows /\ others'[p] = {}
  BY DEF KeyringInv, ProcsOK, Over, Exit, Goto
<1>2. Alone(p) /\ \A q \in Procs : q # p => others'[q] = others[q]
  BY DEF KeyringInv, ProcsOK, Over, Exit, Goto, Alone, Same
<1>3. DOMAIN ring'[p] = {} /\ Over(ring'[p], DOMAIN ring'[p]) /\ DOMAIN todo'[p] = {}
  BY <1>1 DEF NoKeys, NoRows, Over
<1>4. RingOK(p)'
  BY <1>1, <1>3 DEF RingOK, Labels, Commands, Opening, Open, NoKeys
<1>5. TodoOK(p)'
  BY <1>1, <1>3 DEF TodoOK
<1>6. QED
  BY <1>1, <1>2, <1>4, <1>5

LEMMA ExitKeeps ==
  ASSUME KeyringInv, NEW p \in Procs, Exit(p), UNCHANGED <<disk, rows>>,
         starts' \in Nat, faults' \in Nat
  PROVE  KeyringInv'
BY Exits, LocalKeeps DEF Opening

\* A process that goes on with the keys and the rows it has.
LEMMA GoesOn ==
  ASSUME KeyringInv, NEW p \in Procs, NEW label \in Labels, Goto(p, label),
         UNCHANGED <<disk, rows, cmd, ring, left, todo, others>>,
         starts' \in Nat, faults' \in Nat,
         label \notin {"write", "fill", "reseal", "done"},
         label \in Opening => pc[p] \in Opening,
         label \in Open => pc[p] \in Open,
         label = "create" => NextVersion(p) \in 1..MaxVersion,
         legacy # 0 => label \in Opening
  PROVE  KeyringInv'
<1>1. /\ pc'[p] = label /\ Alone(p)
      /\ \A q \in Procs : others'[q] = others[q]
  BY DEF KeyringInv, ProcsOK, Over, Goto, Alone, Same
<1>2. NextVersion(p)' = NextVersion(p)
  BY SameLatest
<1>3. RingOK(p) /\ TodoOK(p)
  BY DEF KeyringInv
<1>4. RingOK(p)'
  BY <1>1, <1>2, <1>3 DEF RingOK, Over, Holds, disk
<1>5. TodoOK(p)'
  BY <1>1, <1>3 DEF TodoOK
<1>6. QED
  BY <1>1, <1>4, <1>5, LocalKeeps

LEMMA CountersOK ==
  ASSUME KeyringInv
  PROVE  /\ NoFault => starts' \in Nat /\ faults' \in Nat
         /\ Fault => starts' \in Nat /\ faults' \in Nat
BY DEF KeyringInv, DiskOK, NoFault, Fault

LEMMA StartKeeps ==
  ASSUME KeyringInv, NEW p \in Procs, Start(p)
  PROVE  KeyringInv'
<1>1. PICK c \in {"validate", "rotate-key", "reencrypt"} :
        cmd' = [cmd EXCEPT ![p] = c]
  BY DEF Start
<1>2. /\ pc'[p] = "scan" /\ cmd'[p] = c /\ Alone(p)
      /\ \A q \in Procs : others'[q] = others[q]
  BY <1>1 DEF KeyringInv, ProcsOK, Over, Start, Goto, Alone, Same
<1>3. starts' \in Nat /\ faults' \in Nat
  BY DEF KeyringInv, DiskOK, Start
<1>4. RingOK(p) /\ TodoOK(p) /\ pc[p] = "down"
  BY DEF KeyringInv, Start, At
<1>5. RingOK(p)'
  BY <1>2, <1>4 DEF Start, RingOK, Over, Holds, disk, Opening, Open, Labels, Commands
<1>6. TodoOK(p)'
  BY <1>2, <1>4 DEF Start, TodoOK
<1>7. UNCHANGED <<disk, rows>>
  BY DEF Start
<1>8. QED
  BY <1>2, <1>3, <1>5, <1>6, <1>7, LocalKeeps DEF Opening

LEMMA ScanKeeps ==
  ASSUME KeyringInv, NEW p \in Procs, Scan(p)
  PROVE  KeyringInv'
<1> DEFINE label == IF files = NoKeys THEN "legacy" ELSE "read"
<1>1. /\ pc'[p] = label /\ left'[p] = DOMAIN files /\ Alone(p)
      /\ \A q \in Procs : others'[q] = others[q]
  BY DEF KeyringInv, ProcsOK, Over, Scan, Goto, Alone, Same
<1>2. RingOK(p) /\ TodoOK(p) /\ pc[p] = "scan" /\ DOMAIN files \subseteq 1..MaxVersion
  BY DEF KeyringInv, Scan, At, DiskOK
<1>3. RingOK(p)'
  BY <1>1, <1>2 DEF Scan, RingOK, Over, Holds, disk, Opening, Open, Labels, Commands
<1>4. TodoOK(p)'
  BY <1>1, <1>2 DEF Scan, TodoOK
<1>5. legacy # 0 => label \in Opening
  BY DEF KeyringInv, LegacyOK, Opening
<1>6. UNCHANGED <<disk, rows>> /\ starts' \in Nat /\ faults' \in Nat
  BY CountersOK DEF Scan
<1>7. QED
  BY <1>1, <1>3, <1>4, <1>5, <1>6, LocalKeeps

LEMMA ReadKeeps ==
  ASSUME KeyringInv, NEW p \in Procs, Read(p)
  PROVE  KeyringInv'
<1>1. PICK v \in left[p] :
        IF Holds(v)
        THEN /\ ring' = [ring EXCEPT ![p] = Entered(@, v, files[v])]
             /\ left' = [left EXCEPT ![p] = @ \ {v}]
             /\ Goto(p, IF left[p] = {v} THEN "opened" ELSE "read")
             /\ UNCHANGED <<cmd, todo, others>>
        ELSE Exit(p)
  BY DEF Read
<1>2. UNCHANGED <<disk, rows>> /\ starts' \in Nat /\ faults' \in Nat
  BY CountersOK DEF Read
<1>3. CASE ~Holds(v)
  BY <1>1, <1>2, <1>3, ExitKeeps
<1>4. CASE Holds(v)
  <2>1. /\ pc'[p] \in {"opened", "read"} /\ left'[p] = left[p] \ {v}
        /\ ring'[p] = Entered(ring[p], v, files[v]) /\ cmd'[p] = cmd[p]
        /\ todo'[p] = todo[p] /\ Alone(p)
        /\ \A q \in Procs : others'[q] = others[q]
    BY <1>1, <1>4 DEF KeyringInv, ProcsOK, Over, Goto, Alone, Same
  <2>2. RingOK(p) /\ TodoOK(p) /\ pc[p] = "read"
    BY DEF KeyringInv, Read, At
  <2>3. /\ DOMAIN ring'[p] = {v} \cup DOMAIN ring[p]
        /\ Over(ring'[p], DOMAIN ring'[p])
        /\ ring'[p][v] = files[v]
        /\ \A u \in DOMAIN ring[p] : u # v => ring'[p][u] = ring[p][u]
    BY <2>1 DEF Entered, Over
  <2>4. \A u \in DOMAIN ring'[p] : Holds(u) /\ ring'[p][u] = files[u]
    BY <1>4, <2>2, <2>3 DEF RingOK
  <2>5. ring'[p] # NoKeys
    BY <2>3 DEF NoKeys
  <2>6. files' = files
    BY <1>2 DEF disk
  <2>7. RingOK(p)'
    BY <2>1, <2>2, <2>3, <2>4, <2>5, <2>6
    DEF RingOK, Holds, Opening, Open, Labels, Commands
  <2>8. TodoOK(p)'
    BY <2>1, <2>2, <1>2 DEF TodoOK
  <2>9. legacy = 0
    BY <2>2 DEF KeyringInv, LegacyOK, Opening
  <2>10. QED
    BY <1>2, <2>1, <2>7, <2>8, <2>9, LocalKeeps
<1>5. QED
  BY <1>3, <1>4

LEMMA LegacyExistsKeeps ==
  ASSUME KeyringInv, NEW p \in Procs, LegacyExists(p)
  PROVE  KeyringInv'
<1> DEFINE label == IF legacy = 0 THEN "create" ELSE "stat"
<1>1. pc[p] = "legacy" /\ ring[p] = NoKeys
  BY DEF LegacyExists, At, KeyringInv, RingOK, Opening
<1>2. NextVersion(p) \in 1..MaxVersion
  BY <1>1, KeyringAssumption DEF NextVersion, FirstVersion
<1>3. starts' \in Nat /\ faults' \in Nat
  BY CountersOK DEF LegacyExists
<1>4. QED
  BY <1>1, <1>2, <1>3, GoesOn DEF LegacyExists, Labels, Opening, Open

LEMMA StatTargetKeeps ==
  ASSUME KeyringInv, NEW p \in Procs, StatTarget(p)
  PROVE  KeyringInv'
<1>1. pc[p] = "stat" /\ starts' \in Nat /\ faults' \in Nat
  BY CountersOK DEF StatTarget, At
<1>2. CASE Exit(p)
  BY <1>1, <1>2, ExitKeeps DEF StatTarget
<1>3. CASE Goto(p, "rename") /\ UNCHANGED <<cmd, ring, left, todo, others>>
  BY <1>1, <1>3, GoesOn DEF StatTarget, Labels, Opening, Open
<1>4. QED
  BY <1>2, <1>3 DEF StatTarget

LEMMA OpenedKeeps ==
  ASSUME KeyringInv, NEW p \in Procs, Opened(p)
  PROVE  KeyringInv'
<1>1. /\ pc[p] = "opened" /\ starts' \in Nat /\ faults' \in Nat
      /\ UNCHANGED <<disk, rows, left, todo, others>>
      /\ cmd[p] = "rotate-key" => Latest(p) < MaxVersion
  BY CountersOK DEF Opened, At
<1>2. RingOK(p) /\ TodoOK(p) /\ ring[p] # NoKeys /\ legacy = 0 /\ DiskOK
  BY <1>1 DEF KeyringInv, RingOK, LegacyOK, Opening, Open
<1>3. CASE cmd[p] = "validate"
  <2>1. /\ pc'[p] = "scan" /\ cmd'[p] = "serve" /\ ring'[p] = NoKeys /\ Alone(p)
        /\ left'[p] = left[p] /\ todo'[p] = todo[p]
        /\ \A q \in Procs : others'[q] = others[q]
    BY <1>1, <1>3 DEF KeyringInv, ProcsOK, Over, Opened, Goto, Alone, Same
  <2>2. DOMAIN ring'[p] = {} /\ Over(ring'[p], DOMAIN ring'[p])
    BY <2>1 DEF NoKeys, Over
  <2>3. RingOK(p)'
    BY <1>2, <2>1, <2>2 DEF RingOK, Opening, Open, Labels, Commands
  <2>4. TodoOK(p)'
    BY <1>1, <1>2, <2>1 DEF TodoOK
  <2>5. QED
    BY <1>1, <1>2, <2>1, <2>3, <2>4, LocalKeeps
<1>4. CASE cmd[p] = "rotate-key"
  <2>1. NextVersion(p) \in 1..MaxVersion
    <3>1. Latest(p) \in 1..MaxVersion /\ Latest(p) < MaxVersion
      BY <1>1, <1>2, <1>4, LatestIsLast
    <3>2. MaxVersion \in Nat
      BY KeyringAssumption
    <3>3. QED
      BY <1>2, <3>1, <3>2 DEF NextVersion
  <2>2. Goto(p, "create") /\ UNCHANGED <<cmd, ring>>
    BY <1>4 DEF Opened
  <2>3. QED
    BY <1>1, <1>2, <2>1, <2>2, GoesOn DEF Labels, Opening, Open
<1>5. CASE cmd[p] \notin {"validate", "rotate-key"}
  <2>1. Goto(p, "select") /\ UNCHANGED <<cmd, ring>>
    BY <1>5 DEF Opened
  <2>2. QED
    BY <1>1, <1>2, <2>1, GoesOn DEF Labels, Opening, Open
<1>6. QED
  BY <1>3, <1>4, <1>5

\* The rows a process reads, with their seals as they are.
LEMMA SelectLegacyKeeps ==
  ASSUME KeyringInv, NEW p \in Procs, SelectLegacy(p)
  PROVE  KeyringInv'
<1> DEFINE plain == {r \in DOMAIN rows : rows[r] = Plain}
           label == IF plain = {} THEN "serving" ELSE "fill"
           read == [r \in plain |-> Plain]
<1>1. /\ pc[p] = "select" /\ starts' \in Nat /\ faults' \in Nat
      /\ UNCHANGED <<disk, rows, cmd, ring, left, others>>
  BY CountersOK DEF SelectLegacy, At
<1>2. RingOK(p) /\ TodoOK(p) /\ legacy = 0 /\ plain \subseteq Rows
  BY <1>1 DEF KeyringInv, LegacyOK, RowsOK, Opening
<1>3. /\ pc'[p] = label /\ todo'[p] = read /\ Alone(p)
  BY <1>1 DEF KeyringInv, ProcsOK, Over, SelectLegacy, Goto, Alone, Same
<1>4. RingOK(p)'
  BY <1>1, <1>2, <1>3 DEF RingOK, Over, Holds, disk, Opening, Open, Labels
<1>5. TodoOK(p)'
  BY <1>1, <1>2, <1>3 DEF TodoOK
<1>6. QED
  BY <1>1, <1>2, <1>3, <1>4, <1>5, LocalKeeps

LEMMA SelectRowsKeeps ==
  ASSUME KeyringInv, NEW p \in Procs, SelectRows(p)
  PROVE  KeyringInv'
<1> DEFINE label == IF Outdated(p) = {} THEN "done" ELSE "reseal"
           read == [r \in Outdated(p) |-> rows[r]]
<1>1. /\ pc[p] = "select" /\ starts' \in Nat /\ faults' \in Nat
      /\ UNCHANGED <<disk, rows, cmd, ring, left, others>>
  BY CountersOK DEF SelectRows, At
<1>2. RingOK(p) /\ TodoOK(p) /\ legacy = 0
  BY <1>1 DEF KeyringInv, LegacyOK, Opening
<1>3. /\ pc'[p] = label /\ todo'[p] = read /\ Alone(p)
  BY <1>1 DEF KeyringInv, ProcsOK, Over, SelectRows, Goto, Alone, Same
<1>4. RingOK(p)'
  BY <1>1, <1>2, <1>3 DEF RingOK, Over, Holds, disk, Opening, Open, Labels
<1>5. \A r \in Outdated(p) :
        /\ r \in Rows /\ r \in DOMAIN rows /\ rows[r] \in Seal
        /\ rows[r].version # Latest(p)
  BY DEF Outdated, Sealed, KeyringInv, RowsOK
<1>6. \A r \in Rows \ Outdated(p) : Sealed(r) => rows[r].version = Latest(p)
  BY DEF Outdated
<1>7. Latest(p)' = Latest(p) /\ Plain' = Plain
  BY <1>1, SameLatest DEF Plain
<1>8. TodoOK(p)'
  <2>1. DOMAIN todo'[p] = Outdated(p) /\ \A r \in Outdated(p) : todo'[p][r] = rows[r]
    BY <1>3
  <2>2. DOMAIN todo'[p] \subseteq Rows /\ DOMAIN todo'[p] \subseteq DOMAIN rows
    BY <1>5, <2>1
  <2>3. pc'[p] # "fill" /\ (pc'[p] = "done" => Outdated(p) = {})
        /\ pc'[p] \in {"reseal", "done"}
    BY <1>3
  <2>4. Seal' = Seal
    BY DEF Seal
  <2>5. QED
    BY <1>1, <1>2, <1>5, <1>6, <1>7, <2>1, <2>2, <2>3, <2>4 DEF TodoOK, Sealed
<1>9. QED
  BY <1>1, <1>2, <1>3, <1>4, <1>8, LocalKeeps
-----------------------------------------------------------------------------
(* Steps on the key files.                                                 *)

\* The others keep what they have when the rows are left alone, the files
\* that can be read stay, and so does the short file of each.
LEMMA OthersKeepFiles ==
  ASSUME KeyringInv, NEW p \in Procs, Alone(p), FilesKept, rows' = rows,
         \A q \in Procs : q # p => others'[q] = others[q],
         \A q \in Procs : q # p /\ pc[q] = "write" =>
           /\ NextVersion(q) \in DOMAIN files'
           /\ files'[NextVersion(q)] = Short
  PROVE  /\ \A q \in Procs : q # p => RingOK(q)' /\ TodoOK(q)'
         /\ RowsOK' /\ ProcsOK'
<1>1. RowsOK' /\ ProcsOK'
  BY RowsKept DEF KeyringInv, Alone
<1>2. ASSUME NEW q \in Procs, q # p PROVE RingOK(q)' /\ TodoOK(q)'
  <2>1. Same(q) /\ RingOK(q) /\ TodoOK(q)
    BY <1>2 DEF Alone, KeyringInv
  <2>2. RingOK(q)'
    BY <1>2, <2>1, RingKept
  <2>3. others'[q] = others[q] /\ others[q] \subseteq Rows
    BY <1>2, <2>1 DEF TodoOK
  <2>4. TodoOK(q)'
    BY <2>1, <2>3, TodoKept
  <2>5. QED
    BY <2>2, <2>4
<1>3. QED
  BY <1>1, <1>2

\* Nobody else comes to write.
LEMMA WritersKept ==
  ASSUME KeyringInv, NEW p \in Procs, Alone(p), pc'[p] # "write"
  PROVE  WritersOK'
<1> SUFFICES ASSUME NEW q \in Procs, NEW r \in Procs, pc'[q] = "write",
                    pc'[r] = "write", q # r
             PROVE  NextVersion(q)' # NextVersion(r)'
  BY DEF WritersOK, At
<1>1. Same(q) /\ Same(r)
  BY DEF Alone
<1>2. /\ pc[q] = "write" /\ pc[r] = "write"
      /\ NextVersion(q)' = NextVersion(q) /\ NextVersion(r)' = NextVersion(r)
  BY <1>1, SameLatest DEF Same
<1>3. QED
  BY <1>2 DEF KeyringInv, WritersOK, At

LEMMA RenameKeeps ==
  ASSUME KeyringInv, NEW p \in Procs, Rename(p)
  PROVE  KeyringInv'
<1>1. pc[p] = "rename" /\ rows' = rows /\ starts' \in Nat /\ faults' \in Nat
  BY CountersOK DEF Rename, At
<1>2. RingOK(p) /\ TodoOK(p) /\ ring[p] = NoKeys /\ DiskOK
  BY <1>1 DEF KeyringInv, RingOK, Opening
<1>3. CASE legacy = 0
  BY <1>1, <1>3, ExitKeeps DEF Rename
<1>4. CASE legacy # 0
  <2>1. /\ files' = Entered(files, FirstVersion, legacy) /\ legacy' = 0
        /\ made' = made /\ UNCHANGED <<cmd, ring, todo, others>>
        /\ left' = [left EXCEPT ![p] = {FirstVersion}] /\ Goto(p, "read")
    BY <1>4 DEF Rename
  <2>2. files = NoKeys /\ \A q \in Procs : pc[q] # "write"
    BY <1>4 DEF KeyringInv, LegacyOK, Opening
  <2>3. /\ DOMAIN files' = {FirstVersion} /\ Over(files', DOMAIN files')
        /\ files'[FirstVersion] = legacy
    BY <2>1, <2>2 DEF Entered, Over, NoKeys
  <2>4. legacy = 1 /\ made \in Nat \ {0} /\ MaxVersion \in Nat \ {0}
    BY <1>2, <1>4, KeyringAssumption DEF DiskOK
  <2>5. DiskOK'
    BY <1>1, <2>1, <2>3, <2>4 DEF DiskOK, FirstVersion
  <2>6. LegacyOK'
    BY <2>1 DEF LegacyOK
  <2>7. FilesKept
    BY <2>2 DEF FilesKept, Holds, NoKeys
  <2>8. /\ pc'[p] = "read" /\ left'[p] = {FirstVersion} /\ Alone(p)
    BY <2>1 DEF KeyringInv, ProcsOK, Over, Goto, Alone, Same
  <2>9. RingOK(p)'
    BY <1>2, <2>1, <2>4, <2>8
    DEF RingOK, NoKeys, FirstVersion, Opening, Open, Labels
  <2>10. TodoOK(p)'
    BY <1>2, <2>1, <2>8 DEF TodoOK
  <2>11. WritersOK'
    BY <2>8, WritersKept
  <2>12. QED
    BY <1>1, <2>1, <2>2, <2>5, <2>6, <2>7, <2>8, <2>9, <2>10, <2>11,
       OthersKeepFiles DEF KeyringInv
<1>5. QED
  BY <1>3, <1>4

LEMMA CreateKeeps ==
  ASSUME KeyringInv, NEW p \in Procs, Create(p)
  PROVE  KeyringInv'
<1>1. /\ pc[p] = "create" /\ rows' = rows /\ starts' \in Nat /\ faults' \in Nat
      /\ UNCHANGED <<legacy, made>>
  BY CountersOK DEF Create, At
<1>2. RingOK(p) /\ TodoOK(p) /\ DiskOK /\ legacy = 0
  BY <1>1 DEF KeyringInv, LegacyOK, Opening
<1> DEFINE n == NextVersion(p)
<1>3. n \in 1..MaxVersion
  BY <1>1, <1>2 DEF RingOK
<1>4. CASE n \in DOMAIN files
  BY <1>1, <1>4, ExitKeeps DEF Create, disk
<1>5. CASE n \notin DOMAIN files
  <2>1. /\ files' = Entered(files, n, Short) /\ Goto(p, "write")
        /\ UNCHANGED <<cmd, ring, left, todo, others>>
    BY <1>5 DEF Create
  <2>2. n' = n
    BY <2>1, SameLatest
  <2> HIDE DEF n
  <2>3. /\ DOMAIN files' = {n} \cup DOMAIN files /\ Over(files', DOMAIN files')
        /\ files'[n] = Short
        /\ \A v \in DOMAIN files : files'[v] = files[v]
    BY <1>5, <2>1 DEF Entered, Over
  <2>4. DiskOK'
    BY <1>1, <1>2, <1>3, <2>3 DEF DiskOK, Short
  <2>5. LegacyOK'
    BY <1>1, <1>2 DEF LegacyOK
  <2>6. FilesKept
    BY <2>3 DEF FilesKept, Holds
  <2>7. pc'[p] = "write" /\ Alone(p)
    BY <2>1 DEF KeyringInv, ProcsOK, Over, Goto, Alone, Same
  <2>8. \A v \in DOMAIN ring[p] : Holds(v)' /\ ring'[p][v] = files'[v]
    BY <1>2, <2>1, <2>6 DEF RingOK, FilesKept
  <2>9. RingOK(p)'
    BY <1>2, <1>3, <2>1, <2>2, <2>3, <2>7, <2>8
    DEF RingOK, Over, Opening, Open, Labels, n
  <2>10. TodoOK(p)'
    BY <1>1, <1>2, <2>1, <2>7 DEF TodoOK
  <2>11. \A q \in Procs : q # p /\ pc[q] = "write" =>
           NextVersion(q) \in DOMAIN files /\ files[NextVersion(q)] = Short
    BY DEF KeyringInv, RingOK
  <2>12. WritersOK'
    <3> SUFFICES ASSUME NEW q \in Procs, NEW r \in Procs, pc'[q] = "write",
                        pc'[r] = "write", q # r
                 PROVE  NextVersion(q)' # NextVersion(r)'
      BY DEF WritersOK, At
    <3>1. \A s \in Procs : s # p /\ pc'[s] = "write" =>
            /\ pc[s] = "write" /\ NextVersion(s)' = NextVersion(s)
            /\ NextVersion(s) # n
      BY <1>5, <2>7, <2>11, SameLatest DEF Alone, Same
    <3>2. NextVersion(p)' = n
      BY <2>2 DEF n
    <3>3. CASE q # p /\ r # p
      BY <3>1, <3>3 DEF KeyringInv, WritersOK, At
    <3>4. QED
      BY <3>1, <3>2, <3>3
  <2>13. QED
    BY <1>1, <2>1, <2>3, <2>4, <2>5, <2>6, <2>7, <2>9, <2>10, <2>11, <2>12,
       OthersKeepFiles DEF KeyringInv
<1>6. QED
  BY <1>4, <1>5

LEMMA WriteKeeps ==
  ASSUME KeyringInv, NEW p \in Procs, Write(p)
  PROVE  KeyringInv'
<1> DEFINE n == NextVersion(p)
<1>1. /\ pc[p] = "write" /\ rows' = rows /\ starts' \in Nat /\ faults' \in Nat
      /\ made' = made + 1 /\ files' = [files EXCEPT ![n] = made + 1]
      /\ legacy' = legacy
  BY CountersOK DEF Write, At
<1>2. RingOK(p) /\ TodoOK(p) /\ DiskOK /\ legacy = 0
  BY <1>1 DEF KeyringInv, LegacyOK, Opening
<1>3. n \in 1..MaxVersion /\ n \in DOMAIN files /\ files[n] = Short
  BY <1>1, <1>2 DEF RingOK
<1>4. \A q \in Procs : q # p /\ pc[q] = "write" => NextVersion(q) # n
  BY <1>1 DEF KeyringInv, WritersOK, At
<1>5. /\ ring[p] # NoKeys => Exit(p)
      /\ ring[p] = NoKeys =>
           /\ ring' = [ring EXCEPT ![p] = Entered(NoKeys, FirstVersion, made + 1)]
           /\ Goto(p, "opened") /\ UNCHANGED <<cmd, left, todo, others>>
  BY DEF Write
<1>6. ring[p] = NoKeys => n = FirstVersion
  BY DEF NextVersion
<1> HIDE DEF n
<1>7. /\ DOMAIN files' = DOMAIN files /\ files'[n] = made + 1
      /\ Over(files', DOMAIN files') /\ made \in Nat
      /\ \A v \in DOMAIN files : v # n => files'[v] = files[v]
  BY <1>1, <1>2, <1>3 DEF DiskOK, Over
<1>8. DiskOK'
  BY <1>1, <1>2, <1>7 DEF DiskOK
<1>9. LegacyOK'
  BY <1>1, <1>2 DEF LegacyOK
<1>10. FilesKept
  BY <1>3, <1>7 DEF FilesKept, Holds
<1>11. \A q \in Procs : q # p /\ pc[q] = "write" =>
         NextVersion(q) \in DOMAIN files' /\ files'[NextVersion(q)] = Short
  BY <1>4, <1>7 DEF KeyringInv, RingOK
<1>12. CASE ring[p] # NoKeys
  <2>1. /\ Alone(p) /\ pc'[p] = "down" /\ RingOK(p)' /\ TodoOK(p)'
        /\ \A q \in Procs : q # p => others'[q] = others[q]
    BY <1>5, <1>12, Exits
  <2>2. WritersOK'
    BY <2>1, WritersKept
  <2>3. QED
    BY <1>1, <1>8, <1>9, <1>10, <1>11, <2>1, <2>2, OthersKeepFiles
    DEF KeyringInv
<1>13. CASE ring[p] = NoKeys
  <2>1. /\ pc'[p] = "opened" /\ Alone(p)
        /\ ring'[p] = Entered(NoKeys, n, made + 1)
        /\ UNCHANGED <<cmd, left, todo, others>>
    BY <1>5, <1>6, <1>13
    DEF KeyringInv, ProcsOK, Over, Goto, Alone, Same
  <2>2. DOMAIN ring'[p] = {n} /\ Over(ring'[p], DOMAIN ring'[p])
        /\ ring'[p][n] = made + 1
    BY <2>1 DEF Entered, NoKeys, Over
  <2>3. ring'[p] # NoKeys
    BY <2>2 DEF NoKeys
  <2>4. \A v \in DOMAIN ring'[p] :
          v \in DOMAIN files' /\ files'[v] # Short /\ ring'[p][v] = files'[v]
    BY <1>3, <1>7, <2>2 DEF Short
  <2>8. RingOK(p)'
    BY <1>2, <2>1, <2>2, <2>3, <2>4 DEF RingOK, Holds, Opening, Open, Labels
  <2>5. TodoOK(p)'
    BY <1>1, <1>2, <2>1 DEF TodoOK
  <2>6. WritersOK'
    BY <2>1, WritersKept
  <2>7. QED
    BY <1>1, <1>8, <1>9, <1>10, <1>11, <2>1, <2>5, <2>6, <2>8, OthersKeepFiles
    DEF KeyringInv
<1>14. QED
  BY <1>12, <1>13

LEMMA WriteFailsKeeps ==
  ASSUME KeyringInv, NEW p \in Procs, WriteFails(p)
  PROVE  KeyringInv'
<1> DEFINE n == NextVersion(p)
<1>1. /\ pc[p] = "write" /\ rows' = rows /\ starts' \in Nat /\ faults' \in Nat
      /\ UNCHANGED <<legacy, made>> /\ Exit(p)
      /\ files' = IF ring[p] = NoKeys THEN files
                  ELSE [v \in DOMAIN files \ {n} |-> files[v]]
  BY CountersOK DEF WriteFails, At
<1>2. RingOK(p) /\ TodoOK(p) /\ DiskOK /\ legacy = 0
  BY <1>1 DEF KeyringInv, LegacyOK, Opening
<1>3. n \in DOMAIN files /\ files[n] = Short
  BY <1>1, <1>2 DEF RingOK
<1>4. \A q \in Procs : q # p /\ pc[q] = "write" => NextVersion(q) # n
  BY <1>1 DEF KeyringInv, WritersOK, At
<1> HIDE DEF n
<1>5. /\ DOMAIN files' \subseteq DOMAIN files /\ Over(files', DOMAIN files')
      /\ \A v \in DOMAIN files' : files'[v] = files[v]
      /\ \A v \in DOMAIN files : v # n => v \in DOMAIN files'
  <2>1. CASE ring[p] = NoKeys
    BY <1>1, <1>2, <2>1 DEF DiskOK, Over
  <2>2. CASE ring[p] # NoKeys
    BY <1>1, <2>2 DEF Over
  <2>3. QED
    BY <2>1, <2>2
<1>6. DiskOK'
  BY <1>1, <1>2, <1>5 DEF DiskOK
<1>7. LegacyOK'
  BY <1>1, <1>2 DEF LegacyOK
<1>8. FilesKept
  BY <1>3, <1>5 DEF FilesKept, Holds
<1>9. \A q \in Procs : q # p /\ pc[q] = "write" =>
        NextVersion(q) \in DOMAIN files' /\ files'[NextVersion(q)] = Short
  BY <1>4, <1>5 DEF KeyringInv, RingOK
<1>10. /\ Alone(p) /\ pc'[p] = "down" /\ RingOK(p)' /\ TodoOK(p)'
       /\ \A q \in Procs : q # p => others'[q] = others[q]
  BY <1>1, Exits
<1>11. WritersOK'
  BY <1>10, WritersKept
<1>12. QED
  BY <1>1, <1>6, <1>7, <1>8, <1>9, <1>10, <1>11, OthersKeepFiles DEF KeyringInv
-----------------------------------------------------------------------------
(* Steps on the rows.                                                      *)

\* A written row can be opened, with a key the writer has; the passes under
\* way have not seen it.
LEMMA RowWritten ==
  ASSUME KeyringInv, NEW p \in Procs, NEW r \in Rows, ring[p] # NoKeys,
         WriteRow(p, r), UNCHANGED disk
  PROVE  /\ RowsOK' /\ DOMAIN rows' = {r} \cup DOMAIN rows
         /\ rows'[r] = SealOf(p) /\ SealOf(p) \in Seal /\ Sealed(r)'
         /\ rows'[r].version = Latest(p)
         /\ \A s \in DOMAIN rows : s # r => rows'[s] = rows[s]
<1>1. DiskOK /\ RingOK(p) /\ RowsOK
  BY DEF KeyringInv
<1>2. /\ Latest(p) \in DOMAIN ring[p] /\ Latest(p) \in 1..MaxVersion
      /\ Holds(Latest(p)) /\ ring[p][Latest(p)] = files[Latest(p)]
  BY <1>1, LatestIsLast DEF RingOK
<1>3. files[Latest(p)] \in Nat
  BY <1>1, <1>2 DEF DiskOK, Holds
<1>4. /\ SealOf(p) \in Seal /\ SealOf(p).version = Latest(p)
      /\ SealOf(p).key = files[Latest(p)] /\ SealOf(p) # Plain
  BY <1>2, <1>3 DEF SealOf, Seal, Plain
<1>5. /\ DOMAIN rows' = {r} \cup DOMAIN rows /\ rows'[r] = SealOf(p)
      /\ \A s \in DOMAIN rows : s # r => rows'[s] = rows[s]
  BY DEF WriteRow, Entered
<1>6. files' = files /\ Plain' = Plain /\ Seal' = Seal
  BY DEF disk, Plain, Seal
<1>7. RowsOK'
  BY <1>1, <1>2, <1>4, <1>5, <1>6 DEF RowsOK, Holds
<1>8. QED
  BY <1>4, <1>5, <1>6, <1>7 DEF Sealed

\* Process p has written row r, and goes on with the rows it has left.
LEMMA WrittenKeeps ==
  ASSUME KeyringInv, NEW p \in Procs, NEW r \in Rows, ring[p] # NoKeys,
         WriteRow(p, r), UNCHANGED <<disk, cmd, ring, left>>,
         starts' \in Nat, faults' \in Nat, Alone(p), legacy = 0,
         pc'[p] \in Open, TodoOK(p)'
  PROVE  KeyringInv'
<1>1. /\ RowsOK' /\ DOMAIN rows' = {r} \cup DOMAIN rows
      /\ \A s \in DOMAIN rows : s # r => rows'[s] = rows[s]
  BY RowWritten
<1>2. FilesKept /\ files' = files
  BY DEF FilesKept, Holds, disk
<1>3. DiskOK' /\ LegacyOK' /\ ProcsOK'
  BY DEF KeyringInv, DiskOK, LegacyOK, disk, Alone, Over
<1>4. WritersOK'
  BY WritersKept DEF Open
<1>5. RingOK(p)'
  <2>1. RingOK(p) /\ NextVersion(p)' = NextVersion(p)
    BY SameLatest DEF KeyringInv
  <2>2. QED
    BY <1>2, <2>1 DEF RingOK, Over, Holds, Opening, Open, Labels
<1>6. ASSUME NEW q \in Procs, q # p PROVE RingOK(q)' /\ TodoOK(q)'
  <2>1. Same(q) /\ RingOK(q) /\ TodoOK(q)
    BY <1>6 DEF Alone, KeyringInv
  <2>2. RingOK(q)'
    BY <1>2, <2>1, RingKept DEF RingOK
  <2>3. others'[q] = IF pc[q] \in {"reseal", "done"}
                     THEN others[q] \cup {r} ELSE others[q]
    BY <1>6 DEF WriteRow
  <2>4. /\ others[q] \subseteq others'[q] /\ others'[q] \subseteq Rows
        /\ pc[q] \in {"reseal", "done"} => r \in others'[q]
    BY <2>1, <2>3 DEF TodoOK
  <2>5. DOMAIN rows \subseteq DOMAIN rows'
    BY <1>1
  <2>6. pc[q] \in {"reseal", "done"} =>
          \A s \in Rows \ others'[q] :
            s \in DOMAIN rows' => s \in DOMAIN rows /\ rows'[s] = rows[s]
    <3> SUFFICES ASSUME pc[q] \in {"reseal", "done"},
                        NEW s \in Rows \ others'[q], s \in DOMAIN rows'
                 PROVE  s \in DOMAIN rows /\ rows'[s] = rows[s]
      OBVIOUS
    <3>1. s # r
      BY <2>4
    <3>2. QED
      BY <1>1, <3>1
  <2>7. TodoOK(q)'
    BY <2>1, <2>4, <2>5, <2>6, TodoKept
  <2>8. QED
    BY <2>2, <2>7
<1>7. QED
  BY <1>1, <1>3, <1>4, <1>5, <1>6 DEF KeyringInv

LEMMA InsertRowKeeps ==
  ASSUME KeyringInv, NEW p \in Procs, InsertRow(p)
  PROVE  KeyringInv'
<1>1. PICK r \in Rows \ DOMAIN rows : WriteRow(p, r)
  BY DEF InsertRow
<1>2. /\ pc[p] = "serving" /\ starts' \in Nat /\ faults' \in Nat
      /\ UNCHANGED <<disk, cmd, pc, ring, left, todo>>
  BY CountersOK DEF InsertRow, At
<1>3. ring[p] # NoKeys /\ legacy = 0 /\ TodoOK(p)
  BY <1>2 DEF KeyringInv, RingOK, LegacyOK, Opening, Open
<1>4. Alone(p) /\ others'[p] = others[p] /\ pc'[p] = "serving"
  BY <1>1, <1>2 DEF KeyringInv, ProcsOK, Over, WriteRow, Alone, Same
<1>5. TodoOK(p)'
  BY <1>2, <1>3, <1>4 DEF TodoOK
<1>6. QED
  BY <1>1, <1>2, <1>3, <1>4, <1>5, WrittenKeeps DEF Open

\* What is left to write once a row is done with.
LEMMA RowDropped ==
  ASSUME KeyringInv, NEW p \in Procs, NEW r \in DOMAIN todo[p], NEW label,
         NextRow(p, r, label)
  PROVE  /\ DOMAIN todo'[p] = DOMAIN todo[p] \ {r}
         /\ \A s \in DOMAIN todo'[p] : todo'[p][s] = todo[p][s]
         /\ pc'[p] = IF DOMAIN todo[p] = {r} THEN label ELSE pc[p]
         /\ Over(pc', Procs) /\ Over(todo', Procs)
         /\ \A q \in Procs : q # p => pc'[q] = pc[q] /\ todo'[q] = todo[q]
         /\ UNCHANGED <<disk, cmd, ring, left>>
         /\ starts' \in Nat /\ faults' \in Nat
<1>1. todo'[p] = Drop(p, r)
  BY DEF KeyringInv, ProcsOK, Over, NextRow
<1>2. /\ DOMAIN todo'[p] = DOMAIN todo[p] \ {r}
      /\ \A s \in DOMAIN todo'[p] : todo'[p][s] = todo[p][s]
  BY <1>1 DEF Drop
<1>3. /\ pc'[p] = IF DOMAIN todo[p] = {r} THEN label ELSE pc[p]
      /\ Over(pc', Procs) /\ Over(todo', Procs)
      /\ \A q \in Procs : q # p => pc'[q] = pc[q] /\ todo'[q] = todo[q]
  BY DEF KeyringInv, ProcsOK, Over, NextRow, Goto
<1>4. UNCHANGED <<disk, cmd, ring, left>> /\ starts' \in Nat /\ faults' \in Nat
  BY CountersOK DEF NextRow
<1>5. QED
  BY <1>2, <1>3, <1>4

LEMMA FillKeeps ==
  ASSUME KeyringInv, NEW p \in Procs, Fill(p)
  PROVE  KeyringInv'
<1>1. PICK r \in DOMAIN todo[p] :
        /\ IF rows[r] = Plain THEN WriteRow(p, r) ELSE UNCHANGED <<rows, others>>
        /\ NextRow(p, r, "serving")
  BY DEF Fill
<1>2. pc[p] = "fill" /\ RingOK(p) /\ TodoOK(p) /\ ring[p] # NoKeys /\ legacy = 0
  BY DEF Fill, At, KeyringInv, RingOK, LegacyOK, Opening, Open
<1>3. r \in Rows /\ r \in DOMAIN rows
  BY <1>2 DEF TodoOK
<1>4. /\ pc'[p] \in {"fill", "serving"} /\ DOMAIN todo'[p] \subseteq DOMAIN todo[p]
      /\ UNCHANGED <<disk, cmd, ring, left>> /\ starts' \in Nat /\ faults' \in Nat
  BY <1>1, <1>2, RowDropped
<1>5. Over(others', Procs) /\ others'[p] = others[p]
  BY <1>1 DEF KeyringInv, ProcsOK, Over, WriteRow
<1>6. Alone(p)
  BY <1>1, <1>4, <1>5, RowDropped DEF Alone, Same, KeyringInv, ProcsOK, Over
<1>7. DOMAIN rows \subseteq DOMAIN rows'
  BY <1>1 DEF WriteRow, Entered
<1>8. TodoOK(p)'
  BY <1>2, <1>4, <1>5, <1>7 DEF TodoOK
<1>9. CASE rows[r] = Plain
  BY <1>1, <1>2, <1>3, <1>4, <1>6, <1>8, <1>9, WrittenKeeps DEF Open
<1>10. CASE rows[r] # Plain
  <2>1. UNCHANGED <<disk, rows, others>>
    BY <1>1, <1>4, <1>10
  <2>2. RingOK(p)'
    BY <1>2, <1>4, <2>1 DEF RingOK, Over, Holds, disk, Opening, Open, Labels
  <2>3. QED
    BY <1>2, <1>4, <1>6, <1>8, <2>1, <2>2, LocalKeeps
<1>11. QED
  BY <1>9, <1>10

LEMMA ResealKeeps ==
  ASSUME KeyringInv, NEW p \in Procs, Reseal(p)
  PROVE  KeyringInv'
<1>1. PICK r \in DOMAIN todo[p] :
        \/ Opens(p, todo[p][r]) /\ WriteRow(p, r) /\ NextRow(p, r, "done")
        \/ ~Opens(p, todo[p][r]) /\ Exit(p) /\ NoFault /\ UNCHANGED <<disk, rows>>
  BY DEF Reseal
<1>2. CASE Exit(p) /\ NoFault /\ UNCHANGED <<disk, rows>>
  BY <1>2, CountersOK, ExitKeeps
<1>3. CASE WriteRow(p, r) /\ NextRow(p, r, "done")
  <2>1. pc[p] = "reseal" /\ RingOK(p) /\ TodoOK(p) /\ ring[p] # NoKeys /\ legacy = 0
    BY DEF Reseal, At, KeyringInv, RingOK, LegacyOK, Opening, Open
  <2>2. r \in Rows
    BY <2>1 DEF TodoOK
  <2>3. /\ DOMAIN todo'[p] = DOMAIN todo[p] \ {r}
        /\ \A s \in DOMAIN todo'[p] : todo'[p][s] = todo[p][s]
        /\ pc'[p] = IF DOMAIN todo[p] = {r} THEN "done" ELSE "reseal"
        /\ UNCHANGED <<disk, cmd, ring, left>> /\ starts' \in Nat /\ faults' \in Nat
    BY <1>3, <2>1, RowDropped
  <2>4. Over(others', Procs) /\ others'[p] = others[p]
    BY <1>3 DEF KeyringInv, ProcsOK, Over, WriteRow
  <2>5. Alone(p)
    BY <1>3, <2>3, <2>4, RowDropped DEF Alone, Same, KeyringInv, ProcsOK, Over
  <2>6. /\ DOMAIN rows' = {r} \cup DOMAIN rows /\ rows'[r].version = Latest(p)
        /\ \A s \in DOMAIN rows : s # r => rows'[s] = rows[s]
    BY <1>3, <2>1, <2>2, <2>3, RowWritten
  <2>7. Latest(p)' = Latest(p)
    BY <2>3, SameLatest
  <2>8. TodoOK(p)'
    <3>1. /\ others'[p] \subseteq Rows /\ DOMAIN todo'[p] \subseteq Rows
          /\ DOMAIN todo'[p] \subseteq DOMAIN rows'
      BY <2>1, <2>3, <2>4, <2>6 DEF TodoOK
    <3>2. ASSUME NEW s \in DOMAIN todo'[p]
          PROVE  /\ todo'[p][s] \in Seal /\ todo'[p][s].version # Latest(p)
                 /\ s \notin others'[p] => rows'[s] = todo'[p][s]
      BY <2>1, <2>3, <2>4, <2>6 DEF TodoOK
    <3>3. ASSUME NEW s \in Rows \ others'[p], Sealed(s)'
          PROVE  \/ rows'[s].version = Latest(p)
                 \/ pc'[p] = "reseal" /\ s \in DOMAIN todo'[p]
      <4>1. CASE s = r
        BY <2>6, <4>1
      <4>2. CASE s # r
        <5>1. Sealed(s) /\ rows'[s] = rows[s]
          BY <2>6, <3>3, <4>2 DEF Sealed, Plain
        <5>2. rows[s].version = Latest(p) \/ s \in DOMAIN todo[p]
          BY <2>1, <2>4, <5>1 DEF TodoOK
        <5>3. QED
          BY <2>3, <4>2, <5>1, <5>2
      <4>3. QED
        BY <4>1, <4>2
    <3>4. Seal' = Seal
      BY DEF Seal
    <3>5. QED
      BY <2>3, <2>7, <3>1, <3>2, <3>3, <3>4 DEF TodoOK
  <2>9. QED
    BY <1>3, <2>1, <2>2, <2>3, <2>5, <2>8, WrittenKeeps DEF Open
<1>4. QED
  BY <1>1, <1>2, <1>3
-----------------------------------------------------------------------------
LEMMA KeyringInit ==
  ASSUME Init
  PROVE  KeyringInv
<1>1. PICK old \in SUBSET Rows : rows = [r \in old |-> Plain]
  BY DEF Init
<1>2. DiskOK /\ ProcsOK
  BY DEF Init, DiskOK, ProcsOK, Over, NoKeys
<1>3. LegacyOK /\ RowsOK
  BY <1>1 DEF Init, LegacyOK, RowsOK, Opening
<1>4. WritersOK
  BY DEF Init, WritersOK, At
<1>5. ASSUME NEW p \in Procs PROVE RingOK(p) /\ TodoOK(p)
  BY DEF Init, RingOK, TodoOK, Over, NoKeys, NoRows, Labels, Commands, Opening, Open
<1>6. QED
  BY <1>2, <1>3, <1>4, <1>5 DEF KeyringInv

LEMMA KeyringStep ==
  ASSUME KeyringInv, [Next]_vars
  PROVE  KeyringInv'
<1>1. ASSUME NEW p \in Procs, PassEnds(p) \/ Stop(p) \/ Dies(p)
      PROVE  KeyringInv'
  <2>1. /\ Exit(p) /\ UNCHANGED <<disk, rows>>
        /\ starts' \in Nat /\ faults' \in Nat
    BY <1>1, CountersOK DEF PassEnds, Stop, Dies
  <2>2. QED
    BY <2>1, ExitKeeps
<1>2. CASE Next
  BY <1>1, <1>2, StartKeeps, ScanKeeps, ReadKeeps, LegacyExistsKeeps,
     StatTargetKeeps, RenameKeeps, CreateKeeps, WriteKeeps, WriteFailsKeeps,
     OpenedKeeps, SelectLegacyKeeps, FillKeeps, InsertRowKeeps,
     SelectRowsKeeps, ResealKeeps
  DEF Next
<1>3. CASE UNCHANGED vars
  <2>1. \A p \in Procs : Same(p)
    BY <1>3 DEF vars, procVars, Same
  <2>2. DiskOK' /\ LegacyOK' /\ ProcsOK' /\ RowsOK' /\ WritersOK'
    BY <1>3 DEF vars, procVars, disk, KeyringInv, DiskOK, LegacyOK, ProcsOK, Over,
                RowsOK, Holds, WritersOK, At, NextVersion, Latest
  <2>3. ASSUME NEW p \in Procs PROVE RingOK(p)' /\ TodoOK(p)'
    BY <1>3 DEF vars, procVars, disk, KeyringInv, RingOK, TodoOK, Over, Holds,
                Sealed, NextVersion, Latest
  <2>4. QED
    BY <2>2, <2>3 DEF KeyringInv
<1>4. QED
  BY <1>2, <1>3

\* The facts about files, rows and processes hold in every reachable state.
THEOREM KeyringIsInductive == Spec => []KeyringInv
BY KeyringInit, KeyringStep, PTL DEF Spec

\* Every value stays in its type; in particular the keys a process has loaded
\* are keys that have been made.
THEOREM KeyringTypes == Spec => []KeyringTypeOK
<1>1. ASSUME KeyringInv PROVE KeyringTypeOK
  <2>1. /\ {legacy, made, starts, faults} \subseteq Nat
        /\ DOMAIN files \subseteq 1..MaxVersion
        /\ \A v \in DOMAIN files : files[v] \in Nat
    BY <1>1 DEF KeyringInv, DiskOK
  <2>2. /\ DOMAIN rows \subseteq Rows
        /\ \A r \in DOMAIN rows : rows[r] \in Seal \cup {Plain}
    BY <1>1 DEF KeyringInv, RowsOK
  <2>3. cmd \in [Procs -> Commands] /\ pc \in [Procs -> Labels]
    BY <1>1 DEF KeyringInv, ProcsOK, RingOK, Over
  <2>4. ASSUME NEW p \in Procs
        PROVE  /\ DOMAIN ring[p] \subseteq 1..MaxVersion
               /\ \A v \in DOMAIN ring[p] : ring[p][v] \in 1..made
               /\ left[p] \subseteq 1..MaxVersion
               /\ DOMAIN todo[p] \subseteq Rows
               /\ others[p] \subseteq Rows
    BY <1>1 DEF KeyringInv, RingOK, TodoOK, DiskOK, Holds, Short
  <2>5. QED
    BY <2>1, <2>2, <2>3, <2>4 DEF KeyringTypeOK
<1>2. QED
  BY <1>1, KeyringIsInductive, PTL

\* Whatever the processes do to the keyring at the same time, and wherever one
\* of them dies, each sealed row can be opened with the key file of its version.
THEOREM SealedRowsCanBeOpened == Spec => []RowsReadable
<1>1. KeyringInv => RowsReadable
  BY DEF KeyringInv, RowsOK, RowsReadable, Sealed, Holds
<1>2. QED
  BY <1>1, KeyringIsInductive, PTL

\* A pass that ends well has left no row under another version, except rows
\* that others have written since it read them.
THEOREM PassesReseal == Spec => []PassReseals
<1>1. KeyringInv => PassReseals
  BY DEF KeyringInv, TodoOK, PassReseals, At
<1>2. QED
  BY <1>1, KeyringIsInductive, PTL

\* A sealed row is rewritten by a pass only, to a later version, or to one that
\* replaces what another process has written behind the pass's back.
THEOREM SealsOnlyAdvance == Spec => SealsAdvance
<1> DEFINE Advances ==
      \A r \in Rows :
        Sealed(r) /\ rows'[r] # rows[r] =>
          \E p \in Procs :
            /\ At(p, "reseal") /\ r \in DOMAIN todo[p]
            /\ rows'[r].version > rows[r].version \/ r \in others[p]
<1>1. ASSUME KeyringInv, [Next]_vars PROVE Advances
  <2> SUFFICES ASSUME NEW r \in Rows, Sealed(r), rows'[r] # rows[r]
               PROVE  \E p \in Procs :
                        /\ At(p, "reseal") /\ r \in DOMAIN todo[p]
                        /\ rows'[r].version > rows[r].version \/ r \in others[p]
    OBVIOUS
  <2>1. PICK p \in Procs : Fill(p) \/ InsertRow(p) \/ Reseal(p)
    BY <1>1 DEF Next, vars, Start, Scan, Read, LegacyExists, StatTarget, Rename,
       Create, Write, WriteFails, Opened, SelectLegacy, SelectRows, PassEnds,
       Stop, Dies
  <2>2. ~Fill(p)
    BY DEF Fill, WriteRow, Entered, Sealed
  <2>3. ~InsertRow(p)
    BY DEF InsertRow, WriteRow, Entered, Sealed
  <2>4. PICK s \in DOMAIN todo[p] : Opens(p, todo[p][s]) /\ WriteRow(p, s)
                                    /\ NextRow(p, s, "done")
    BY <2>1, <2>2, <2>3 DEF Reseal
  <2>5. s = r
    BY <2>4 DEF WriteRow, Entered, Sealed
  <2>6. pc[p] = "reseal" /\ RingOK(p) /\ TodoOK(p) /\ ring[p] # NoKeys /\ DiskOK
    BY <1>1, <2>1, <2>2, <2>3 DEF Reseal, At, KeyringInv, RingOK, Open
  <2>7. rows'[r].version = Latest(p)
    BY <1>1, <2>4, <2>5, <2>6, RowWritten DEF NextRow
  <2>8. /\ todo[p][r].version # Latest(p) /\ todo[p][r].version <= Latest(p)
        /\ todo[p][r].version \in 1..MaxVersion /\ Latest(p) \in 1..MaxVersion
    BY <2>4, <2>5, <2>6, LatestIsLast DEF TodoOK, Opens
  <2>9. r \in others[p] \/ rows[r] = todo[p][r]
    BY <2>4, <2>5, <2>6 DEF TodoOK
  <2>10. rows'[r].version > rows[r].version \/ r \in others[p]
    BY <2>7, <2>8, <2>9, KeyringAssumption
  <2>11. QED
    BY <2>4, <2>5, <2>6, <2>10 DEF At
<1>2. QED
  BY <1>1, KeyringIsInductive, PTL DEF Spec, SealsAdvance
=============================================================================
