------------------------------ MODULE Keyring ------------------------------
(***************************************************************************)
(* The keyring of ACR-700 and the rows sealed under it: the key files of   *)
(* keys/local.go, the pass of reencrypt/reencrypt.go, the backfill and the *)
(* inserts of the server (covenant/backfill.go, covenant.go).              *)
(*                                                                         *)
(* The processes are those of the acp-server binary: serve, rotate-key and *)
(* reencrypt, in any number at a time.  Each opens the keyring when it     *)
(* starts and keeps what it has read.  One action is one operation on a    *)
(* file or one SQL statement.  The two sealed tables are walked alike and  *)
(* are one set of rows here.                                               *)
(***************************************************************************)
EXTENDS Integers, FiniteSets, FiniteSetsExt, TLC

CONSTANTS
  Procs,      \* processes of the binary that may run at a time
  Rows,       \* rows with a sealed column
  MaxVersion, MaxStarts, MaxFaults   \* bounds of the model

ASSUME KeyringAssumption ==
  /\ IsFiniteSet(Rows)
  /\ MaxVersion \in Nat \ {0} /\ {MaxStarts, MaxFaults} \subseteq Nat

VARIABLES
  legacy,     \* the key in master.key, or 0
  files,      \* the keyring directory: by version v, what v{N}.key holds
  made,       \* keys generated so far; key 1 is the legacy key
  rows,       \* the seal of each row there is, or Plain (from before ACR-700)
  cmd, pc,    \* by process: its subcommand and its next step
  ring,       \* by process: the keys it has loaded, by version
  left,       \* by process: the key files it has still to read
  todo,       \* by process: the rows it has still to write, as it read them
  others,     \* history, by process: rows somebody else has written since
              \* its SELECT
  starts, faults   \* counters of the bounds

disk == <<legacy, files, made>>
procVars == <<cmd, pc, ring, left, todo, others>>
vars == <<disk, rows, procVars, starts, faults>>

Short == 0   \* a file that does not hold 32 bytes
FirstVersion == 1
NoKeys == [v \in {} |-> 0]
NoRows == [r \in {} |-> 0]
Plain == [version |-> 0, key |-> 0]

Commands == {"validate", "serve", "rotate-key", "reencrypt"}
Labels == {"down", "scan", "read", "legacy", "stat", "rename", "create",
           "write", "opened", "select", "fill", "serving", "reseal", "done"}
Seal == [version : 1..MaxVersion, key : Nat]
\* f with an entry x at v.
Entered(f, v, x) ==
  [w \in DOMAIN f \cup {v} |-> IF w = v THEN x ELSE f[w]]

Sealed(r) == r \in DOMAIN rows /\ rows[r] # Plain

KeyringTypeOK ==
  /\ {legacy, made, starts, faults} \subseteq Nat
  /\ DOMAIN files \subseteq 1..MaxVersion
  /\ \A v \in DOMAIN files : files[v] \in Nat
  /\ DOMAIN rows \subseteq Rows
  /\ \A r \in DOMAIN rows : rows[r] \in Seal \cup {Plain}
  /\ cmd \in [Procs -> Commands] /\ pc \in [Procs -> Labels]
  /\ \A p \in Procs :
       /\ DOMAIN ring[p] \subseteq 1..MaxVersion
       /\ \A v \in DOMAIN ring[p] : ring[p][v] \in 1..made
       /\ left[p] \subseteq 1..MaxVersion
       /\ DOMAIN todo[p] \subseteq Rows
       /\ others[p] \subseteq Rows

\* A new installation, or one from before the keyring, with rows from before
\* their column was sealed.
Init ==
  /\ legacy \in {0, 1} /\ files = NoKeys /\ made = 1
  /\ \E old \in SUBSET Rows : rows = [r \in old |-> Plain]
  /\ cmd = [p \in Procs |-> "serve"] /\ pc = [p \in Procs |-> "down"]
  /\ ring = [p \in Procs |-> NoKeys] /\ left = [p \in Procs |-> {}]
  /\ todo = [p \in Procs |-> NoRows] /\ others = [p \in Procs |-> {}]
  /\ starts = 0 /\ faults = 0
-----------------------------------------------------------------------------
At(p, label) == pc[p] = label
Goto(p, label) == pc' = [pc EXCEPT ![p] = label]

\* The process ends; what it had in memory is gone.
Exit(p) ==
  /\ Goto(p, "down")
  /\ cmd' = [cmd EXCEPT ![p] = "serve"]
  /\ ring' = [ring EXCEPT ![p] = NoKeys]
  /\ left' = [left EXCEPT ![p] = {}]
  /\ todo' = [todo EXCEPT ![p] = NoRows]
  /\ others' = [others EXCEPT ![p] = {}]

Fault == faults < MaxFaults /\ faults' = faults + 1 /\ UNCHANGED starts
NoFault == UNCHANGED <<starts, faults>>

\* `serve` opens the keyring twice: to validate it, then for the server.
Start(p) ==
  /\ At(p, "down") /\ starts < MaxStarts
  /\ starts' = starts + 1 /\ UNCHANGED faults
  /\ \E c \in {"validate", "rotate-key", "reencrypt"} :
       cmd' = [cmd EXCEPT ![p] = c]
  /\ Goto(p, "scan")
  /\ UNCHANGED <<disk, rows, ring, left, todo, others>>
-----------------------------------------------------------------------------
(* Opening the keyring: NewLocalKeyfileProvider.                           *)

Scan(p) ==
  /\ At(p, "scan")
  /\ left' = [left EXCEPT ![p] = DOMAIN files]
  /\ Goto(p, IF files = NoKeys THEN "legacy" ELSE "read")
  /\ NoFault /\ UNCHANGED <<disk, rows, cmd, ring, todo, others>>

\* Mutation of Holds: the size of a key file is not checked.
HoldsAnything(v) == v \in DOMAIN files

\* readKeyfile accepts the file.
Holds(v) == v \in DOMAIN files /\ files[v] # Short

\* loadVersions, one file at a time: a file that is gone or short ends it all.
Read(p) ==
  /\ At(p, "read")
  /\ \E v \in left[p] :
       IF Holds(v)
       THEN /\ ring' = [ring EXCEPT ![p] = Entered(@, v, files[v])]
            /\ left' = [left EXCEPT ![p] = @ \ {v}]
            /\ Goto(p, IF left[p] = {v} THEN "opened" ELSE "read")
            /\ UNCHANGED <<cmd, todo, others>>
       ELSE Exit(p)
  /\ NoFault /\ UNCHANGED <<disk, rows>>

LegacyExists(p) ==
  /\ At(p, "legacy")
  /\ Goto(p, IF legacy = 0 THEN "create" ELSE "stat")
  /\ NoFault /\ UNCHANGED <<disk, rows, cmd, ring, left, todo, others>>

\* migrateLegacy, before the rename: the target must not be there.
StatTarget(p) ==
  /\ At(p, "stat")
  /\ IF FirstVersion \in DOMAIN files THEN Exit(p)
     ELSE Goto(p, "rename") /\ UNCHANGED <<cmd, ring, left, todo, others>>
  /\ NoFault /\ UNCHANGED <<disk, rows>>

\* migrateLegacy, os.Rename: it would replace a target that has come up since;
\* it fails when another process has moved the file.
Rename(p) ==
  /\ At(p, "rename")
  /\ IF legacy = 0 THEN Exit(p) /\ UNCHANGED disk
     ELSE /\ files' = Entered(files, FirstVersion, legacy)
          /\ legacy' = 0
          /\ left' = [left EXCEPT ![p] = {FirstVersion}]
          /\ Goto(p, "read")
          /\ UNCHANGED <<made, cmd, ring, todo, others>>
  /\ NoFault /\ UNCHANGED rows

Latest(p) == Max(DOMAIN ring[p])

\* The version a process creates: the first, or for a rotation the next.
NextVersion(p) == IF ring[p] = NoKeys THEN FirstVersion ELSE Latest(p) + 1

\* Mutation of Create: the file is opened without O_EXCL, with O_TRUNC.
CreateTruncates(p) ==
  /\ At(p, "create")
  /\ files' = Entered(files, NextVersion(p), Short)
  /\ Goto(p, "write")
  /\ NoFault /\ UNCHANGED <<legacy, made, rows, cmd, ring, left, todo, others>>

\* generateFirstVersion and Rotate, OpenFile with O_EXCL: the process that
\* loses the race gives up.
Create(p) ==
  /\ At(p, "create")
  /\ IF NextVersion(p) \in DOMAIN files THEN Exit(p) /\ UNCHANGED files
     ELSE /\ files' = Entered(files, NextVersion(p), Short)
          /\ Goto(p, "write")
          /\ UNCHANGED <<cmd, ring, left, todo, others>>
  /\ NoFault /\ UNCHANGED <<legacy, made, rows>>

\* The 32 fresh bytes are written and the file is closed.  A rotation is over.
Write(p) ==
  /\ At(p, "write")
  /\ made' = made + 1
  /\ files' = [files EXCEPT ![NextVersion(p)] = made + 1]
  /\ IF ring[p] # NoKeys THEN Exit(p)
     ELSE /\ ring' = [ring EXCEPT ![p] = Entered(NoKeys, FirstVersion, made + 1)]
          /\ Goto(p, "opened")
          /\ UNCHANGED <<cmd, left, todo, others>>
  /\ NoFault /\ UNCHANGED <<legacy, rows>>

\* The write fails: Rotate removes the file, generateFirstVersion leaves it.
WriteFails(p) ==
  /\ At(p, "write")
  /\ files' = IF ring[p] = NoKeys THEN files
              ELSE [v \in DOMAIN files \ {NextVersion(p)} |-> files[v]]
  /\ Exit(p)
  /\ Fault /\ UNCHANGED <<legacy, made, rows>>

\* The keyring is open, and the subcommand goes on.
Opened(p) ==
  /\ At(p, "opened")
  /\ cmd[p] = "rotate-key" => Latest(p) < MaxVersion   \* bound
  /\ CASE cmd[p] = "validate" ->
            /\ Goto(p, "scan")
            /\ cmd' = [cmd EXCEPT ![p] = "serve"]
            /\ ring' = [ring EXCEPT ![p] = NoKeys]
       [] cmd[p] = "rotate-key" -> Goto(p, "create") /\ UNCHANGED <<cmd, ring>>
       [] OTHER -> Goto(p, "select") /\ UNCHANGED <<cmd, ring>>
  /\ NoFault /\ UNCHANGED <<disk, rows, left, todo, others>>
-----------------------------------------------------------------------------
(* Rows.                                                                   *)

SealOf(p) == [version |-> Latest(p), key |-> ring[p][Latest(p)]]

\* Process p writes row r; a pass that has read the rows does not see it.
WriteRow(p, r) ==
  /\ rows' = Entered(rows, r, SealOf(p))
  /\ others' = [q \in Procs |-> IF q # p /\ pc[q] \in {"reseal", "done"}
                                THEN others[q] \cup {r} ELSE others[q]]

\* BackfillPlatformIdentities selects the rows without a hash.
SelectLegacy(p) ==
  LET plain == {r \in DOMAIN rows : rows[r] = Plain} IN
  /\ At(p, "select") /\ cmd[p] = "serve"
  /\ todo' = [todo EXCEPT ![p] = [r \in plain |-> Plain]]
  /\ Goto(p, IF plain = {} THEN "serving" ELSE "fill")
  /\ NoFault /\ UNCHANGED <<disk, rows, cmd, ring, left, others>>

Drop(p, r) == [q \in DOMAIN todo[p] \ {r} |-> todo[p][q]]

\* The next row is done with.
NextRow(p, r, label) ==
  /\ todo' = [todo EXCEPT ![p] = Drop(p, r)]
  /\ Goto(p, IF DOMAIN todo[p] = {r} THEN label ELSE pc[p])
  /\ NoFault /\ UNCHANGED <<disk, cmd, ring, left>>

\* Mutation of Fill: the UPDATE has no guard.
FillUnguarded(p) ==
  /\ At(p, "fill")
  /\ \E r \in DOMAIN todo[p] : WriteRow(p, r) /\ NextRow(p, r, "serving")

\* The backfill's UPDATE, of a row that still has no hash.
Fill(p) ==
  /\ At(p, "fill")
  /\ \E r \in DOMAIN todo[p] :
       /\ IF rows[r] = Plain THEN WriteRow(p, r) ELSE UNCHANGED <<rows, others>>
       /\ NextRow(p, r, "serving")

\* A request inserts a row that is not there, sealed with the key the server
\* has had since it started.
InsertRow(p) ==
  /\ At(p, "serving")
  /\ \E r \in Rows \ DOMAIN rows : WriteRow(p, r)
  /\ NoFault /\ UNCHANGED <<disk, cmd, pc, ring, left, todo>>

\* Mutation of Outdated: only rows of the previous version are taken.
OutdatedByOne(p) == {r \in Rows : Sealed(r) /\ rows[r].version = Latest(p) - 1}

\* The rows a pass has to reseal: those of any version but its own.
Outdated(p) == {r \in Rows : Sealed(r) /\ rows[r].version # Latest(p)}

\* runOne reads the table, and closes the cursor before it writes.
SelectRows(p) ==
  /\ At(p, "select") /\ cmd[p] = "reencrypt"
  /\ todo' = [todo EXCEPT ![p] = [r \in Outdated(p) |-> rows[r]]]
  /\ Goto(p, IF Outdated(p) = {} THEN "done" ELSE "reseal")
  /\ NoFault /\ UNCHANGED <<disk, rows, cmd, ring, left, others>>

\* Sealer.Open: the key of the version in the header, or an error.
Opens(p, seal) ==
  seal.version \in DOMAIN ring[p] /\ ring[p][seal.version] = seal.key

\* Open, Seal and an UPDATE by primary key, whatever the row holds by now; a
\* row that does not open ends the pass.
Reseal(p) ==
  /\ At(p, "reseal")
  /\ \E r \in DOMAIN todo[p] :
       \/ Opens(p, todo[p][r]) /\ WriteRow(p, r) /\ NextRow(p, r, "done")
       \/ ~Opens(p, todo[p][r]) /\ Exit(p) /\ NoFault /\ UNCHANGED <<disk, rows>>

\* The pass reports what it did.
PassEnds(p) ==
  /\ At(p, "done") /\ Exit(p)
  /\ NoFault /\ UNCHANGED <<disk, rows>>

\* The server is stopped.
Stop(p) ==
  /\ At(p, "serving") /\ Exit(p)
  /\ NoFault /\ UNCHANGED <<disk, rows>>

\* The process is killed, or a statement fails and it gives up.
Dies(p) ==
  /\ ~At(p, "down") /\ Exit(p)
  /\ Fault /\ UNCHANGED <<disk, rows>>

Next ==
  \E p \in Procs :
    \/ Start(p) \/ Scan(p) \/ Read(p) \/ LegacyExists(p) \/ StatTarget(p)
    \/ Rename(p) \/ Create(p) \/ Write(p) \/ WriteFails(p) \/ Opened(p)
    \/ SelectLegacy(p) \/ Fill(p) \/ InsertRow(p)
    \/ SelectRows(p) \/ Reseal(p) \/ PassEnds(p) \/ Stop(p) \/ Dies(p)

Spec == Init /\ [][Next]_vars
-----------------------------------------------------------------------------
(* Properties.                                                             *)

\* A sealed row can be opened: the key it was sealed under is on disk, under
\* the version its header names.
RowsReadable ==
  \A r \in Rows :
    Sealed(r) =>
      /\ rows[r].version \in DOMAIN files
      /\ files[rows[r].version] = rows[r].key

\* A pass that reports success leaves every row under its own version, except
\* those that another process (a server that still seals under the version it
\* started with) has written in the meantime.
PassReseals ==
  \A p \in Procs :
    cmd[p] = "reencrypt" /\ At(p, "done") =>
      \A r \in Rows \ others[p] : Sealed(r) => rows[r].version = Latest(p)

\* Only a pass rewrites a sealed row, and it moves it to a later version, or
\* another process has written the row since the pass has read it.
SealsAdvance ==
  [][\A r \in Rows :
       Sealed(r) /\ rows'[r] # rows[r] =>
         \E p \in Procs :
           /\ At(p, "reseal") /\ r \in DOMAIN todo[p]
           /\ rows'[r].version > rows[r].version \/ r \in others[p]]_vars
=============================================================================
