--------------------------- MODULE GitTwinProofs ---------------------------
(***************************************************************************)
(* What holds of the git twin for any number of covenants, handlers,       *)
(* bridges, merges and anchors, and for any number of lost calls and dead  *)
(* processes: an anchor the server has as written is in the repository for *)
(* good, under the commit it was acknowledged with; and a merge is awarded *)
(* once, but for overlapping deliveries and failed inserts of its mark.    *)
(***************************************************************************)
EXTENDS GitTwin, SequenceTheorems, Sums

\* The two halves of the type invariant.
MergeTypes ==
  /\ mapped \subseteq Covenants
  /\ DOMAIN gitEvents \subseteq Merges
  /\ \A m \in DOMAIN gitEvents : gitEvents[m] \in {"proposed", "approved"}
  /\ awards \in [Merges -> [Covenants -> Nat]]
  /\ pc \in [Handlers -> MergeLabels] /\ req \in [Handlers -> Request]
  /\ overlaps \in [Merges -> Nat]
  /\ hooks \subseteq Hook
  /\ {deliveries, enqueued, faults} \subseteq Nat

AnchorTypes ==
  /\ anchors \in Seq(Anchor) /\ Len(anchors) <= MaxAnchors
  /\ acks \subseteq Ack
  /\ commits \in Seq(Commit) /\ origin \in 0..Len(commits)
  /\ bpc \in [Bridges -> BridgeLabels]
  /\ queue \in [Bridges -> SUBSET (1..MaxAnchors)]
  /\ clone \in [Bridges -> 0..Len(commits)]

\* The history of a commit is closed: it contains the histories of its commits.
HistoryClosed ==
  \A c \in DOMAIN commits : \A d \in commits[c].past :
    d \in DOMAIN commits /\ commits[d].past \subseteq commits[c].past

\* A busy bridge has anchors to write; its clone's commit notes the one it is
\* at, and is published from the push on.
BridgeOK(b) ==
  /\ bpc[b] # "idle" => queue[b] # {}
  /\ bpc[b] \in {"push", "ack"} =>
       clone[b] # 0 /\ commits[clone[b]].anchor = Oldest(b)
  /\ bpc[b] = "ack" => clone[b] \in Published

\* An acknowledgement carries a published commit that notes its anchor; a
\* bridge waits for one at most, and does nothing else meanwhile.
AckOK(a) ==
  /\ a.commit \in Published /\ commits[a.commit].anchor = a.anchor
  /\ a.waits # None => bpc[a.waits] = "answer"
  /\ \A e \in acks : a.waits # None /\ e.waits = a.waits => e = a

BridgesOK == \A b \in Bridges : BridgeOK(b)
AcksOK == \A a \in acks : AckOK(a)

\* The inductive invariant.
NotesInv ==
  AnchorTypes /\ HistoryClosed /\ BridgesOK /\ AcksOK /\ WrittenIsPublished
-----------------------------------------------------------------------------
(* What the variables hold.                                                *)

Below == OpToRel(<, Nat)

\* The anchor a busy drain is at is one that it listed.
LEMMA OldestIsListed ==
  ASSUME AnchorTypes, NEW b \in Bridges, queue[b] # {}
  PROVE  Oldest(b) \in queue[b] /\ Oldest(b) \in 1..MaxAnchors
<1>1. queue[b] \in SUBSET (1..MaxAnchors)
  BY DEF AnchorTypes
<1>2. queue[b] \subseteq Nat
  BY <1>1, GitTwinAssumption
<1>3. IsWellFoundedOn(Below, Nat)
  BY NatLessThanWellFounded DEF Below
<1>4. PICK x \in queue[b] : \A y \in queue[b] : ~(<<y, x>> \in Below)
  BY <1>2, <1>3, WFMin
<1>5. ASSUME NEW y \in queue[b] PROVE x <= y
  <2>1. x \in Nat /\ y \in Nat
    BY <1>2
  <2>2. ~(<<y, x>> \in Below)
    BY <1>4
  <2>3. y < x => <<y, x>> \in Below
    BY <2>1 DEF Below, OpToRel
  <2>4. QED
    BY <2>1, <2>2, <2>3
<1>6. QED
  BY <1>1, <1>5 DEF Oldest

LEMMA Rows ==
  ASSUME AnchorTypes
  PROVE  /\ DOMAIN anchors = 1..Len(anchors) /\ Len(anchors) \in Nat
         /\ \A i \in DOMAIN anchors : anchors[i] \in Anchor
         /\ DOMAIN commits = 1..Len(commits) /\ Len(commits) \in Nat
         /\ \A c \in DOMAIN commits : commits[c] \in Commit
         /\ DOMAIN anchors \subseteq 1..MaxAnchors /\ MaxAnchors \in Nat
<1>1. /\ anchors \in Seq(Anchor) /\ Len(anchors) <= MaxAnchors
      /\ commits \in Seq(Commit)
  BY DEF AnchorTypes
<1>2. /\ DOMAIN anchors = 1..Len(anchors) /\ Len(anchors) \in Nat
      /\ DOMAIN commits = 1..Len(commits) /\ Len(commits) \in Nat
  BY <1>1, LenProperties
<1>3. /\ \A i \in DOMAIN anchors : anchors[i] \in Anchor
      /\ \A c \in DOMAIN commits : commits[c] \in Commit
  BY <1>1, <1>2, ElementOfSeq
<1>4. QED
  BY <1>1, <1>2, <1>3, GitTwinAssumption

\* What is published are commits.
LEMMA PublishedExists ==
  ASSUME AnchorTypes, HistoryClosed
  PROVE  Published \subseteq DOMAIN commits
<1>1. origin # 0 => origin \in DOMAIN commits
  BY Rows DEF AnchorTypes
<1>2. QED
  BY <1>1 DEF Published, HistoryClosed

\* Bridges in bs let go of the anchor they are at.
LEMMA NextAnchorTyped ==
  ASSUME AnchorTypes, NEW bs, NextAnchor(bs),
         \A b \in bs : b \in Bridges /\ queue[b] # {}
  PROVE  /\ bpc' \in [Bridges -> BridgeLabels]
         /\ queue' \in [Bridges -> SUBSET (1..MaxAnchors)]
         /\ \A b \in Bridges \ bs : bpc'[b] = bpc[b] /\ queue'[b] = queue[b]
         /\ \A b \in bs : /\ bpc'[b] \in {"fetch", "idle"}
                          /\ bpc'[b] # "idle" => queue'[b] # {}
<1>1. \A b \in bs : Oldest(b) \in queue[b]
  BY OldestIsListed
<1>2. bpc' \in [Bridges -> BridgeLabels]
  BY DEF NextAnchor, AnchorTypes, BridgeLabels
<1>3. queue' \in [Bridges -> SUBSET (1..MaxAnchors)]
  BY DEF NextAnchor, AnchorTypes
<1>4. \A b \in bs : bpc'[b] # "idle" => queue'[b] # {}
  BY <1>1 DEF NextAnchor
<1>5. QED
  BY <1>2, <1>3, <1>4 DEF NextAnchor
-----------------------------------------------------------------------------
(* The repository.                                                         *)

\* Commits stay as they are, and what is published stays published.
Grows ==
  /\ \A c \in DOMAIN commits : c \in DOMAIN commits' /\ commits'[c] = commits[c]
  /\ Published \subseteq Published'

LEMMA AddNoteGrows ==
  ASSUME NotesInv, NEW b \in Bridges, AddNote(b)
  PROVE  /\ Grows /\ HistoryClosed' /\ Published' = Published
         /\ commits' \in Seq(Commit) /\ Len(commits') = Len(commits) + 1
         /\ clone' \in [Bridges -> 0..Len(commits')]
         /\ clone'[b] = Len(commits') /\ clone'[b] # 0
         /\ commits'[clone'[b]].anchor = Oldest(b)
<1> DEFINE c == clone[b]
           past == IF c = 0 THEN {} ELSE commits[c].past \cup {c}
           e == [anchor |-> Oldest(b), past |-> past]
           n == Len(commits)
<1>1. /\ commits \in Seq(Commit) /\ n \in Nat /\ DOMAIN commits = 1..n
      /\ c \in 0..n /\ origin \in 0..n
  BY Rows DEF NotesInv, AnchorTypes
<1>2. past \subseteq DOMAIN commits
        /\ \A d \in past : commits[d].past \subseteq past
  BY <1>1 DEF NotesInv, HistoryClosed
<1>3. e \in Commit
  <2>1. queue[b] # {}
    BY DEF AddNote, NotesInv, BridgesOK, BridgeOK
  <2>2. Oldest(b) \in 1..MaxAnchors
    BY <2>1, OldestIsListed DEF NotesInv
  <2>3. past \subseteq Nat
    BY <1>1, <1>2
  <2>4. QED
    BY <2>2, <2>3 DEF Commit
<1>4. commits' = Append(commits, e) /\ clone' = [clone EXCEPT ![b] = n + 1]
        /\ origin' = origin
  BY DEF AddNote
<1> HIDE DEF e
<1>5. /\ commits' \in Seq(Commit) /\ Len(commits') = n + 1
      /\ \A i \in 1..n : commits'[i] = commits[i]
      /\ commits'[n + 1] = e
  BY <1>1, <1>3, <1>4, AppendProperties
<1>6. DOMAIN commits' = 1..(n + 1)
  BY <1>5, LenProperties
<1> HIDE DEF n
<1>7. \A i \in DOMAIN commits : i \in DOMAIN commits' /\ commits'[i] = commits[i]
  BY <1>1, <1>5, <1>6
<1>8. Published' = Published
  <2>1. origin # 0 => commits'[origin] = commits[origin]
    BY <1>1, <1>5
  <2>2. QED
    BY <1>4, <2>1 DEF Published
<1>9. HistoryClosed'
  <2> SUFFICES ASSUME NEW i \in DOMAIN commits', NEW d \in commits'[i].past
               PROVE  d \in DOMAIN commits' /\ commits'[d].past \subseteq commits'[i].past
    BY DEF HistoryClosed
  <2>1. CASE i \in DOMAIN commits
    <3>1. /\ d \in commits[i].past /\ d \in DOMAIN commits
          /\ commits[d].past \subseteq commits[i].past
      BY <1>7, <2>1 DEF NotesInv, HistoryClosed
    <3>2. QED
      BY <1>7, <2>1, <3>1
  <2>2. CASE i = n + 1
    <3>1. d \in past
      BY <1>5, <2>2 DEF e
    <3>2. d \in DOMAIN commits /\ commits[d].past \subseteq past
      BY <1>2, <3>1
    <3>3. QED
      BY <1>5, <1>7, <2>2, <3>2 DEF e
  <2>3. QED
    BY <1>1, <1>6, <2>1, <2>2
<1>10. clone' \in [Bridges -> 0..(n + 1)] /\ clone'[b] = n + 1
  <2>1. clone \in [Bridges -> 0..n]
    BY DEF NotesInv, AnchorTypes, n
  <2>2. \A q \in Bridges : clone[q] \in 0..(n + 1)
    BY <1>1, <2>1
  <2>3. QED
    BY <1>1, <1>4, <2>1, <2>2
<1>11. QED
  BY <1>1, <1>5, <1>7, <1>8, <1>9, <1>10 DEF Grows, e

LEMMA PushGrows ==
  ASSUME NotesInv, NEW b \in Bridges, Push(b)
  PROVE  /\ Grows /\ HistoryClosed' /\ commits' = commits
         /\ origin' \in 0..Len(commits)
         /\ bpc'[b] = "ack" => clone[b] \in Published'
<1>1. /\ bpc[b] = "push" /\ commits' = commits /\ clone' = clone
      /\ \/ FastForward(b) /\ origin' = clone[b]
         \/ origin' = origin /\ NextAnchor({b})
  BY DEF Push
<1>2. clone[b] # 0 /\ clone[b] \in 0..Len(commits) /\ clone[b] \in DOMAIN commits
        /\ origin \in 0..Len(commits)
  BY <1>1, Rows DEF NotesInv, AnchorTypes, BridgesOK, BridgeOK
<1>3. CASE FastForward(b) /\ origin' = clone[b]
  <2>1. Published' = commits[clone[b]].past \cup {clone[b]}
    BY <1>1, <1>2, <1>3 DEF Published
  <2>2. Published \subseteq Published'
    BY <1>2, <1>3, <2>1 DEF FastForward, Published, NotesInv, HistoryClosed
  <2>3. QED
    BY <1>1, <1>2, <1>3, <2>1, <2>2 DEF Grows, NotesInv, HistoryClosed
<1>4. CASE origin' = origin /\ NextAnchor({b})
  <2>1. bpc'[b] # "ack"
    BY <1>4 DEF NextAnchor
  <2>2. Published' = Published
    BY <1>1, <1>4 DEF Published
  <2>3. QED
    BY <1>1, <1>2, <1>4, <2>1, <2>2 DEF Grows, NotesInv, HistoryClosed
<1>5. QED
  BY <1>1, <1>3, <1>4

LEMMA RepositoryKept ==
  ASSUME NotesInv, UNCHANGED repository
  PROVE  Grows /\ HistoryClosed' /\ Published' = Published
BY DEF repository, Grows, Published, NotesInv, HistoryClosed
-----------------------------------------------------------------------------
(* What every step keeps.                                                  *)

\* A published commit stays published, and notes what it noted.
LEMMA NotesStay ==
  ASSUME NotesInv, Grows, NEW x \in Published
  PROVE  x \in Published' /\ commits'[x] = commits[x]
<1>1. x \in DOMAIN commits
  BY PublishedExists DEF NotesInv
<1>2. QED
  BY <1>1 DEF Grows

LEMMA WrittenKept ==
  ASSUME NotesInv, Grows, anchors' = anchors
  PROVE  WrittenIsPublished'
<1> SUFFICES ASSUME NEW i \in DOMAIN anchors, anchors[i].status = "written"
             PROVE  /\ anchors[i].commit \in Published'
                    /\ commits'[anchors[i].commit].anchor = i
  BY DEF WrittenIsPublished
<1>1. /\ anchors[i].commit \in Published
      /\ commits[anchors[i].commit].anchor = i
  BY DEF NotesInv, WrittenIsPublished
<1>2. QED
  BY <1>1, NotesStay

LEMMA OldestKept ==
  ASSUME NEW b \in Bridges, queue'[b] = queue[b]
  PROVE  Oldest(b)' = Oldest(b)
BY DEF Oldest

\* A bridge that does not move, while the repository grows.
BridgeKept(b) == bpc'[b] = bpc[b] /\ queue'[b] = queue[b] /\ clone'[b] = clone[b]

LEMMA BridgesKept ==
  ASSUME NotesInv, Grows,
         \A b \in Bridges : BridgeKept(b) \/ BridgeOK(b)'
  PROVE  BridgesOK'
<1> SUFFICES ASSUME NEW b \in Bridges, BridgeKept(b) PROVE BridgeOK(b)'
  BY DEF BridgesOK
<1>1. BridgeOK(b)
  BY DEF NotesInv, BridgesOK
<1>2. Oldest(b)' = Oldest(b)
  BY OldestKept DEF BridgeKept
<1>3. bpc[b] \in {"push", "ack"} =>
        clone[b] \in DOMAIN commits /\ commits'[clone[b]] = commits[clone[b]]
  BY <1>1, Rows DEF BridgeOK, NotesInv, AnchorTypes, Grows
<1>4. bpc[b] = "ack" => clone[b] \in Published'
  BY <1>1, NotesStay DEF BridgeOK
<1>5. QED
  BY <1>1, <1>2, <1>3, <1>4 DEF BridgeOK, BridgeKept

\* Acknowledgements that stay as they are, or whose bridge gives up.
LEMMA AcksKept ==
  ASSUME NotesInv, Grows,
         \A a \in acks' :
           \/ a \in acks /\ (a.waits # None => bpc'[a.waits] = "answer")
           \/ /\ a.waits = None
              /\ \E e \in acks : e.commit = a.commit /\ e.anchor = a.anchor
  PROVE  AcksOK'
<1> SUFFICES ASSUME NEW a \in acks' PROVE AckOK(a)'
  BY DEF AcksOK
<1>1. PICK e \in acks : e.commit = a.commit /\ e.anchor = a.anchor
  OBVIOUS
<1>2. e.commit \in Published /\ commits[e.commit].anchor = e.anchor
  BY DEF NotesInv, AcksOK, AckOK
<1>3. a.commit \in Published' /\ commits'[a.commit].anchor = a.anchor
  BY <1>1, <1>2, NotesStay
<1>4. a.waits # None => bpc'[a.waits] = "answer"
  OBVIOUS
<1>5. ASSUME NEW d \in acks', a.waits # None, d.waits = a.waits
      PROVE  d = a
  <2>1. a \in acks /\ d \in acks
    BY <1>5
  <2>2. QED
    BY <1>5, <2>1 DEF NotesInv, AcksOK, AckOK
<1>6. QED
  BY <1>3, <1>4, <1>5 DEF AckOK

\* A bridge that is not waiting for an answer is waited for by none.
LEMMA WaitersAnswered ==
  ASSUME NotesInv, NEW b \in Bridges, bpc[b] # "answer", NEW a \in acks
  PROVE  a.waits # b
BY GitTwinAssumption DEF NotesInv, AcksOK, AckOK

LEMMA AckFields ==
  ASSUME AnchorTypes, NEW a \in acks
  PROVE  /\ a \in Ack
         /\ a.anchor \in 1..MaxAnchors /\ a.commit \in Nat \ {0}
         /\ a.step \in {"read", "update"} /\ a.waits \in Bridges \cup {None}
BY DEF AnchorTypes, Ack
-----------------------------------------------------------------------------
(* Steps on anchors.                                                       *)

LEMMA EnqueueKeeps ==
  ASSUME NotesInv, EnqueueAnchor
  PROVE  NotesInv'
<1> DEFINE e == [status |-> "pending", commit |-> 0]
           n == Len(anchors)
<1>1. /\ n < MaxAnchors /\ anchors' = Append(anchors, e)
      /\ UNCHANGED <<acks, repository, bridgeVars>>
  BY DEF EnqueueAnchor
<1>2. e \in Anchor /\ e.status = "pending"
  BY DEF Anchor
<1> HIDE DEF e
<1>3. anchors \in Seq(Anchor) /\ n \in Nat /\ DOMAIN anchors = 1..n
  BY Rows DEF NotesInv, AnchorTypes
<1>4. /\ anchors' \in Seq(Anchor) /\ Len(anchors') = n + 1
      /\ \A i \in 1..n : anchors'[i] = anchors[i]
      /\ anchors'[n + 1] = e
  BY <1>1, <1>2, <1>3, AppendProperties
<1>5. DOMAIN anchors' = 1..(n + 1)
  BY <1>4, LenProperties
<1>6. /\ Grows /\ HistoryClosed' /\ Published' = Published /\ commits' = commits
  BY <1>1, RepositoryKept DEF repository
<1>7. AnchorTypes'
  BY <1>1, <1>3, <1>4, GitTwinAssumption
     DEF NotesInv, AnchorTypes, repository, bridgeVars
<1>8. WrittenIsPublished'
  <2> SUFFICES ASSUME NEW i \in 1..(n + 1), anchors'[i].status = "written"
               PROVE  /\ anchors'[i].commit \in Published
                      /\ commits[anchors'[i].commit].anchor = i
    BY <1>5, <1>6 DEF WrittenIsPublished
  <2>1. i \in DOMAIN anchors /\ anchors'[i] = anchors[i]
    BY <1>2, <1>3, <1>4
  <2>2. QED
    BY <2>1 DEF NotesInv, WrittenIsPublished
<1>9. BridgesOK' /\ AcksOK'
  BY <1>1, <1>6, BridgesKept, AcksKept
     DEF bridgeVars, BridgeKept, NotesInv, AcksOK, AckOK
<1>10. QED
  BY <1>6, <1>7, <1>8, <1>9 DEF NotesInv

LEMMA ListKeeps ==
  ASSUME NotesInv, NEW b \in Bridges, ListPending(b)
  PROVE  NotesInv'
<1>1. /\ bpc[b] = "idle" /\ Pending # {}
      /\ queue' = [queue EXCEPT ![b] = Pending]
      /\ bpc' = [bpc EXCEPT ![b] = "fetch"]
      /\ UNCHANGED <<anchors, acks, repository, clone>>
  BY DEF ListPending, serverAnchors
<1>2. Grows /\ HistoryClosed' /\ commits' = commits /\ origin' = origin
  BY <1>1, RepositoryKept DEF repository
<1>3. Pending \in SUBSET (1..MaxAnchors)
  BY Rows DEF Pending, NotesInv
<1>4. AnchorTypes'
  BY <1>1, <1>2, <1>3 DEF NotesInv, AnchorTypes, BridgeLabels
<1>5. BridgeOK(b)'
  BY <1>1 DEF BridgeOK, NotesInv, AnchorTypes
<1>6. \A q \in Bridges : q = b \/ BridgeKept(q)
  BY <1>1 DEF BridgeKept, NotesInv, AnchorTypes
<1>7. BridgesOK'
  BY <1>2, <1>5, <1>6, BridgesKept
<1>8. \A a \in acks : a.waits # None => bpc'[a.waits] = "answer"
  <2> SUFFICES ASSUME NEW a \in acks, a.waits # None
               PROVE  bpc'[a.waits] = "answer"
    OBVIOUS
  <2>1. a.waits # b /\ a.waits \in Bridges /\ bpc[a.waits] = "answer"
    BY <1>1, WaitersAnswered, AckFields DEF NotesInv, AcksOK, AckOK
  <2>2. QED
    BY <1>1, <2>1 DEF NotesInv, AnchorTypes
<1>9. AcksOK'
  BY <1>1, <1>2, <1>8, AcksKept
<1>10. QED
  BY <1>1, <1>2, <1>4, <1>7, <1>9, WrittenKept DEF NotesInv

\* A step of bridge b that is not an acknowledgement's: the acknowledgements
\* stay, for they wait for others.
LEMMA BridgeMoves ==
  ASSUME NotesInv, Grows, NEW b \in Bridges, bpc[b] # "answer",
         acks' = acks, anchors' = anchors,
         \A q \in Bridges : q = b \/ BridgeKept(q),
         BridgeOK(b)'
  PROVE  BridgesOK' /\ AcksOK' /\ WrittenIsPublished'
<1>1. BridgesOK'
  BY BridgesKept
<1>2. \A a \in acks : a.waits # None => bpc'[a.waits] = "answer"
  <2> SUFFICES ASSUME NEW a \in acks, a.waits # None
               PROVE  bpc'[a.waits] = "answer"
    OBVIOUS
  <2>1. a.waits # b /\ a.waits \in Bridges /\ bpc[a.waits] = "answer"
    BY WaitersAnswered, AckFields DEF NotesInv, AcksOK, AckOK
  <2>2. QED
    BY <2>1 DEF BridgeKept
<1>3. AcksOK'
  BY <1>2, AcksKept
<1>4. QED
  BY <1>1, <1>3, WrittenKept

LEMMA FetchKeeps ==
  ASSUME NotesInv, NEW b \in Bridges, Fetch(b)
  PROVE  NotesInv'
<1>1. /\ bpc[b] = "fetch" /\ bpc' = [bpc EXCEPT ![b] = "note"]
      /\ \/ clone' = [clone EXCEPT ![b] = IF origin = 0 THEN @ ELSE origin]
         \/ clone' = clone
      /\ UNCHANGED <<anchors, acks, repository, queue>>
  BY DEF Fetch, serverAnchors
<1>2. Grows /\ HistoryClosed' /\ commits' = commits /\ origin' = origin
  BY <1>1, RepositoryKept DEF repository
<1>3. AnchorTypes'
  BY <1>1, <1>2 DEF NotesInv, AnchorTypes, BridgeLabels
<1>4. BridgeOK(b)'
  BY <1>1 DEF BridgeOK, NotesInv, BridgesOK, AnchorTypes
<1>5. \A q \in Bridges : q = b \/ BridgeKept(q)
  BY <1>1 DEF BridgeKept, NotesInv, AnchorTypes
<1>6. BridgesOK' /\ AcksOK' /\ WrittenIsPublished'
  BY <1>1, <1>2, <1>4, <1>5, BridgeMoves
<1>7. QED
  BY <1>2, <1>3, <1>6 DEF NotesInv

LEMMA AddNoteKeeps ==
  ASSUME NotesInv, NEW b \in Bridges, AddNote(b)
  PROVE  NotesInv'
<1>1. /\ bpc[b] = "note" /\ bpc' = [bpc EXCEPT ![b] = "push"]
      /\ \A q \in Bridges : q = b \/ clone'[q] = clone[q]
      /\ UNCHANGED <<anchors, acks, origin, queue>>
  BY DEF AddNote, serverAnchors, NotesInv, AnchorTypes
<1>2. /\ Grows /\ HistoryClosed'
      /\ commits' \in Seq(Commit) /\ Len(commits') = Len(commits) + 1
      /\ clone' \in [Bridges -> 0..Len(commits')]
      /\ clone'[b] # 0 /\ commits'[clone'[b]].anchor = Oldest(b)
  BY AddNoteGrows
<1>3. AnchorTypes'
  <2>1. origin' \in 0..Len(commits')
    BY <1>1, <1>2, Rows DEF NotesInv, AnchorTypes
  <2>2. QED
    BY <1>1, <1>2, <2>1 DEF NotesInv, AnchorTypes, BridgeLabels
<1>4. BridgeOK(b)'
  <2>1. Oldest(b)' = Oldest(b)
    BY <1>1, OldestKept
  <2>2. bpc'[b] = "push" /\ queue'[b] # {}
    BY <1>1 DEF NotesInv, BridgesOK, BridgeOK, AnchorTypes
  <2>3. QED
    BY <1>2, <2>1, <2>2 DEF BridgeOK
<1>5. \A q \in Bridges : q = b \/ BridgeKept(q)
  BY <1>1 DEF BridgeKept, NotesInv, AnchorTypes
<1>6. BridgesOK' /\ AcksOK' /\ WrittenIsPublished'
  BY <1>1, <1>2, <1>4, <1>5, BridgeMoves
<1>7. QED
  BY <1>2, <1>3, <1>6 DEF NotesInv

LEMMA PushKeeps ==
  ASSUME NotesInv, NEW b \in Bridges, Push(b)
  PROVE  NotesInv'
<1>1. /\ bpc[b] = "push" /\ UNCHANGED <<anchors, acks, clone, commits>>
      /\ \/ bpc' = [bpc EXCEPT ![b] = "ack"] /\ queue' = queue
         \/ NextAnchor({b})
  BY DEF Push, serverAnchors
<1>2. /\ Grows /\ HistoryClosed' /\ origin' \in 0..Len(commits)
      /\ bpc'[b] = "ack" => clone[b] \in Published'
  BY PushGrows
<1>3. BridgeOK(b)
  BY DEF NotesInv, BridgesOK
<1>4. CASE bpc' = [bpc EXCEPT ![b] = "ack"] /\ queue' = queue
  <2>1. AnchorTypes'
    BY <1>1, <1>2, <1>4 DEF NotesInv, AnchorTypes, BridgeLabels
  <2>2. Oldest(b)' = Oldest(b) /\ bpc'[b] = "ack"
    BY <1>4, OldestKept DEF NotesInv, AnchorTypes
  <2>3. BridgeOK(b)'
    BY <1>1, <1>2, <1>3, <1>4, <2>2 DEF BridgeOK
  <2>4. \A q \in Bridges : q = b \/ BridgeKept(q)
    BY <1>1, <1>4 DEF BridgeKept, NotesInv, AnchorTypes
  <2>5. BridgesOK' /\ AcksOK' /\ WrittenIsPublished'
    BY <1>1, <1>2, <2>3, <2>4, BridgeMoves
  <2>6. QED
    BY <1>2, <2>1, <2>5 DEF NotesInv
<1>5. CASE NextAnchor({b})
  <2>1. queue[b] # {}
    BY <1>1, <1>3 DEF BridgeOK
  <2>2. /\ bpc' \in [Bridges -> BridgeLabels]
        /\ queue' \in [Bridges -> SUBSET (1..MaxAnchors)]
        /\ \A q \in Bridges \ {b} : bpc'[q] = bpc[q] /\ queue'[q] = queue[q]
        /\ bpc'[b] \in {"fetch", "idle"} /\ (bpc'[b] # "idle" => queue'[b] # {})
    BY <1>5, <2>1, NextAnchorTyped DEF NotesInv
  <2>3. AnchorTypes'
    BY <1>1, <1>2, <2>2 DEF NotesInv, AnchorTypes
  <2>4. BridgeOK(b)'
    BY <2>2 DEF BridgeOK
  <2>5. \A q \in Bridges : q = b \/ BridgeKept(q)
    BY <1>1, <2>2 DEF BridgeKept
  <2>6. BridgesOK' /\ AcksOK' /\ WrittenIsPublished'
    BY <1>1, <1>2, <2>4, <2>5, BridgeMoves
  <2>7. QED
    BY <1>2, <2>3, <2>6 DEF NotesInv
<1>6. QED
  BY <1>1, <1>4, <1>5

\* The bridge sends the commit it has pushed, and waits.
LEMMA PostAckKeeps ==
  ASSUME NotesInv, NEW b \in Bridges, PostAck(b)
  PROVE  NotesInv'
<1> DEFINE x == [anchor |-> Oldest(b), commit |-> clone[b], step |-> "read",
                 waits |-> b]
<1>1. /\ bpc[b] = "ack" /\ UNCHANGED <<anchors, repository, clone>>
      /\ \/ /\ acks' = acks \cup {x} /\ queue' = queue
            /\ bpc' = [bpc EXCEPT ![b] = "answer"]
         \/ acks' = acks /\ NextAnchor({b})
  BY DEF PostAck
<1>2. /\ Grows /\ HistoryClosed' /\ Published' = Published
      /\ commits' = commits /\ origin' = origin
  BY <1>1, RepositoryKept DEF repository
<1>3. /\ queue[b] # {} /\ clone[b] \in Published
      /\ commits[clone[b]].anchor = Oldest(b) /\ clone[b] # 0
  BY <1>1 DEF NotesInv, BridgesOK, BridgeOK
<1>4. x \in Ack /\ x.commit = clone[b] /\ x.anchor = Oldest(b) /\ x.waits = b
  <2>1. Oldest(b) \in 1..MaxAnchors
    BY <1>3, OldestIsListed DEF NotesInv
  <2>2. clone[b] \in Nat \ {0}
    BY <1>3 DEF NotesInv, AnchorTypes
  <2>3. QED
    BY <2>1, <2>2 DEF Ack
<1> HIDE DEF x
<1>5. CASE acks' = acks /\ NextAnchor({b})
  <2>1. /\ bpc' \in [Bridges -> BridgeLabels]
        /\ queue' \in [Bridges -> SUBSET (1..MaxAnchors)]
        /\ \A q \in Bridges \ {b} : bpc'[q] = bpc[q] /\ queue'[q] = queue[q]
        /\ bpc'[b] \in {"fetch", "idle"} /\ (bpc'[b] # "idle" => queue'[b] # {})
    BY <1>3, <1>5, NextAnchorTyped DEF NotesInv
  <2>2. AnchorTypes'
    BY <1>1, <1>2, <1>5, <2>1 DEF NotesInv, AnchorTypes
  <2>3. BridgeOK(b)'
    BY <2>1 DEF BridgeOK
  <2>4. \A q \in Bridges : q = b \/ BridgeKept(q)
    BY <1>1, <2>1 DEF BridgeKept
  <2>5. BridgesOK' /\ AcksOK' /\ WrittenIsPublished'
    BY <1>1, <1>2, <1>5, <2>3, <2>4, BridgeMoves
  <2>6. QED
    BY <1>2, <2>2, <2>5 DEF NotesInv
<1>6. CASE /\ acks' = acks \cup {x} /\ queue' = queue
           /\ bpc' = [bpc EXCEPT ![b] = "answer"]
  <2>1. AnchorTypes'
    BY <1>1, <1>2, <1>4, <1>6 DEF NotesInv, AnchorTypes, BridgeLabels
  <2>2. BridgesOK'
    <3>1. BridgeOK(b)'
      BY <1>3, <1>6 DEF BridgeOK, NotesInv, AnchorTypes
    <3>2. \A q \in Bridges : q = b \/ BridgeKept(q)
      BY <1>1, <1>6 DEF BridgeKept, NotesInv, AnchorTypes
    <3>3. QED
      BY <1>2, <3>1, <3>2, BridgesKept
  <2>3. \A a \in acks : /\ AckOK(a) /\ a.waits # b
                        /\ a.waits # None => bpc'[a.waits] = "answer"
    <3> SUFFICES ASSUME NEW a \in acks
                 PROVE  /\ AckOK(a) /\ a.waits # b
                        /\ a.waits # None => bpc'[a.waits] = "answer"
      OBVIOUS
    <3>1. AckOK(a) /\ a.waits # b /\ a.waits \in Bridges \cup {None}
      BY <1>1, WaitersAnswered, AckFields DEF NotesInv, AcksOK
    <3>2. a.waits # None => bpc[a.waits] = "answer"
      BY <3>1 DEF AckOK
    <3>3. QED
      BY <1>6, <3>1, <3>2 DEF NotesInv, AnchorTypes
  <2>4. ASSUME NEW a \in acks' PROVE AckOK(a)'
    <3>1. a.commit \in Published /\ commits[a.commit].anchor = a.anchor
      BY <1>3, <1>4, <1>6, <2>3 DEF AckOK
    <3>2. a.waits # None => bpc'[a.waits] = "answer"
      BY <1>4, <1>6, <2>3 DEF NotesInv, AnchorTypes
    <3>3. \A e \in acks' : a.waits # None /\ e.waits = a.waits => e = a
      BY <1>4, <1>6, <2>3 DEF AckOK
    <3>4. QED
      BY <1>2, <3>1, <3>2, <3>3 DEF AckOK
  <2>5. QED
    BY <1>1, <1>2, <2>1, <2>2, <2>4, WrittenKept DEF NotesInv, AcksOK
<1>7. QED
  BY <1>1, <1>5, <1>6

\* Busy bridges in bs take their next anchor, and nothing waits for them.
LEMMA LetGo ==
  ASSUME NotesInv, NEW bs \in SUBSET Bridges, NextAnchor(bs),
         \A b \in bs : bpc[b] # "idle",
         UNCHANGED <<repository, clone>>,
         \A a \in acks' :
           \/ a \in acks /\ a.waits \notin bs
           \/ /\ a.waits = None
              /\ \E e \in acks : e.commit = a.commit /\ e.anchor = a.anchor
  PROVE  /\ Grows /\ HistoryClosed' /\ BridgesOK' /\ AcksOK'
         /\ Published' = Published /\ commits' = commits /\ origin' = origin
         /\ bpc' \in [Bridges -> BridgeLabels]
         /\ queue' \in [Bridges -> SUBSET (1..MaxAnchors)]
<1>1. /\ Grows /\ HistoryClosed' /\ Published' = Published
      /\ commits' = commits /\ origin' = origin /\ clone' = clone
  BY RepositoryKept DEF repository
<1>2. \A b \in bs : b \in Bridges /\ queue[b] # {}
  BY DEF NotesInv, BridgesOK, BridgeOK
<1>3. /\ bpc' \in [Bridges -> BridgeLabels]
      /\ queue' \in [Bridges -> SUBSET (1..MaxAnchors)]
      /\ \A b \in Bridges \ bs : bpc'[b] = bpc[b] /\ queue'[b] = queue[b]
      /\ \A b \in bs : /\ bpc'[b] \in {"fetch", "idle"}
                       /\ bpc'[b] # "idle" => queue'[b] # {}
  BY <1>2, NextAnchorTyped DEF NotesInv
<1>4. BridgesOK'
  <2>1. \A b \in bs : BridgeOK(b)'
    BY <1>3 DEF BridgeOK
  <2>2. \A b \in Bridges \ bs : BridgeKept(b)
    BY <1>1, <1>3 DEF BridgeKept
  <2>3. QED
    BY <1>1, <2>1, <2>2, BridgesKept
<1>5. ASSUME NEW a \in acks, a.waits \notin bs, a.waits # None
      PROVE  bpc'[a.waits] = "answer"
  <2>1. a.waits \in Bridges /\ bpc[a.waits] = "answer"
    BY <1>5, AckFields DEF NotesInv, AcksOK, AckOK
  <2>2. QED
    BY <1>3, <1>5, <2>1
<1>6. AcksOK'
  BY <1>1, <1>5, AcksKept
<1>7. QED
  BY <1>1, <1>3, <1>4, <1>6

LEMMA AckTimesOutKeeps ==
  ASSUME NotesInv, AckTimesOut
  PROVE  NotesInv'
<1>1. PICK a \in acks :
        /\ a.waits # None
        /\ acks' = (acks \ {a}) \cup {[a EXCEPT !.waits = None]}
        /\ NextAnchor({a.waits})
        /\ UNCHANGED <<anchors, repository, clone>>
  BY DEF AckTimesOut
<1> DEFINE x == [a EXCEPT !.waits = None]
<1>2. /\ a \in Ack /\ a.waits \in Bridges /\ bpc[a.waits] = "answer"
      /\ \A e \in acks : e.waits = a.waits => e = a
  BY <1>1, AckFields DEF NotesInv, AcksOK, AckOK
<1>3. x \in Ack /\ x.waits = None /\ x.commit = a.commit /\ x.anchor = a.anchor
  BY <1>2 DEF Ack
<1>4. acks' = (acks \ {a}) \cup {x}
  BY <1>1
<1> HIDE DEF x
<1>5. \A d \in acks' :
        \/ d \in acks /\ d.waits \notin {a.waits}
        \/ /\ d.waits = None
           /\ \E e \in acks : e.commit = d.commit /\ e.anchor = d.anchor
  BY <1>2, <1>3, <1>4
<1>6. {a.waits} \in SUBSET Bridges /\ \A b \in {a.waits} : bpc[b] # "idle"
  BY <1>2
<1>7. /\ Grows /\ HistoryClosed' /\ BridgesOK' /\ AcksOK'
      /\ commits' = commits /\ origin' = origin
      /\ bpc' \in [Bridges -> BridgeLabels]
      /\ queue' \in [Bridges -> SUBSET (1..MaxAnchors)]
  BY <1>1, <1>5, <1>6, LetGo
<1>8. AnchorTypes'
  BY <1>1, <1>3, <1>4, <1>7 DEF NotesInv, AnchorTypes
<1>9. QED
  BY <1>1, <1>7, <1>8, WrittenKept DEF NotesInv

\* The server answers acknowledgement a, and its bridge goes on.
LEMMA AnswerKeeps ==
  ASSUME NotesInv, NEW a \in acks, AnswerAck(a), UNCHANGED <<repository, clone>>
  PROVE  /\ Grows /\ HistoryClosed' /\ BridgesOK' /\ AcksOK'
         /\ Published' = Published /\ commits' = commits /\ origin' = origin
         /\ bpc' \in [Bridges -> BridgeLabels]
         /\ queue' \in [Bridges -> SUBSET (1..MaxAnchors)]
         /\ acks' \subseteq acks
<1> DEFINE bs == {a.waits} \ {None}
<1>1. acks' = acks \ {a} /\ NextAnchor(bs)
  BY DEF AnswerAck
<1>2. /\ a.waits \in Bridges \cup {None}
      /\ a.waits # None => bpc[a.waits] = "answer"
      /\ \A e \in acks : a.waits # None /\ e.waits = a.waits => e = a
  BY AckFields DEF NotesInv, AcksOK, AckOK
<1>3. bs \in SUBSET Bridges /\ \A b \in bs : bpc[b] # "idle"
  BY <1>2
<1>4. \A d \in acks' : d \in acks /\ d.waits \notin bs
  BY <1>1, <1>2
<1> HIDE DEF bs
<1>5. QED
  BY <1>1, <1>3, <1>4, LetGo

LEMMA AckReadKeeps ==
  ASSUME NotesInv, AckRead
  PROVE  NotesInv'
<1>1. PICK a \in acks :
        /\ a.step = "read" /\ UNCHANGED <<anchors, repository, clone>>
        /\ \/ AnswerAck(a)
           \/ /\ acks' = (acks \ {a}) \cup {[a EXCEPT !.step = "update"]}
              /\ UNCHANGED <<bpc, queue>>
  BY DEF AckRead
<1>2. CASE AnswerAck(a)
  <2>1. /\ Grows /\ HistoryClosed' /\ BridgesOK' /\ AcksOK'
        /\ commits' = commits /\ origin' = origin
        /\ bpc' \in [Bridges -> BridgeLabels]
        /\ queue' \in [Bridges -> SUBSET (1..MaxAnchors)]
        /\ acks' \subseteq acks
    BY <1>1, <1>2, AnswerKeeps
  <2>2. AnchorTypes'
    BY <1>1, <2>1 DEF NotesInv, AnchorTypes
  <2>3. QED
    BY <1>1, <2>1, <2>2, WrittenKept DEF NotesInv
<1>3. CASE /\ acks' = (acks \ {a}) \cup {[a EXCEPT !.step = "update"]}
           /\ UNCHANGED <<bpc, queue>>
  <2> DEFINE x == [a EXCEPT !.step = "update"]
  <2>1. a \in Ack
    BY AckFields DEF NotesInv
  <2>2. /\ x \in Ack /\ x.commit = a.commit /\ x.anchor = a.anchor
        /\ x.waits = a.waits
    BY <2>1 DEF Ack
  <2>3. acks' = (acks \ {a}) \cup {x}
    BY <1>3
  <2> HIDE DEF x
  <2>4. /\ Grows /\ HistoryClosed' /\ Published' = Published
        /\ commits' = commits /\ origin' = origin
    BY <1>1, RepositoryKept DEF repository
  <2>5. AnchorTypes'
    BY <1>1, <1>3, <2>2, <2>3, <2>4 DEF NotesInv, AnchorTypes
  <2>6. BridgesOK'
    BY <1>1, <1>3, <2>4, BridgesKept DEF BridgeKept
  <2>7. ASSUME NEW d \in acks' PROVE AckOK(d)'
    <3>1. \A e \in acks : AckOK(e)
      BY DEF NotesInv, AcksOK
    <3>2. d.commit \in Published /\ commits[d.commit].anchor = d.anchor
      BY <2>2, <2>3, <3>1 DEF AckOK
    <3>3. d.waits # None => bpc[d.waits] = "answer"
      BY <2>2, <2>3, <3>1 DEF AckOK
    <3>4. \A e \in acks' : d.waits # None /\ e.waits = d.waits => e = d
      BY <2>2, <2>3, <3>1 DEF AckOK
    <3>5. QED
      BY <1>3, <2>4, <3>2, <3>3, <3>4 DEF AckOK
  <2>8. QED
    BY <1>1, <2>4, <2>5, <2>6, <2>7, WrittenKept DEF NotesInv, AcksOK
<1>4. QED
  BY <1>1, <1>2, <1>3

LEMMA AckUpdateKeeps ==
  ASSUME NotesInv, AckUpdate
  PROVE  NotesInv'
<1>1. PICK a \in acks :
        /\ AnswerAck(a) /\ UNCHANGED <<repository, clone>>
        /\ \/ anchors' = anchors
           \/ anchors' = [anchors EXCEPT ![a.anchor] =
                            [status |-> "written", commit |-> a.commit]]
  BY DEF AckUpdate
<1> DEFINE e == [status |-> "written", commit |-> a.commit]
<1>2. /\ Grows /\ HistoryClosed' /\ BridgesOK' /\ AcksOK'
      /\ Published' = Published /\ commits' = commits /\ origin' = origin
      /\ bpc' \in [Bridges -> BridgeLabels]
      /\ queue' \in [Bridges -> SUBSET (1..MaxAnchors)]
      /\ acks' \subseteq acks
  BY <1>1, AnswerKeeps
<1>3. e \in Anchor /\ e.commit = a.commit
  BY AckFields DEF Anchor, NotesInv
<1>4. a.commit \in Published /\ commits[a.commit].anchor = a.anchor
  BY DEF NotesInv, AcksOK, AckOK
<1>5. anchors \in Seq(Anchor) /\ Len(anchors) \in Nat /\ DOMAIN anchors = 1..Len(anchors)
  BY Rows DEF NotesInv, AnchorTypes
<1> HIDE DEF e
<1>6. /\ anchors' \in Seq(Anchor) /\ Len(anchors') = Len(anchors)
      /\ \A i \in 1..Len(anchors) :
           anchors'[i] = anchors[i] \/ (i = a.anchor /\ anchors'[i] = e)
  <2>1. CASE anchors' = anchors
    BY <1>5, <2>1
  <2>2. CASE anchors' # anchors
    <3>1. anchors' = [anchors EXCEPT ![a.anchor] = e]
      BY <1>1, <2>2 DEF e
    <3>2. a.anchor \in 1..Len(anchors)
      BY <1>5, <2>2, <3>1
    <3>3. QED
      BY <1>3, <1>5, <3>1, <3>2, ExceptSeq
  <2>3. QED
    BY <2>1, <2>2
<1>7. AnchorTypes'
  BY <1>1, <1>2, <1>6 DEF NotesInv, AnchorTypes
<1>8. WrittenIsPublished'
  <2>1. DOMAIN anchors' = 1..Len(anchors)
    BY <1>6, LenProperties
  <2> SUFFICES ASSUME NEW i \in 1..Len(anchors), anchors'[i].status = "written"
               PROVE  /\ anchors'[i].commit \in Published
                      /\ commits[anchors'[i].commit].anchor = i
    BY <1>2, <2>1 DEF WrittenIsPublished
  <2>2. QED
    BY <1>3, <1>4, <1>5, <1>6 DEF NotesInv, WrittenIsPublished
<1>9. QED
  BY <1>2, <1>7, <1>8 DEF NotesInv

LEMMA BridgeDiesKeeps ==
  ASSUME NotesInv, NEW b \in Bridges, BridgeDies(b)
  PROVE  NotesInv'
<1> DEFINE f(a) == IF a.waits = b THEN [a EXCEPT !.waits = None] ELSE a
<1>1. /\ bpc' = [bpc EXCEPT ![b] = "idle"] /\ queue' = [queue EXCEPT ![b] = {}]
      /\ acks' = {f(a) : a \in acks}
      /\ UNCHANGED <<anchors, repository, clone>>
  BY DEF BridgeDies
<1>2. /\ Grows /\ HistoryClosed' /\ commits' = commits /\ origin' = origin
  BY <1>1, RepositoryKept DEF repository
<1>3. ASSUME NEW a \in acks
      PROVE  /\ f(a) \in Ack
             /\ f(a).commit = a.commit /\ f(a).anchor = a.anchor
             /\ f(a) = a \/ f(a).waits = None
             /\ f(a).waits # b
             /\ f(a).waits \in Bridges \cup {None}
  <2>1. a \in Ack
    BY AckFields DEF NotesInv
  <2>2. QED
    BY <2>1, GitTwinAssumption DEF Ack
<1> HIDE DEF f
<1>4. AnchorTypes'
  BY <1>1, <1>2, <1>3 DEF NotesInv, AnchorTypes, BridgeLabels
<1>5. BridgesOK'
  <2>1. BridgeOK(b)'
    BY <1>1 DEF BridgeOK, NotesInv, AnchorTypes
  <2>2. \A q \in Bridges : q = b \/ BridgeKept(q)
    BY <1>1 DEF BridgeKept, NotesInv, AnchorTypes
  <2>3. QED
    BY <1>2, <2>1, <2>2, BridgesKept
<1>6. ASSUME NEW d \in acks'
      PROVE  \/ d \in acks /\ (d.waits # None => bpc'[d.waits] = "answer")
             \/ /\ d.waits = None
                /\ \E e \in acks : e.commit = d.commit /\ e.anchor = d.anchor
  <2>1. PICK a \in acks : d = f(a)
    BY <1>1
  <2>2. CASE f(a) = a
    <3>1. a.waits # None => bpc[a.waits] = "answer"
      BY DEF NotesInv, AcksOK, AckOK
    <3>2. a.waits # b /\ a.waits \in Bridges \cup {None}
      BY <1>3, <2>2
    <3>3. a.waits # None => bpc'[a.waits] = "answer"
      BY <1>1, <3>1, <3>2 DEF NotesInv, AnchorTypes
    <3>4. QED
      BY <2>1, <2>2, <3>3
  <2>3. CASE f(a).waits = None
    BY <1>3, <2>1, <2>3
  <2>4. QED
    BY <1>3, <2>2, <2>3
<1>7. AcksOK'
  BY <1>2, <1>6, AcksKept
<1>8. QED
  BY <1>1, <1>2, <1>4, <1>5, <1>7, WrittenKept DEF NotesInv

LEMMA ServerDiesKeeps ==
  ASSUME NotesInv, ServerDies
  PROVE  NotesInv'
<1> DEFINE bs == {a.waits : a \in acks} \ {None}
<1>1. acks' = {} /\ NextAnchor(bs) /\ UNCHANGED <<anchors, repository, clone>>
  BY DEF ServerDies
<1>2. bs \in SUBSET Bridges /\ \A b \in bs : bpc[b] # "idle"
  <2> SUFFICES ASSUME NEW a \in acks, a.waits # None
               PROVE  a.waits \in Bridges /\ bpc[a.waits] # "idle"
    OBVIOUS
  <2>1. QED
    BY AckFields DEF NotesInv, AcksOK, AckOK
<1> HIDE DEF bs
<1>3. /\ Grows /\ HistoryClosed' /\ BridgesOK' /\ AcksOK'
      /\ commits' = commits /\ origin' = origin
      /\ bpc' \in [Bridges -> BridgeLabels]
      /\ queue' \in [Bridges -> SUBSET (1..MaxAnchors)]
  BY <1>1, <1>2, LetGo
<1>4. AnchorTypes'
  BY <1>1, <1>3 DEF NotesInv, AnchorTypes
<1>5. QED
  BY <1>1, <1>3, <1>4, WrittenKept DEF NotesInv

\* Steps of a merge leave the anchors alone.
LEMMA MergeKeepsNotes ==
  ASSUME NotesInv, UNCHANGED anchorVars
  PROVE  NotesInv'
<1>1. UNCHANGED <<anchors, acks, commits, origin, bpc, queue, clone>>
  BY DEF anchorVars, serverAnchors, repository, bridgeVars
<1>2. Grows /\ HistoryClosed' /\ commits' = commits /\ origin' = origin
  BY <1>1, RepositoryKept DEF repository
<1>3. AnchorTypes'
  BY <1>1 DEF NotesInv, AnchorTypes
<1>4. BridgesOK'
  BY <1>1, <1>2, BridgesKept DEF BridgeKept
<1>5. AcksOK'
  BY <1>1, <1>2, AcksKept DEF NotesInv, AcksOK, AckOK
<1>6. QED
  BY <1>1, <1>2, <1>3, <1>4, <1>5, WrittenKept DEF NotesInv

LEMMA NotesInvInit ==
  ASSUME Init
  PROVE  NotesInv
<1>1. /\ anchors = <<>> /\ acks = {} /\ commits = <<>> /\ origin = 0
      /\ bpc = [b \in Bridges |-> "idle"] /\ queue = [b \in Bridges |-> {}]
      /\ clone = [b \in Bridges |-> 0]
  BY DEF Init, Fresh
<1>2. /\ anchors \in Seq(Anchor) /\ Len(anchors) = 0 /\ DOMAIN anchors = {}
      /\ commits \in Seq(Commit) /\ Len(commits) = 0 /\ DOMAIN commits = {}
  BY <1>1, EmptySeq
<1>3. AnchorTypes
  BY <1>1, <1>2, GitTwinAssumption DEF AnchorTypes, BridgeLabels
<1>4. HistoryClosed /\ BridgesOK /\ AcksOK /\ WrittenIsPublished
  BY <1>1, <1>2
     DEF HistoryClosed, BridgesOK, BridgeOK, AcksOK, WrittenIsPublished
<1>5. QED
  BY <1>3, <1>4 DEF NotesInv

LEMMA NotesInvStep ==
  ASSUME NotesInv, [Next]_vars
  PROVE  NotesInv'
<1>1. CASE UNCHANGED vars
  BY <1>1, MergeKeepsNotes DEF vars
<1>2. CASE Deliver \/ PostMerge \/ PostTimesOut \/ HookDone \/ MembershipChanges
  <2>1. UNCHANGED anchorVars
    BY <1>2 DEF Deliver, PostMerge, PostTimesOut, HookDone, MembershipChanges
  <2>2. QED
    BY <2>1, MergeKeepsNotes
<1>3. ASSUME NEW h \in Handlers, MergeStep(h) PROVE NotesInv'
  <2>1. UNCHANGED anchorVars
    BY <1>3 DEF MergeStep, Idempotency, FindAuthor, Propose, RecordProposal,
                Approve, MarkApproved
  <2>2. QED
    BY <2>1, MergeKeepsNotes
<1>4. CASE EnqueueAnchor
  BY <1>4, EnqueueKeeps
<1>5. CASE AckStep \/ AckTimesOut
  BY <1>5, AckReadKeeps, AckUpdateKeeps, AckTimesOutKeeps DEF AckStep
<1>6. ASSUME NEW b \in Bridges, BridgeStep(b) \/ BridgeDies(b) PROVE NotesInv'
  BY <1>6, ListKeeps, FetchKeeps, AddNoteKeeps, PushKeeps, PostAckKeeps,
     BridgeDiesKeeps DEF BridgeStep
<1>7. CASE ServerDies
  BY <1>7, ServerDiesKeeps
<1>8. QED
  BY <1>1, <1>2, <1>3, <1>4, <1>5, <1>6, <1>7 DEF Next

LEMMA NotesInvariant == Spec => []NotesInv
<1>1. Init => NotesInv
  BY NotesInvInit
<1>2. NotesInv /\ [Next]_vars => NotesInv'
  BY NotesInvStep
<1>3. QED
  BY <1>1, <1>2, PTL DEF Spec

\* An anchor the server has as written is in the published notes of the
\* repository, under its commit: AckAnchor stores only what a bridge has
\* pushed, and no push takes a commit out of the ref's history.
THEOREM WrittenAlwaysPublished == Spec => []WrittenIsPublished
<1>1. NotesInv => WrittenIsPublished
  BY DEF NotesInv
<1>2. QED
  BY <1>1, NotesInvariant, PTL
-----------------------------------------------------------------------------
(* The types of the merge's side.                                          *)

LEMMA NoRequestTyped == NoRequest \in Request
BY GitTwinAssumption DEF NoRequest, Request

LEMMA BoundsTyped ==
  ASSUME MergeTypes, Fault \/ UNCHANGED bounds
  PROVE  {deliveries, enqueued, faults}' \subseteq Nat
BY DEF MergeTypes, Fault, bounds

LEMMA GotoTyped ==
  ASSUME MergeTypes, NEW h \in Handlers, NEW l \in MergeLabels, Goto(h, l)
  PROVE  /\ pc' \in [Handlers -> MergeLabels] /\ req' \in [Handlers -> Request]
         /\ hooks' \subseteq Hook
BY DEF MergeTypes, Goto

LEMMA AnswerTyped ==
  ASSUME MergeTypes, NEW h \in Handlers, Answer(h)
  PROVE  /\ pc' \in [Handlers -> MergeLabels] /\ req' \in [Handlers -> Request]
         /\ hooks' \subseteq Hook
<1>1. pc' \in [Handlers -> MergeLabels] /\ req' \in [Handlers -> Request]
  BY NoRequestTyped DEF MergeTypes, Answer, MergeLabels
<1>2. \A k \in hooks :
        k \in Hook /\ (IF k.waits = h THEN [k EXCEPT !.waits = None] ELSE k) \in Hook
  BY DEF MergeTypes, Hook
<1>3. QED
  BY <1>1, <1>2 DEF Answer

LEMMA SetEventTyped ==
  ASSUME MergeTypes, NEW m \in Merges, NEW s \in {"proposed", "approved"},
         SetEvent(m, s)
  PROVE  /\ DOMAIN gitEvents' \subseteq Merges
         /\ \A e \in DOMAIN gitEvents' : gitEvents'[e] \in {"proposed", "approved"}
BY DEF MergeTypes, SetEvent

LEMMA AwardTyped ==
  ASSUME MergeTypes, NEW h \in Handlers, Award(h)
  PROVE  awards' \in [Merges -> [Covenants -> Nat]]
<1>1. req[h].merge \in Merges /\ req[h].covenant \in Covenants
  BY DEF MergeTypes, Request
<1>2. awards[req[h].merge] \in [Covenants -> Nat]
  BY <1>1 DEF MergeTypes
<1>3. [awards[req[h].merge] EXCEPT ![req[h].covenant] = @ + 1] \in [Covenants -> Nat]
  BY <1>1, <1>2
<1>4. QED
  BY <1>1, <1>3 DEF MergeTypes, Award

LEMMA HandlerTyped ==
  ASSUME MergeTypes, NEW h \in Handlers, MergeStep(h)
  PROVE  MergeTypes'
<1>1. req[h].merge \in Merges
  BY DEF MergeTypes, Request
<1>2. /\ UNCHANGED <<mapped, overlaps>>
      /\ Fault \/ UNCHANGED bounds
      /\ Answer(h) \/ \E l \in MergeLabels : Goto(h, l)
      /\ Award(h) \/ UNCHANGED awards
      /\ \/ UNCHANGED gitEvents
         \/ \E s \in {"proposed", "approved"} : SetEvent(req[h].merge, s)
  <2>1. CASE Idempotency(h) \/ FindAuthor(h) \/ Propose(h)
    BY <2>1 DEF Idempotency, FindAuthor, Propose, MergeLabels
  <2>2. CASE RecordProposal(h)
    BY <2>2 DEF RecordProposal, MergeLabels
  <2>3. CASE Approve(h)
    BY <2>3 DEF Approve, MergeLabels
  <2>4. CASE MarkApproved(h)
    BY <2>4 DEF MarkApproved
  <2>5. QED
    BY <2>1, <2>2, <2>3, <2>4 DEF MergeStep
<1>3. {deliveries, enqueued, faults}' \subseteq Nat
  BY <1>2, BoundsTyped
<1>4. /\ pc' \in [Handlers -> MergeLabels] /\ req' \in [Handlers -> Request]
      /\ hooks' \subseteq Hook
  BY <1>2, AnswerTyped, GotoTyped
<1>5. awards' \in [Merges -> [Covenants -> Nat]]
  BY <1>2, AwardTyped DEF MergeTypes
<1>6. /\ DOMAIN gitEvents' \subseteq Merges
      /\ \A e \in DOMAIN gitEvents' : gitEvents'[e] \in {"proposed", "approved"}
  BY <1>1, <1>2, SetEventTyped DEF MergeTypes
<1>7. QED
  BY <1>2, <1>3, <1>4, <1>5, <1>6 DEF MergeTypes

LEMMA DeliveryTyped ==
  ASSUME MergeTypes, Deliver \/ PostMerge \/ PostTimesOut \/ HookDone
  PROVE  MergeTypes'
<1>1. CASE Deliver
  <2>1. \A m \in Merges : [merge |-> m, todo |-> Covenants, waits |-> None] \in Hook
    BY DEF Hook
  <2>2. hooks' \subseteq Hook /\ deliveries' \in Nat
    BY <1>1, <2>1 DEF Deliver, MergeTypes
  <2>3. QED
    BY <1>1, <2>2 DEF Deliver, MergeTypes
<1>2. CASE PostMerge
  <2>1. PICK k \in hooks, h \in Handlers : \E c \in k.todo :
          /\ hooks' = (hooks \ {k}) \cup {[k EXCEPT !.todo = @ \ {c}, !.waits = h]}
          /\ req' = [req EXCEPT ![h] = [merge |-> k.merge, covenant |-> c]]
          /\ pc' = [pc EXCEPT ![h] = "idempotency"]
          /\ overlaps' = [overlaps EXCEPT ![k.merge] =
                            IF Serving(k.merge) = {} THEN @ ELSE @ + 1]
          /\ UNCHANGED <<mapped, gitEvents, awards, bounds>>
    BY <1>2 DEF PostMerge
  <2>c. PICK c \in k.todo :
          /\ hooks' = (hooks \ {k}) \cup {[k EXCEPT !.todo = @ \ {c}, !.waits = h]}
          /\ req' = [req EXCEPT ![h] = [merge |-> k.merge, covenant |-> c]]
    BY <2>1
  <2>2. k \in Hook /\ k.merge \in Merges /\ c \in Covenants
    BY DEF MergeTypes, Hook
  <2>3. [k EXCEPT !.todo = @ \ {c}, !.waits = h] \in Hook
    BY <2>2 DEF Hook
  <2>4. [merge |-> k.merge, covenant |-> c] \in Request
    BY <2>2 DEF Request
  <2>5. hooks' \subseteq Hook /\ req' \in [Handlers -> Request]
    BY <2>c, <2>3, <2>4 DEF MergeTypes
  <2>6. pc' \in [Handlers -> MergeLabels]
    BY <2>1 DEF MergeTypes, MergeLabels
  <2>7. overlaps' \in [Merges -> Nat]
    BY <2>1, <2>2 DEF MergeTypes
  <2>8. QED
    BY <2>1, <2>5, <2>6, <2>7 DEF MergeTypes, bounds
<1>3. CASE PostTimesOut
  <2>1. PICK k \in hooks :
          /\ hooks' = (hooks \ {k}) \cup {[k EXCEPT !.waits = None]}
          /\ Fault /\ UNCHANGED <<mapped, gitEvents, awards, pc, req, overlaps>>
    BY <1>3 DEF PostTimesOut
  <2>2. [k EXCEPT !.waits = None] \in Hook
    BY DEF MergeTypes, Hook
  <2>3. {deliveries, enqueued, faults}' \subseteq Nat
    BY <2>1, BoundsTyped
  <2>4. QED
    BY <2>1, <2>2, <2>3 DEF MergeTypes
<1>4. CASE HookDone
  BY <1>4 DEF HookDone, MergeTypes, bounds
<1>5. QED
  BY <1>1, <1>2, <1>3, <1>4

LEMMA DeathTyped ==
  ASSUME MergeTypes, ServerDies \/ \E b \in Bridges : BridgeDies(b)
  PROVE  MergeTypes'
<1>1. CASE \E b \in Bridges : BridgeDies(b)
  <2>1. /\ hooks' = {} /\ Fault
        /\ UNCHANGED <<mapped, gitEvents, awards, pc, req, overlaps>>
    BY <1>1 DEF BridgeDies
  <2>2. QED
    BY <2>1, BoundsTyped DEF MergeTypes
<1>2. CASE ServerDies
  <2>1. /\ pc' = [h \in Handlers |-> "idle"] /\ req' = [h \in Handlers |-> NoRequest]
        /\ hooks' = {[k EXCEPT !.waits = None] : k \in hooks}
        /\ Fault /\ UNCHANGED <<mapped, gitEvents, awards, overlaps>>
    BY <1>2 DEF ServerDies
  <2>2. \A k \in hooks : [k EXCEPT !.waits = None] \in Hook
    BY DEF MergeTypes, Hook
  <2>3. hooks' \subseteq Hook
    BY <2>1, <2>2
  <2>4. QED
    BY <2>1, <2>3, BoundsTyped, NoRequestTyped DEF MergeTypes, MergeLabels
<1>3. QED
  BY <1>1, <1>2

LEMMA MergeTypesStep ==
  ASSUME MergeTypes, [Next]_vars
  PROVE  MergeTypes'
<1>1. CASE UNCHANGED vars
  BY <1>1 DEF vars, mergeVars, bounds, MergeTypes
<1>2. CASE MembershipChanges
  BY <1>2 DEF MembershipChanges, MergeTypes, bounds
<1>3. CASE EnqueueAnchor
  BY <1>3 DEF EnqueueAnchor, mergeVars, MergeTypes
<1>4. ASSUME UNCHANGED mergeVars, Fault \/ UNCHANGED bounds PROVE MergeTypes'
  BY <1>4, BoundsTyped DEF mergeVars, MergeTypes
<1>5. CASE AckStep \/ AckTimesOut
  BY <1>4, <1>5 DEF AckStep, AckRead, AckUpdate, AckTimesOut
<1>6. ASSUME NEW b \in Bridges, BridgeStep(b) PROVE MergeTypes'
  BY <1>4, <1>6 DEF BridgeStep, ListPending, Fetch, AddNote, Push, PostAck
<1>7. QED
  BY <1>1, <1>2, <1>3, <1>5, <1>6, HandlerTyped, DeliveryTyped, DeathTyped
     DEF Next

\* Every variable has its type: an acknowledgement always names a commit, a
\* clone's ref a commit there is, and no list of a bridge an anchor there is
\* no room for.
THEOREM GitTwinTyped == Spec => []GitTwinTypeOK
<1>1. Init => MergeTypes
  BY NoRequestTyped DEF Init, Fresh, MergeTypes, MergeLabels
<1>2. MergeTypes /\ [Next]_vars => MergeTypes'
  BY MergeTypesStep
<1>3. MergeTypes /\ NotesInv => GitTwinTypeOK
  BY DEF MergeTypes, NotesInv, AnchorTypes, GitTwinTypeOK
<1>4. QED
  BY <1>1, <1>2, <1>3, NotesInvariant, PTL DEF Spec
-----------------------------------------------------------------------------
(* Written for good.                                                       *)

Stands(i) == anchors'[i] = anchors[i] /\ Acking(i)' = {}

LEMMA StandsStep ==
  ASSUME NotesInv, [Next]_vars, NEW i \in DOMAIN anchors,
         anchors[i].status = "written", Acking(i) = {}
  PROVE  Stands(i)
<1>0. \A a \in acks : a.step = "update" => a.anchor # i
  BY DEF Acking
<1>1. ASSUME anchors' = anchors, acks' \subseteq acks PROVE Stands(i)
  BY <1>0, <1>1 DEF Stands, Acking
<1>2. CASE UNCHANGED anchorVars
  BY <1>1, <1>2 DEF anchorVars, serverAnchors
<1>3. CASE EnqueueAnchor
  <2>1. anchors \in Seq(Anchor) /\ i \in 1..Len(anchors)
    BY Rows DEF NotesInv, AnchorTypes
  <2>2. anchors'[i] = anchors[i]
    BY <1>3, <2>1 DEF EnqueueAnchor
  <2>3. QED
    BY <1>0, <1>3, <2>2 DEF EnqueueAnchor, Stands, Acking
<1>4. CASE AckRead
  <2>1. PICK a \in acks :
          /\ a.step = "read"
          /\ IF anchors[a.anchor].status = "written" THEN AnswerAck(a)
             ELSE acks' = (acks \ {a}) \cup {[a EXCEPT !.step = "update"]}
    BY <1>4 DEF AckRead
  <2>2. anchors' = anchors
    BY <1>4 DEF AckRead
  <2>3. CASE a.anchor = i
    BY <1>1, <2>1, <2>2, <2>3 DEF AnswerAck
  <2>4. CASE a.anchor # i
    <3>1. a \in Ack
      BY AckFields DEF NotesInv
    <3>2. [a EXCEPT !.step = "update"].anchor # i
      BY <2>4, <3>1 DEF Ack
    <3>3. \A d \in acks' : d \in acks \/ d.anchor # i
      BY <2>1, <3>2 DEF AnswerAck
    <3>4. QED
      BY <1>0, <2>2, <3>3 DEF Stands, Acking
  <2>5. QED
    BY <2>3, <2>4
<1>5. CASE AckUpdate
  <2>1. PICK a \in acks :
          /\ a.step = "update" /\ acks' = acks \ {a}
          /\ \/ anchors' = anchors
             \/ anchors' = [anchors EXCEPT ![a.anchor] =
                              [status |-> "written", commit |-> a.commit]]
    BY <1>5 DEF AckUpdate, AnswerAck
  <2>2. a.anchor # i
    BY <1>0, <2>1
  <2>3. anchors'[i] = anchors[i]
    BY <2>1, <2>2
  <2>4. QED
    BY <1>0, <2>1, <2>3 DEF Stands, Acking
<1>6. CASE AckTimesOut
  <2>1. PICK a \in acks : acks' = (acks \ {a}) \cup {[a EXCEPT !.waits = None]}
    BY <1>6 DEF AckTimesOut
  <2>2. a \in Ack
    BY AckFields DEF NotesInv
  <2>3. /\ [a EXCEPT !.waits = None].step = a.step
        /\ [a EXCEPT !.waits = None].anchor = a.anchor
    BY <2>2 DEF Ack
  <2>4. anchors' = anchors
    BY <1>6 DEF AckTimesOut
  <2>5. QED
    BY <1>0, <2>1, <2>3, <2>4 DEF Stands, Acking
<1>7. ASSUME NEW b \in Bridges, BridgeStep(b) PROVE Stands(i)
  <2>1. CASE PostAck(b)
    <3>1. \A d \in acks' : d \in acks \/ d.step = "read"
      BY <2>1 DEF PostAck
    <3>2. QED
      BY <1>0, <2>1, <3>1 DEF PostAck, Stands, Acking
  <2>2. CASE ListPending(b) \/ Fetch(b) \/ AddNote(b) \/ Push(b)
    BY <1>1, <2>2 DEF ListPending, Fetch, AddNote, Push, serverAnchors
  <2>3. QED
    BY <1>7, <2>1, <2>2 DEF BridgeStep
<1>8. ASSUME NEW b \in Bridges, BridgeDies(b) PROVE Stands(i)
  <2>1. /\ anchors' = anchors
        /\ acks' = {IF a.waits = b THEN [a EXCEPT !.waits = None] ELSE a : a \in acks}
    BY <1>8 DEF BridgeDies
  <2>2. ASSUME NEW a \in acks
        PROVE  /\ [a EXCEPT !.waits = None].step = a.step
               /\ [a EXCEPT !.waits = None].anchor = a.anchor
    <3>1. a \in Ack
      BY AckFields DEF NotesInv
    <3>2. QED
      BY <3>1 DEF Ack
  <2>3. \A d \in acks' : \E a \in acks : d.step = a.step /\ d.anchor = a.anchor
    BY <2>1, <2>2
  <2>4. QED
    BY <1>0, <2>1, <2>3 DEF Stands, Acking
<1>9. CASE ServerDies
  BY <1>1, <1>9 DEF ServerDies
<1>10. CASE \/ Deliver \/ PostMerge \/ PostTimesOut \/ HookDone \/ MembershipChanges
            \/ \E h \in Handlers : MergeStep(h)
  BY <1>2, <1>10
     DEF Deliver, PostMerge, PostTimesOut, HookDone, MembershipChanges, MergeStep,
         Idempotency, FindAuthor, Propose, RecordProposal, Approve, MarkApproved
<1>11. CASE UNCHANGED vars
  BY <1>2, <1>11 DEF vars
<1>12. QED
  BY <1>3, <1>4, <1>5, <1>6, <1>7, <1>8, <1>9, <1>10, <1>11 DEF Next, AckStep

\* A written anchor keeps its commit: AckAnchor refuses a second bridge's,
\* unless that one read the row while it was still pending.
THEOREM WrittenAlwaysStands == Spec => WrittenStands
<1>1. NotesInv /\ [Next]_vars =>
        [\A i \in DOMAIN anchors :
           anchors[i].status = "written" /\ Acking(i) = {}
             => anchors'[i] = anchors[i] /\ Acking(i)' = {}]_vars
  BY StandsStep DEF Stands
<1>2. QED
  BY <1>1, NotesInvariant, PTL DEF Spec, WrittenStands
-----------------------------------------------------------------------------
(* A merge is credited once.                                               *)
(*                                                                         *)
(* The count of awards is not inductive by itself: a handler that has not  *)
(* seen the merge approved may still award it.  The invariant sets aside a *)
(* part of the allowance for each of them.                                 *)

Busy == MergeLabels \ {"idle"}
\* Past the check of the event row, and before the award; with the check; and
\* past the upsert, which may have been lost.
Past == {"author", "propose", "record", "approve"}
Begun == Past \cup {"idempotency"}
Recorded == {"approve", "mark"}

\* The handlers that serve merge m and are at one of labels.
ServingAt(m, labels) == {h \in Handlers : pc[h] \in labels /\ req[h].merge = m}
Count(m, labels) == Cardinality(ServingAt(m, labels))

Allowance(m) == 1 + overlaps[m] + faults

\* Unless the merge is approved and no handler can say otherwise any more,
\* each handler that has begun has its share of the allowance; if nobody is
\* at it, so has the next one.  Where the row was never inserted no mark will
\* take effect, but a fault has paid for that.
MayAward(m) ==
  /\ Awarded(m) + Count(m, Past) <= Allowance(m)
  /\ ~Approved(m) \/ Count(m, Past) > 0 =>
       Awarded(m) + Count(m, Begun) <= Allowance(m)
  /\ ~Approved(m) /\ Count(m, Busy) = 0 => Awarded(m) < Allowance(m)
  /\ m \notin DOMAIN gitEvents =>
       Awarded(m) + Count(m, Begun) + Count(m, Recorded) <= Allowance(m)

\* A merge is marked only once it has been awarded.
MarkIsAwarded(m) ==
  Approved(m) \/ ServingAt(m, {"mark"}) # {} => Awarded(m) > 0

\* The inductive invariant.
AwardInv == \A m \in Merges : MayAward(m) /\ MarkIsAwarded(m)

LEMMA AwardedTyped ==
  ASSUME MergeTypes, NEW m \in Merges
  PROVE  Awarded(m) \in Nat /\ Allowance(m) \in Nat
<1>1. awards[m] \in [Covenants -> Nat]
  BY DEF MergeTypes
<1>2. SumFunctionOnSet(awards[m], Covenants) \in Nat
  BY <1>1, SumNatural, GitTwinAssumption
<1>3. QED
  BY <1>1, <1>2 DEF Awarded, SumFunction, Allowance, MergeTypes

LEMMA AwardAdds ==
  ASSUME MergeTypes, NEW h \in Handlers, Award(h), NEW m \in Merges
  PROVE  Awarded(m)' = Awarded(m) + (IF m = req[h].merge THEN 1 ELSE 0)
<1> DEFINE c == req[h].covenant
           f == awards[req[h].merge]
           g == awards'[req[h].merge]
           R == Covenants \ {c}
<1>1. req[h].merge \in Merges /\ c \in Covenants
  BY DEF MergeTypes, Request
<1>2. CASE m # req[h].merge
  <2>1. awards'[m] = awards[m]
    BY <1>2 DEF Award, MergeTypes
  <2>2. Awarded(m)' = Awarded(m)
    BY <2>1 DEF Awarded
  <2>3. QED
    BY <1>2, <2>2, AwardedTyped
<1>3. CASE m = req[h].merge
  <2>1. f \in [Covenants -> Nat]
    BY <1>1 DEF MergeTypes
  <2>2. g = [f EXCEPT ![c] = @ + 1]
    BY <1>1 DEF Award, MergeTypes
  <2>3. Awarded(m) = SumFunctionOnSet(f, Covenants)
        /\ Awarded(m)' = SumFunctionOnSet(g, Covenants)
    BY <1>3, <2>1, <2>2 DEF Awarded, SumFunction
  <2> HIDE DEF f, g, c
  <2>4. g \in [Covenants -> Nat] /\ g[c] = f[c] + 1 /\ f[c] \in Nat
    BY <1>1, <2>1, <2>2
  <2>5. \A x \in R : f[x] = g[x]
    BY <2>1, <2>2
  <2>6. IsFiniteSet(R)
    BY GitTwinAssumption, FS_Subset
  <2>7. SumFunctionOnSet(g, R) = SumFunctionOnSet(f, R)
    BY <2>5, <2>6, SumReads
  <2>8. SumFunctionOnSet(f, R) \in Nat
    BY <2>1, <2>6, SumNatural
  <2>9. /\ SumFunctionOnSet(f, Covenants) = f[c] + SumFunctionOnSet(f, R)
        /\ SumFunctionOnSet(g, Covenants) = g[c] + SumFunctionOnSet(g, R)
    BY <1>1, <2>1, <2>4, SumRemoves, GitTwinAssumption
  <2>10. QED
    BY <1>3, <2>3, <2>4, <2>7, <2>8, <2>9
<1>4. QED
  BY <1>2, <1>3

LEMMA CountTyped ==
  ASSUME NEW m, NEW labels
  PROVE  /\ IsFiniteSet(ServingAt(m, labels)) /\ Count(m, labels) \in Nat
         /\ Count(m, labels) = 0 <=> ServingAt(m, labels) = {}
<1>1. ServingAt(m, labels) \in SUBSET Handlers
  BY DEF ServingAt
<1>2. IsFiniteSet(ServingAt(m, labels))
  BY <1>1, FS_Subset, GitTwinAssumption
<1>3. QED
  BY <1>2, FS_CardinalityType, FS_EmptySet DEF Count

LEMMA CountGrows ==
  ASSUME NEW m, NEW labels, NEW more, labels \subseteq more
  PROVE  Count(m, labels) <= Count(m, more)
<1>1. ServingAt(m, labels) \in SUBSET ServingAt(m, more)
  BY DEF ServingAt
<1>2. QED
  BY <1>1, CountTyped, FS_Subset DEF Count

\* A handler that counts towards more labels makes a difference.
LEMMA CountLess ==
  ASSUME NEW m, NEW labels, NEW more, labels \subseteq more,
         NEW h \in Handlers, req[h].merge = m, pc[h] \in more, pc[h] \notin labels
  PROVE  Count(m, labels) < Count(m, more)
<1>1. ServingAt(m, labels) \in SUBSET ServingAt(m, more)
  BY DEF ServingAt
<1>2. h \in ServingAt(m, more) /\ h \notin ServingAt(m, labels)
  BY DEF ServingAt
<1>3. /\ Count(m, labels) <= Count(m, more) /\ Count(m, labels) # Count(m, more)
      /\ Count(m, labels) \in Nat /\ Count(m, more) \in Nat
  BY <1>1, <1>2, CountTyped, FS_Subset DEF Count
<1>4. QED
  BY <1>3

\* How many a set counts more or less when one of labels is entered or left.
In(label, labels) == IF label \in labels THEN 1 ELSE 0

\* A handler moves on, or comes to its end.
LEMMA HandlerMoves ==
  ASSUME MergeTypes, NEW h \in Handlers, NEW l \in MergeLabels,
         Goto(h, l) \/ (l = "idle" /\ Answer(h)),
         NEW m, NEW labels, "idle" \notin labels
  PROVE  Count(m, labels)' =
           IF m = req[h].merge
           THEN Count(m, labels) + In(l, labels) - In(pc[h], labels)
           ELSE Count(m, labels)
<1> DEFINE S == ServingAt(m, labels)
           T == ServingAt(m, labels)'
<1>1. /\ pc'[h] = l
      /\ l = "idle" \/ req'[h] = req[h]
      /\ \A g \in Handlers \ {h} : pc'[g] = pc[g] /\ req'[g] = req[g]
  BY DEF Goto, Answer, MergeTypes
<1>2. IsFiniteSet(S) /\ Count(m, labels) = Cardinality(S)
        /\ Count(m, labels)' = Cardinality(T) /\ Cardinality(S) \in Nat
  BY CountTyped DEF Count
<1>3. \A g \in Handlers \ {h} : g \in S <=> g \in T
  BY <1>1 DEF ServingAt
<1>4. S \subseteq Handlers /\ T \subseteq Handlers
  BY DEF ServingAt
<1>5. CASE m # req[h].merge
  <2>1. h \notin S /\ h \notin T
    BY <1>1, <1>5 DEF ServingAt
  <2>2. S = T
    BY <1>3, <1>4, <2>1
  <2>3. QED
    BY <1>2, <1>5, <2>2
<1>6. CASE m = req[h].merge
  <2>1. h \in S <=> pc[h] \in labels
    BY <1>6 DEF ServingAt
  <2>2. h \in T <=> l \in labels
    BY <1>1, <1>6 DEF ServingAt
  <2> HIDE DEF S, T
  <2>3. CASE l \in labels
    <3>1. T = S \cup {h}
      BY <1>3, <1>4, <2>2, <2>3
    <3>2. Cardinality(T) = IF h \in S THEN Cardinality(S) ELSE Cardinality(S) + 1
      BY <1>2, <3>1, FS_AddElement
    <3>3. In(l, labels) = 1 /\ In(pc[h], labels) = IF h \in S THEN 1 ELSE 0
      BY <2>1, <2>3 DEF In
    <3>4. QED
      BY <1>2, <1>6, <3>2, <3>3
  <2>4. CASE l \notin labels
    <3>1. T = S \ {h}
      BY <1>3, <1>4, <2>2, <2>4
    <3>2. Cardinality(T) = IF h \in S THEN Cardinality(S) - 1 ELSE Cardinality(S)
      BY <1>2, <3>1, FS_RemoveElement
    <3>3. In(l, labels) = 0 /\ In(pc[h], labels) = IF h \in S THEN 1 ELSE 0
      BY <2>1, <2>4 DEF In
    <3>4. QED
      BY <1>2, <1>6, <3>2, <3>3
  <2>5. QED
    BY <2>3, <2>4
<1>7. QED
  BY <1>5, <1>6

\* A handler that was idle begins with request q.
Begins(h, q) ==
  /\ pc[h] = "idle"
  /\ pc' = [pc EXCEPT ![h] = "idempotency"]
  /\ req' = [req EXCEPT ![h] = q]

LEMMA CountBegins ==
  ASSUME MergeTypes, NEW h \in Handlers, NEW q, Begins(h, q),
         NEW m, NEW labels, "idle" \notin labels
  PROVE  Count(m, labels)' =
           IF m = q.merge THEN Count(m, labels) + In("idempotency", labels)
                          ELSE Count(m, labels)
<1> DEFINE S == ServingAt(m, labels)
           T == ServingAt(m, labels)'
<1>1. /\ pc'[h] = "idempotency" /\ req'[h] = q
      /\ \A g \in Handlers \ {h} : pc'[g] = pc[g] /\ req'[g] = req[g]
  BY DEF Begins, MergeTypes
<1>2. IsFiniteSet(S) /\ Count(m, labels) = Cardinality(S)
        /\ Count(m, labels)' = Cardinality(T) /\ Cardinality(S) \in Nat
  BY CountTyped DEF Count
<1>3. h \notin S
  BY DEF Begins, ServingAt
<1>4. T = IF m = q.merge /\ "idempotency" \in labels THEN S \cup {h} ELSE S
  BY <1>1, <1>3 DEF ServingAt
<1> HIDE DEF S, T
<1>5. Cardinality(S \cup {h}) = Cardinality(S) + 1
  BY <1>2, <1>3, FS_AddElement
<1>6. QED
  BY <1>2, <1>4, <1>5 DEF In

\* What MayAward compares.
LEMMA CountsTyped ==
  ASSUME MergeTypes, NEW m \in Merges
  PROVE  /\ Awarded(m) \in Nat /\ Allowance(m) \in Nat
         /\ Count(m, Past) \in Nat /\ Count(m, Begun) \in Nat
         /\ Count(m, Busy) \in Nat /\ Count(m, Recorded) \in Nat
         /\ Count(m, Past) <= Count(m, Begun) /\ Count(m, Begun) <= Count(m, Busy)
         /\ Count(m, Recorded) <= Count(m, Busy)
<1>1. /\ Past \subseteq Begun /\ Begun \subseteq Busy /\ Recorded \subseteq Busy
  BY DEF Past, Begun, Busy, Recorded, MergeLabels
<1>2. QED
  BY <1>1, AwardedTyped, CountTyped, CountGrows

\* Nothing but the allowance changes, and that grows.
LEMMA MayAwardKept ==
  ASSUME MergeTypes, MergeTypes', NEW m \in Merges, MayAward(m),
         UNCHANGED <<Count(m, Past), Count(m, Begun), Count(m, Busy),
                     Count(m, Recorded)>>,
         Awarded(m)' = Awarded(m), Allowance(m) <= Allowance(m)',
         Approved(m)' <=> Approved(m),
         m \in DOMAIN gitEvents' <=> m \in DOMAIN gitEvents
  PROVE  MayAward(m)'
<1>1. Allowance(m) \in Nat /\ Allowance(m)' \in Nat /\ Awarded(m) \in Nat
  BY AwardedTyped DEF MergeTypes, Allowance
<1>2. /\ Count(m, Past) \in Nat /\ Count(m, Begun) \in Nat
      /\ Count(m, Busy) \in Nat /\ Count(m, Recorded) \in Nat
  BY CountTyped
<1>3. QED
  BY <1>1, <1>2 DEF MayAward

LEMMA AllowanceGrows ==
  ASSUME MergeTypes, overlaps' = overlaps, Fault \/ UNCHANGED bounds, NEW m \in Merges
  PROVE  /\ Allowance(m)' = Allowance(m) + (IF Fault THEN 1 ELSE 0)
         /\ Allowance(m) <= Allowance(m)'
<1>1. Allowance(m) \in Nat /\ faults \in Nat /\ overlaps[m] \in Nat
  BY AwardedTyped DEF MergeTypes
<1>2. faults' = faults + (IF Fault THEN 1 ELSE 0)
  BY <1>1 DEF Fault, bounds
<1>3. QED
  BY <1>1, <1>2 DEF Allowance

LEMMA EventSet ==
  ASSUME NEW m, NEW s, SetEvent(m, s), NEW n
  PROVE  /\ n # m => /\ n \in DOMAIN gitEvents' <=> n \in DOMAIN gitEvents
                     /\ Approved(n)' <=> Approved(n)
         /\ n = m => n \in DOMAIN gitEvents' /\ (Approved(n)' <=> s = "approved")
<1>1. gitEvents' = [e \in DOMAIN gitEvents \cup {m} |->
                     IF e = m THEN s ELSE gitEvents[e]]
  BY DEF SetEvent
<1>2. DOMAIN gitEvents' = DOMAIN gitEvents \cup {m}
  BY <1>1
<1>3. \A e \in DOMAIN gitEvents' : gitEvents'[e] = IF e = m THEN s ELSE gitEvents[e]
  BY <1>1
<1>4. QED
  BY <1>2, <1>3 DEF Approved

\* A handler's step changes nothing for the merges it does not serve.
LEMMA OthersMayAward ==
  ASSUME MergeTypes, MergeTypes', NEW h \in Handlers, MergeStep(h),
         NEW m \in Merges, m # req[h].merge, MayAward(m)
  PROVE  MayAward(m)'
<1>1. /\ overlaps' = overlaps
      /\ Fault \/ UNCHANGED bounds
      /\ Answer(h) \/ \E l \in MergeLabels : Goto(h, l)
      /\ Award(h) \/ UNCHANGED awards
      /\ \/ UNCHANGED gitEvents
         \/ \E s \in {"proposed", "approved"} : SetEvent(req[h].merge, s)
  <2>1. CASE Idempotency(h) \/ FindAuthor(h) \/ Propose(h)
    BY <2>1 DEF Idempotency, FindAuthor, Propose, MergeLabels
  <2>2. CASE RecordProposal(h)
    BY <2>2 DEF RecordProposal, MergeLabels
  <2>3. CASE Approve(h)
    BY <2>3 DEF Approve, MergeLabels
  <2>4. CASE MarkApproved(h)
    BY <2>4 DEF MarkApproved
  <2>5. QED
    BY <2>1, <2>2, <2>3, <2>4 DEF MergeStep
<1>2. Allowance(m) <= Allowance(m)'
  BY <1>1, AllowanceGrows
<1>3. Awarded(m)' = Awarded(m)
  <2>1. CASE Award(h)
    BY <2>1, AwardAdds, AwardedTyped
  <2>2. CASE UNCHANGED awards
    BY <2>2 DEF Awarded
  <2>3. QED
    BY <1>1, <2>1, <2>2
<1>4. /\ Approved(m)' <=> Approved(m)
      /\ m \in DOMAIN gitEvents' <=> m \in DOMAIN gitEvents
  <2>1. CASE UNCHANGED gitEvents
    BY <2>1 DEF Approved
  <2>2. CASE \E s \in {"proposed", "approved"} : SetEvent(req[h].merge, s)
    BY <2>2, EventSet
  <2>3. QED
    BY <1>1, <2>1, <2>2
<1>5. PICK l \in MergeLabels : Goto(h, l) \/ (l = "idle" /\ Answer(h))
  BY <1>1 DEF MergeLabels
<1>6. /\ "idle" \notin Past /\ "idle" \notin Begun /\ "idle" \notin Busy
      /\ "idle" \notin Recorded
  BY DEF Past, Begun, Busy, Recorded
<1>7. UNCHANGED <<Count(m, Past), Count(m, Begun), Count(m, Busy),
                  Count(m, Recorded)>>
  BY <1>5, <1>6, HandlerMoves
<1>8. QED
  BY <1>2, <1>3, <1>4, <1>7, MayAwardKept

\* The four counts after a handler has gone from one label to another.
LEMMA CountsMove ==
  ASSUME MergeTypes, NEW h \in Handlers, NEW l \in MergeLabels,
         Goto(h, l) \/ (l = "idle" /\ Answer(h)), NEW m \in Merges, m = req[h].merge
  PROVE  /\ Count(m, Past)' = Count(m, Past) + In(l, Past) - In(pc[h], Past)
         /\ Count(m, Begun)' = Count(m, Begun) + In(l, Begun) - In(pc[h], Begun)
         /\ Count(m, Busy)' = Count(m, Busy) + In(l, Busy) - In(pc[h], Busy)
         /\ Count(m, Recorded)' =
              Count(m, Recorded) + In(l, Recorded) - In(pc[h], Recorded)
<1>1. /\ "idle" \notin Past /\ "idle" \notin Begun /\ "idle" \notin Busy
      /\ "idle" \notin Recorded
  BY DEF Past, Begun, Busy, Recorded
<1>2. QED
  BY <1>1, HandlerMoves

LEMMA IdempotencyMayAward ==
  ASSUME MergeTypes, MergeTypes', NEW h \in Handlers, Idempotency(h),
         NEW m \in Merges, m = req[h].merge, MayAward(m)
  PROVE  MayAward(m)'
<1>1. /\ Awarded(m)' = Awarded(m) /\ Allowance(m)' = Allowance(m)
      /\ Approved(m)' <=> Approved(m)
      /\ m \in DOMAIN gitEvents' <=> m \in DOMAIN gitEvents
  BY DEF Idempotency, Awarded, Allowance, Approved, bounds
<1>2. pc[h] = "idempotency"
  BY DEF Idempotency, At
<1>3. CASE Approved(m)
  <2>1. Answer(h) /\ "idle" \in MergeLabels
    BY <1>3 DEF Idempotency, MergeLabels
  <2>2. /\ Count(m, Past)' = Count(m, Past)
        /\ Count(m, Begun)' = Count(m, Begun) - 1
    BY <1>2, <2>1, CountsMove, CountsTyped DEF In, Past, Begun
  <2>3. m \in DOMAIN gitEvents
    BY <1>3 DEF Approved
  <2>4. QED
    BY <1>1, <1>3, <2>2, <2>3, CountsTyped DEF MayAward
<1>4. CASE ~Approved(m)
  <2>1. Goto(h, "author") /\ "author" \in MergeLabels
    BY <1>4 DEF Idempotency, MergeLabels
  <2>2. /\ Count(m, Past)' = Count(m, Past) + 1
        /\ Count(m, Begun)' = Count(m, Begun)
        /\ Count(m, Busy)' = Count(m, Busy)
        /\ Count(m, Recorded)' = Count(m, Recorded)
    BY <1>2, <2>1, CountsMove, CountsTyped
       DEF In, Past, Begun, Busy, Recorded, MergeLabels
  <2>3. Count(m, Past) < Count(m, Begun)
    BY <1>2, CountLess DEF Past, Begun
  <2>4. QED
    BY <1>1, <1>4, <2>2, <2>3, CountsTyped DEF MayAward
<1>5. QED
  BY <1>3, <1>4

\* The author is looked up, or the draft proposed: the handler goes on, or
\* answers without an award.
LEMMA ProposeMayAward ==
  ASSUME MergeTypes, MergeTypes', NEW h \in Handlers, FindAuthor(h) \/ Propose(h),
         NEW m \in Merges, m = req[h].merge, MayAward(m)
  PROVE  MayAward(m)'
<1>1. /\ Awarded(m)' = Awarded(m) /\ Allowance(m)' = Allowance(m)
      /\ Approved(m)' <=> Approved(m)
      /\ m \in DOMAIN gitEvents' <=> m \in DOMAIN gitEvents
  BY DEF FindAuthor, Propose, Awarded, Allowance, Approved, bounds
<1>2. pc[h] \in {"author", "propose"}
  BY DEF FindAuthor, Propose, At
<1>3. Answer(h) \/ Goto(h, "propose") \/ Goto(h, "record")
  BY DEF FindAuthor, Propose
<1>4. CASE Answer(h)
  <2>1. "idle" \in MergeLabels
    BY DEF MergeLabels
  <2>2. /\ Count(m, Past)' = Count(m, Past) - 1
        /\ Count(m, Begun)' = Count(m, Begun) - 1
        /\ Count(m, Recorded)' = Count(m, Recorded)
    BY <1>2, <1>4, <2>1, CountsMove, CountsTyped DEF In, Past, Begun, Recorded
  <2>3. Count(m, Past) > 0
    <3>1. h \in ServingAt(m, Past)
      BY <1>2 DEF ServingAt, Past
    <3>2. QED
      BY <3>1, CountTyped, CountsTyped
  <2>4. QED
    BY <1>1, <2>2, <2>3, CountsTyped DEF MayAward
<1>5. CASE Goto(h, "propose") \/ Goto(h, "record")
  <2>1. {"propose", "record"} \subseteq MergeLabels
    BY DEF MergeLabels
  <2>2. /\ Count(m, Past)' = Count(m, Past)
        /\ Count(m, Begun)' = Count(m, Begun)
        /\ Count(m, Busy)' = Count(m, Busy)
        /\ Count(m, Recorded)' = Count(m, Recorded)
    BY <1>2, <1>5, <2>1, CountsMove, CountsTyped
       DEF In, Past, Begun, Busy, Recorded, MergeLabels
  <2>3. QED
    BY <1>1, <2>2, MayAwardKept, CountsTyped
<1>6. QED
  BY <1>3, <1>4, <1>5

LEMMA RecordMayAward ==
  ASSUME MergeTypes, MergeTypes', NEW h \in Handlers, RecordProposal(h),
         NEW m \in Merges, m = req[h].merge, MayAward(m)
  PROVE  MayAward(m)'
<1>1. pc[h] = "record" /\ Goto(h, "approve") /\ "approve" \in MergeLabels
  BY DEF RecordProposal, At, MergeLabels
<1>2. /\ Count(m, Past)' = Count(m, Past)
      /\ Count(m, Begun)' = Count(m, Begun)
      /\ Count(m, Busy)' = Count(m, Busy)
      /\ Count(m, Recorded)' = Count(m, Recorded) + 1
  BY <1>1, CountsMove, CountsTyped DEF In, Past, Begun, Busy, Recorded, MergeLabels
<1>3. Awarded(m)' = Awarded(m)
  BY DEF RecordProposal, Awarded
<1>4. Count(m, Past) > 0 /\ Count(m, Busy) > 0
  <2>1. h \in ServingAt(m, Past)
    BY <1>1 DEF ServingAt, Past
  <2>2. QED
    BY <2>1, CountTyped, CountsTyped
<1>5. Awarded(m) + Count(m, Begun) <= Allowance(m)
  BY <1>4 DEF MayAward
<1>6. CASE SetEvent(m, "proposed") /\ UNCHANGED bounds
  <2>1. m \in DOMAIN gitEvents'
    BY <1>6, EventSet
  <2>2. Allowance(m)' = Allowance(m)
    BY <1>6 DEF RecordProposal, Allowance, bounds
  <2>3. QED
    BY <1>2, <1>3, <1>4, <1>5, <2>1, <2>2, CountsTyped DEF MayAward
<1>7. CASE Fault /\ UNCHANGED gitEvents
  <2>1. /\ m \in DOMAIN gitEvents' <=> m \in DOMAIN gitEvents
        /\ Approved(m)' <=> Approved(m)
    BY <1>7 DEF Approved
  <2>2. Allowance(m)' = Allowance(m) + 1
    BY <1>7, AllowanceGrows DEF RecordProposal
  <2>3. QED
    BY <1>2, <1>3, <1>4, <1>5, <2>1, <2>2, CountsTyped DEF MayAward
<1>8. QED
  BY <1>6, <1>7 DEF RecordProposal

LEMMA ApproveMayAward ==
  ASSUME MergeTypes, MergeTypes', NEW h \in Handlers, Approve(h),
         NEW m \in Merges, m = req[h].merge, MayAward(m)
  PROVE  MayAward(m)'
<1>1. /\ pc[h] = "approve" /\ {"mark", "idle"} \subseteq MergeLabels
      /\ Approved(m)' <=> Approved(m)
      /\ m \in DOMAIN gitEvents' <=> m \in DOMAIN gitEvents
  BY DEF Approve, At, MergeLabels, Approved
<1>2. Count(m, Past) > 0 /\ Count(m, Busy) > 0
  <2>1. h \in ServingAt(m, Past)
    BY <1>1 DEF ServingAt, Past
  <2>2. QED
    BY <2>1, CountTyped, CountsTyped
<1>3. Awarded(m) + Count(m, Begun) <= Allowance(m)
  BY <1>2 DEF MayAward
<1>4. CASE Goto(h, "mark")
  <2>1. Award(h) /\ UNCHANGED bounds
    BY <1>1, <1>4 DEF Approve, Goto, Answer, MergeTypes
  <2>2. Awarded(m)' = Awarded(m) + 1
    BY <2>1, AwardAdds
  <2>3. Allowance(m)' = Allowance(m)
    BY <2>1 DEF Approve, Allowance, bounds
  <2>4. /\ Count(m, Past)' = Count(m, Past) - 1
        /\ Count(m, Begun)' = Count(m, Begun) - 1
        /\ Count(m, Busy)' = Count(m, Busy)
        /\ Count(m, Recorded)' = Count(m, Recorded)
    BY <1>1, <1>4, CountsMove, CountsTyped
       DEF In, Past, Begun, Busy, Recorded, MergeLabels
  <2>5. QED
    BY <1>1, <1>2, <1>3, <2>2, <2>3, <2>4, CountsTyped DEF MayAward
<1>5. CASE Answer(h)
  <2>1. /\ Count(m, Past)' = Count(m, Past) - 1
        /\ Count(m, Begun)' = Count(m, Begun) - 1
        /\ Count(m, Recorded)' = Count(m, Recorded) - 1
    BY <1>1, <1>5, CountsMove, CountsTyped DEF In, Past, Begun, Recorded
  <2>2. \/ UNCHANGED <<awards, bounds>>
        \/ Award(h) /\ Fault
    BY <1>1, <1>5 DEF Approve, Goto, Answer, MergeTypes
  <2>3. CASE UNCHANGED <<awards, bounds>>
    <3>1. Awarded(m)' = Awarded(m) /\ Allowance(m)' = Allowance(m)
      BY <2>3 DEF Approve, Awarded, Allowance, bounds
    <3>2. QED
      BY <1>1, <1>2, <1>3, <2>1, <3>1, CountsTyped DEF MayAward
  <2>4. CASE Award(h) /\ Fault
    <3>1. Awarded(m)' = Awarded(m) + 1 /\ Allowance(m)' = Allowance(m) + 1
      BY <2>4, AwardAdds, AllowanceGrows DEF Approve
    <3>2. QED
      BY <1>1, <1>2, <1>3, <2>1, <3>1, CountsTyped DEF MayAward
  <2>5. QED
    BY <2>2, <2>3, <2>4
<1>6. QED
  BY <1>4, <1>5 DEF Approve

LEMMA MarkMayAward ==
  ASSUME MergeTypes, MergeTypes', NEW h \in Handlers, MarkApproved(h),
         NEW m \in Merges, m = req[h].merge, MayAward(m)
  PROVE  MayAward(m)'
<1>1. pc[h] = "mark" /\ Answer(h) /\ "idle" \in MergeLabels
  BY DEF MarkApproved, At, MergeLabels
<1>2. /\ Count(m, Past)' = Count(m, Past)
      /\ Count(m, Begun)' = Count(m, Begun)
      /\ Count(m, Recorded)' = Count(m, Recorded) - 1
  BY <1>1, CountsMove, CountsTyped DEF In, Past, Begun, Recorded
<1>3. Count(m, Recorded) > 0 /\ Count(m, Busy) > 0
  <2>1. h \in ServingAt(m, Recorded)
    BY <1>1 DEF ServingAt, Recorded
  <2>2. QED
    BY <2>1, CountTyped, CountsTyped
<1>4. Awarded(m)' = Awarded(m)
  BY DEF MarkApproved, Awarded
<1>5. CASE Fault /\ UNCHANGED gitEvents
  <2>1. /\ m \in DOMAIN gitEvents' <=> m \in DOMAIN gitEvents
        /\ Approved(m)' <=> Approved(m)
    BY <1>5 DEF Approved
  <2>2. Allowance(m)' = Allowance(m) + 1
    BY <1>5, AllowanceGrows DEF MarkApproved
  <2>3. QED
    BY <1>2, <1>3, <1>4, <2>1, <2>2, CountsTyped DEF MayAward
<1>6. CASE m \in DOMAIN gitEvents /\ SetEvent(m, "approved") /\ UNCHANGED bounds
  <2>1. m \in DOMAIN gitEvents' /\ Approved(m)'
    BY <1>6, EventSet
  <2>2. Allowance(m)' = Allowance(m)
    BY <1>6 DEF MarkApproved, Allowance, bounds
  <2>3. QED
    BY <1>2, <1>3, <1>4, <2>1, <2>2, CountsTyped DEF MayAward
<1>7. CASE m \notin DOMAIN gitEvents /\ UNCHANGED <<gitEvents, bounds>>
  <2>1. Allowance(m)' = Allowance(m) /\ ~Approved(m) /\ m \notin DOMAIN gitEvents'
    BY <1>7 DEF MarkApproved, Allowance, bounds, Approved
  <2>2. QED
    BY <1>2, <1>3, <1>4, <1>7, <2>1, CountsTyped DEF MayAward
<1>8. QED
  BY <1>5, <1>6, <1>7 DEF MarkApproved

LEMMA HandlerMayAward ==
  ASSUME MergeTypes, MergeTypes', NEW h \in Handlers, MergeStep(h),
         NEW m \in Merges, MayAward(m)
  PROVE  MayAward(m)'
<1>1. CASE m # req[h].merge
  BY <1>1, OthersMayAward
<1>2. CASE m = req[h].merge
  BY <1>2, IdempotencyMayAward, ProposeMayAward, RecordMayAward, ApproveMayAward,
     MarkMayAward DEF MergeStep
<1>3. QED
  BY <1>1, <1>2

\* A request that finds nobody at its merge takes what is left of the
\* allowance; any other raises it.
LEMMA BeginMayAward ==
  ASSUME MergeTypes, MergeTypes', PostMerge, NEW m \in Merges, MayAward(m)
  PROVE  MayAward(m)'
<1>1. PICK k \in hooks, h \in Handlers, c \in Covenants :
        /\ pc[h] = "idle"
        /\ req' = [req EXCEPT ![h] = [merge |-> k.merge, covenant |-> c]]
        /\ pc' = [pc EXCEPT ![h] = "idempotency"]
        /\ overlaps' = [overlaps EXCEPT ![k.merge] =
                          IF Serving(k.merge) = {} THEN @ ELSE @ + 1]
        /\ UNCHANGED <<gitEvents, awards, bounds>>
  <2>1. \A k \in hooks : k.todo \subseteq Covenants
    BY DEF MergeTypes, Hook
  <2>2. QED
    BY <2>1 DEF PostMerge
<1>2. PICK q : q = [merge |-> k.merge, covenant |-> c]
  OBVIOUS
<1>3. q.merge = k.merge /\ k.merge \in Merges
  BY <1>2 DEF MergeTypes, Hook
<1>4. /\ Awarded(m)' = Awarded(m)
      /\ Approved(m)' <=> Approved(m)
  BY <1>1 DEF Awarded, Approved
<1>5. /\ "idle" \notin Past /\ "idle" \notin Begun /\ "idle" \notin Busy
      /\ "idle" \notin Recorded /\ "idempotency" \in MergeLabels
  BY DEF Past, Begun, Busy, Recorded, MergeLabels
<1>6. Begins(h, q)
  BY <1>1, <1>2 DEF Begins
<1>7. CASE m # k.merge
  <2>1. UNCHANGED <<Count(m, Past), Count(m, Begun), Count(m, Busy),
                    Count(m, Recorded)>>
    BY <1>3, <1>5, <1>6, <1>7, CountBegins
  <2>2. Allowance(m)' = Allowance(m)
    BY <1>1, <1>3, <1>7 DEF Allowance, bounds, MergeTypes
  <2>3. QED
    BY <1>1, <1>4, <2>1, <2>2, MayAwardKept, CountsTyped
<1>8. CASE m = k.merge
  <2>1. /\ Count(m, Past)' = Count(m, Past)
        /\ Count(m, Begun)' = Count(m, Begun) + 1
        /\ Count(m, Busy)' = Count(m, Busy) + 1
        /\ Count(m, Recorded)' = Count(m, Recorded)
    BY <1>3, <1>5, <1>6, <1>8, CountBegins, CountsTyped
       DEF In, Past, Begun, Busy, Recorded
  <2>2. Serving(m) = ServingAt(m, Busy)
    BY DEF Serving, ServingAt, Busy, MergeTypes
  <2>3. Count(m, Busy) = 0 <=> Serving(m) = {}
    BY <2>2, CountTyped
  <2>4. Allowance(m)' = Allowance(m) + (IF Serving(m) = {} THEN 0 ELSE 1)
    <3>1. overlaps \in [Merges -> Nat] /\ faults \in Nat /\ faults' = faults
      BY <1>1 DEF MergeTypes, bounds
    <3>2. overlaps'[m] = overlaps[m] + (IF Serving(m) = {} THEN 0 ELSE 1)
      BY <1>1, <1>3, <1>8, <3>1
    <3>3. QED
      BY <3>1, <3>2 DEF Allowance
  <2>5. m \in DOMAIN gitEvents' <=> m \in DOMAIN gitEvents
    BY <1>1
  <2>6. m \notin DOMAIN gitEvents => ~Approved(m)
    BY DEF Approved
  <2>7. CASE Serving(m) = {}
    <3>1. /\ Count(m, Busy) = 0 /\ Count(m, Begun) = 0 /\ Count(m, Past) = 0
          /\ Count(m, Recorded) = 0
      BY <2>3, <2>7, CountsTyped
    <3>2. QED
      BY <1>4, <2>1, <2>4, <2>5, <2>6, <2>7, <3>1, CountsTyped DEF MayAward
  <2>8. CASE Serving(m) # {}
    BY <1>4, <2>1, <2>3, <2>4, <2>5, <2>8, CountsTyped DEF MayAward
  <2>9. QED
    BY <2>7, <2>8
<1>9. QED
  BY <1>7, <1>8

LEMMA DeathMayAward ==
  ASSUME MergeTypes, MergeTypes', ServerDies, NEW m \in Merges, MayAward(m)
  PROVE  MayAward(m)'
<1>1. /\ Awarded(m)' = Awarded(m)
      /\ Approved(m)' <=> Approved(m)
      /\ m \in DOMAIN gitEvents' <=> m \in DOMAIN gitEvents
  BY DEF ServerDies, Awarded, Approved
<1>2. Allowance(m)' = Allowance(m) + 1
  BY AllowanceGrows DEF ServerDies
<1>3. ASSUME NEW labels, "idle" \notin labels PROVE Count(m, labels)' = 0
  <2>1. ServingAt(m, labels)' = {}
    BY <1>3 DEF ServerDies, ServingAt
  <2>2. QED
    BY <2>1, FS_EmptySet DEF Count
<1>4. /\ Count(m, Past)' = 0 /\ Count(m, Begun)' = 0 /\ Count(m, Recorded)' = 0
  BY <1>3 DEF Past, Begun, Recorded
<1>5. QED
  BY <1>1, <1>2, <1>4, CountsTyped DEF MayAward

LEMMA AwardInvInit == Init => AwardInv
<1> SUFFICES ASSUME Init PROVE AwardInv
  OBVIOUS
<1>1. /\ gitEvents = [m \in {} |-> "proposed"]
      /\ awards = [m \in Merges |-> [c \in Covenants |-> 0]]
      /\ pc = [h \in Handlers |-> "idle"]
      /\ overlaps = [m \in Merges |-> 0] /\ faults = 0
  BY DEF Init, Fresh
<1>2. ASSUME NEW m \in Merges PROVE Awarded(m) = 0
  <2>1. awards[m] = [c \in Covenants |-> 0]
    BY <1>1
  <2>2. Awarded(m) = SumFunctionOnSet([c \in Covenants |-> 0], Covenants)
    BY <2>1 DEF Awarded, SumFunction
  <2>3. QED
    BY <2>2, SumZero, GitTwinAssumption
<1>3. ASSUME NEW m \in Merges, NEW labels, "idle" \notin labels
      PROVE  Count(m, labels) = 0
  <2>1. ServingAt(m, labels) = {}
    BY <1>1, <1>3 DEF ServingAt
  <2>2. QED
    BY <2>1, FS_EmptySet DEF Count
<1>4. \A m \in Merges : ~Approved(m) /\ Allowance(m) = 1
  BY <1>1 DEF Approved, Allowance
<1>5. ASSUME NEW m \in Merges PROVE MayAward(m)
  <2>1. Count(m, Past) = 0 /\ Count(m, Begun) = 0 /\ Count(m, Recorded) = 0
    BY <1>3 DEF Past, Begun, Recorded
  <2>2. QED
    BY <1>2, <1>4, <2>1 DEF MayAward
<1>6. ASSUME NEW m \in Merges PROVE MarkIsAwarded(m)
  BY <1>1, <1>4 DEF MarkIsAwarded, ServingAt
<1>7. QED
  BY <1>5, <1>6 DEF AwardInv

\* An approved merge, and one about to be marked, has been awarded: awards
\* are never taken back.
LEMMA AwardsStay ==
  ASSUME MergeTypes, [Next]_vars, NEW m \in Merges
  PROVE  Awarded(m) <= Awarded(m)'
<1>1. CASE UNCHANGED awards
  BY <1>1, AwardedTyped DEF Awarded
<1>2. ASSUME NEW h \in Handlers, Award(h) PROVE Awarded(m) <= Awarded(m)'
  BY <1>2, AwardAdds, AwardedTyped
<1>3. UNCHANGED awards \/ \E h \in Handlers : Award(h)
  <2>1. CASE \E h \in Handlers : MergeStep(h)
    BY <2>1 DEF MergeStep, Idempotency, FindAuthor, Propose, RecordProposal,
                Approve, MarkApproved
  <2>2. CASE Deliver \/ PostMerge \/ PostTimesOut \/ HookDone \/ MembershipChanges
    BY <2>2 DEF Deliver, PostMerge, PostTimesOut, HookDone, MembershipChanges
  <2>3. CASE EnqueueAnchor \/ AckStep \/ AckTimesOut \/ ServerDies
    BY <2>3 DEF EnqueueAnchor, AckStep, AckRead, AckUpdate, AckTimesOut, ServerDies,
                mergeVars
  <2>4. CASE \E b \in Bridges : BridgeStep(b) \/ BridgeDies(b)
    BY <2>4 DEF BridgeStep, ListPending, Fetch, AddNote, Push, PostAck, BridgeDies,
                mergeVars
  <2>5. CASE UNCHANGED vars
    BY <2>5 DEF vars, mergeVars
  <2>6. QED
    BY <2>1, <2>2, <2>3, <2>4, <2>5 DEF Next
<1>4. QED
  BY <1>1, <1>2, <1>3

\* Steps that touch neither the handlers nor what they have written.
Elsewhere ==
  /\ UNCHANGED <<gitEvents, awards, pc, req, overlaps>>
  /\ Fault \/ faults' = faults

LEMMA StepsElsewhere ==
  ASSUME [Next]_vars
  PROVE  \/ Elsewhere \/ PostMerge \/ ServerDies
         \/ \E h \in Handlers : MergeStep(h)
<1>1. CASE Deliver \/ PostTimesOut \/ HookDone \/ MembershipChanges
  BY <1>1 DEF Deliver, PostTimesOut, HookDone, MembershipChanges, Elsewhere, bounds
<1>2. CASE EnqueueAnchor \/ AckStep \/ AckTimesOut
  BY <1>2 DEF EnqueueAnchor, AckStep, AckRead, AckUpdate, AckTimesOut, Elsewhere,
              mergeVars, bounds
<1>3. CASE \E b \in Bridges : BridgeStep(b) \/ BridgeDies(b)
  BY <1>3 DEF BridgeStep, ListPending, Fetch, AddNote, Push, PostAck, BridgeDies,
              Elsewhere, mergeVars, bounds
<1>4. CASE UNCHANGED vars
  BY <1>4 DEF vars, Elsewhere, mergeVars, bounds
<1>5. QED
  BY <1>1, <1>2, <1>3, <1>4 DEF Next

LEMMA ElsewhereMayAward ==
  ASSUME MergeTypes, MergeTypes', Elsewhere, NEW m \in Merges, MayAward(m)
  PROVE  MayAward(m)'
<1>1. \A labels : Count(m, labels)' = Count(m, labels)
  BY DEF Elsewhere, Count, ServingAt
<1>2. /\ Awarded(m)' = Awarded(m)
      /\ Approved(m)' <=> Approved(m)
      /\ m \in DOMAIN gitEvents' <=> m \in DOMAIN gitEvents
  BY DEF Elsewhere, Awarded, Approved
<1>3. Allowance(m) <= Allowance(m)'
  <2>1. faults \in Nat /\ faults <= faults' /\ faults' \in Nat /\ overlaps[m] \in Nat
    BY DEF Elsewhere, Fault, MergeTypes
  <2>2. QED
    BY <2>1 DEF Allowance, Elsewhere
<1>4. QED
  BY <1>1, <1>2, <1>3, MayAwardKept

LEMMA HandlerMarks ==
  ASSUME MergeTypes, NEW h \in Handlers, MergeStep(h), NEW m \in Merges,
         Awarded(m) = 0, ~Approved(m), ServingAt(m, {"mark"}) = {}
  PROVE  Awarded(m)' > 0 \/ (~Approved(m)' /\ ServingAt(m, {"mark"})' = {})
<1>1. ASSUME NEW l \in MergeLabels \ {"mark"}, Goto(h, l) \/ (l = "idle" /\ Answer(h))
      PROVE  ServingAt(m, {"mark"})' = {}
  BY <1>1 DEF Goto, Answer, MergeTypes, ServingAt
<1>2. CASE Idempotency(h) \/ FindAuthor(h) \/ Propose(h)
  <2>1. Answer(h) \/ \E l \in MergeLabels \ {"mark"} : Goto(h, l)
    BY <1>2 DEF Idempotency, FindAuthor, Propose, MergeLabels
  <2>2. ~Approved(m)'
    BY <1>2 DEF Idempotency, FindAuthor, Propose, Approved
  <2>3. QED
    BY <1>1, <2>1, <2>2 DEF MergeLabels
<1>3. CASE RecordProposal(h)
  <2>1. Goto(h, "approve") /\ "approve" \in MergeLabels
    BY <1>3 DEF RecordProposal, MergeLabels
  <2>2. UNCHANGED gitEvents \/ SetEvent(req[h].merge, "proposed")
    BY <1>3 DEF RecordProposal
  <2>3. ~Approved(m)'
    <3>1. CASE UNCHANGED gitEvents
      BY <3>1 DEF Approved
    <3>2. CASE SetEvent(req[h].merge, "proposed")
      BY <3>2, EventSet
    <3>3. QED
      BY <2>2, <3>1, <3>2
  <2>4. QED
    BY <1>1, <2>1, <2>3
<1>4. CASE Approve(h)
  <2>1. ~Approved(m)'
    BY <1>4 DEF Approve, Approved
  <2>2. CASE Award(h) /\ m = req[h].merge
    BY <2>2, AwardAdds
  <2>3. CASE Goto(h, "mark") /\ m # req[h].merge
    <3>1. ServingAt(m, {"mark"})' = {}
      BY <2>3 DEF Goto, MergeTypes, ServingAt
    <3>2. QED
      BY <2>1, <3>1
  <2>4. CASE Answer(h)
    BY <1>1, <2>1, <2>4 DEF MergeLabels
  <2>5. QED
    BY <1>4, <2>2, <2>3, <2>4 DEF Approve
<1>5. CASE MarkApproved(h)
  <2>1. pc[h] = "mark" /\ Answer(h)
    BY <1>5 DEF MarkApproved, At
  <2>2. m # req[h].merge
    BY <2>1 DEF ServingAt
  <2>3. UNCHANGED gitEvents \/ SetEvent(req[h].merge, "approved")
    BY <1>5 DEF MarkApproved
  <2>4. ~Approved(m)'
    <3>1. CASE UNCHANGED gitEvents
      BY <3>1 DEF Approved
    <3>2. CASE SetEvent(req[h].merge, "approved")
      BY <2>2, <3>2, EventSet
    <3>3. QED
      BY <2>3, <3>1, <3>2
  <2>5. QED
    BY <1>1, <2>1, <2>4 DEF MergeLabels
<1>6. QED
  BY <1>2, <1>3, <1>4, <1>5 DEF MergeStep

LEMMA AwardInvStep ==
  ASSUME MergeTypes, MergeTypes', AwardInv, [Next]_vars
  PROVE  AwardInv'
<1> SUFFICES ASSUME NEW m \in Merges
             PROVE  MayAward(m)' /\ MarkIsAwarded(m)'
  BY DEF AwardInv
<1>1. MayAward(m) /\ MarkIsAwarded(m)
  BY DEF AwardInv
<1>2. MayAward(m)'
  BY <1>1, StepsElsewhere, ElsewhereMayAward, HandlerMayAward, BeginMayAward,
     DeathMayAward
<1>3. Awarded(m) \in Nat /\ (Awarded(m) > 0 => Awarded(m)' > 0)
  <2>1. awards'[m] \in [Covenants -> Nat]
    BY DEF MergeTypes
  <2>2. SumFunctionOnSet(awards'[m], Covenants) \in Nat
    BY <2>1, SumNatural, GitTwinAssumption
  <2>3. Awarded(m)' \in Nat
    BY <2>1, <2>2 DEF Awarded, SumFunction
  <2>4. QED
    BY <2>3, AwardedTyped, AwardsStay
<1>4. MarkIsAwarded(m)'
  <2>1. CASE Awarded(m) > 0
    BY <1>3, <2>1 DEF MarkIsAwarded
  <2>2. CASE Awarded(m) = 0
    <3>1. ~Approved(m) /\ ServingAt(m, {"mark"}) = {}
      BY <1>1, <2>2 DEF MarkIsAwarded
    <3>2. CASE Elsewhere \/ ServerDies
      BY <3>1, <3>2 DEF Elsewhere, ServerDies, MarkIsAwarded, Approved, ServingAt
    <3>3. CASE PostMerge
      <4>1. /\ gitEvents' = gitEvents
            /\ \E h \in Handlers : \E q : Begins(h, q)
        BY <3>3 DEF PostMerge, Begins
      <4>2. ServingAt(m, {"mark"})' = {}
        BY <3>1, <4>1 DEF Begins, MergeTypes, ServingAt
      <4>3. QED
        BY <3>1, <4>1, <4>2 DEF MarkIsAwarded, Approved
    <3>4. CASE \E h \in Handlers : MergeStep(h)
      BY <2>2, <3>1, <3>4, HandlerMarks DEF MarkIsAwarded
    <3>5. QED
      BY <3>2, <3>3, <3>4, StepsElsewhere
  <2>3. QED
    BY <1>3, <2>1, <2>2
<1>5. QED
  BY <1>2, <1>4

\* A merge is credited once, but for the deliveries that overlap in the server
\* and for what goes wrong between an award and its mark: over all covenants
\* of the repository, for any number of deliveries, handlers and deaths.  And
\* what later deliveries are told is done, has been.
THEOREM MergesAwardedOnce == Spec => []AwardedOnce
<1>1. Init => MergeTypes
  BY NoRequestTyped DEF Init, Fresh, MergeTypes, MergeLabels
<1>2. MergeTypes /\ [Next]_vars => MergeTypes'
  BY MergeTypesStep
<1>3. Init => AwardInv
  BY AwardInvInit
<1>4. MergeTypes /\ MergeTypes' /\ AwardInv /\ [Next]_vars => AwardInv'
  BY AwardInvStep
<1>5. MergeTypes /\ AwardInv => AwardedOnce
  <2> SUFFICES ASSUME MergeTypes, AwardInv, NEW m \in Merges
               PROVE  /\ Awarded(m) <= 1 + overlaps[m] + faults
                      /\ Approved(m) => Awarded(m) > 0
    BY DEF AwardedOnce
  <2>1. MayAward(m) /\ MarkIsAwarded(m)
    BY DEF AwardInv
  <2>2. QED
    BY <2>1, CountsTyped DEF MayAward, MarkIsAwarded, Allowance
<1>6. QED
  BY <1>1, <1>2, <1>3, <1>4, <1>5, PTL DEF Spec
=============================================================================
