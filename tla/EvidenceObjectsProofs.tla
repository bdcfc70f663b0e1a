------------------------ MODULE EvidenceObjectsProofs ------------------------
(* Proofs about EvidenceObjects and PackageObjects: what is served can be  *)
(* read, held evidence is not purged, and intact calls leave no object     *)
(* behind, for any number of workers, keys, epochs and ticks and whatever  *)
(* kinds of work go on side by side, except a review or a renewal beside a *)
(* purge (ProfilesAssumption).                                             *)
(*                                                                         *)
(* SafeInv is inductive.  It says who may know of a key (Named), which     *)
(* keys have been or will be the row's object (Current), and of each       *)
(* worker, by its place, what it may still rely on (Sound): what it writes *)
(* into the row is stored, what it deletes is nobody's any more.  A step   *)
(* of one worker is first summed up (Effect: which keys it learns, what    *)
(* the row may then name, which statuses are for good, which objects it    *)
(* touches), and one lemma, OthersKept, shows that whatever has such an    *)
(* effect leaves what is said of the other workers true; each action then  *)
(* has to show its effect and what holds of its own worker.                *)
(*                                                                         *)
(* OrphanInv, inductive under SafeInv, does the same for what is left      *)
(* behind: while nothing has failed, every object is named by the row, or  *)
(* stray, or covered by a worker that will name it or delete it (Tidy).    *)
EXTENDS PackageObjects, TLAPS

Lates == [key : MaybeKey, epoch : 0..MaxEpoch, t : Nat]
PackageTypeOK == TypeOK /\ changed \in BOOLEAN /\ late \in Lates

Storing == {"put", "insert", "undo"}
Copying == {"read", "copy", "abandon", "release", "bind", "switch"}
Switched == {"classify", "lose", "drop", "clear"}
Rotating == {"claim"} \union Copying \union Switched
Building == {"select", "putPackage", "publish", "fail", "settle", "prove", "discard"}
Cleaning == {"reclaim", "collect", "reconciled"}
Purging == {"condemn", "confirm", "shred", "purged"}
Retiring == {"claimPurge", "shredPackage", "unlock", "retire"}
Keyed == Storing \union Rotating \union (Building \ {"select", "fail"})
Unsaid == {"put", "insert", "claim", "putPackage", "publish"}

\* Work that a behaviour does not have is not under way.
TaskSound(w) ==
    /\ local[w].pc \in Storing \union Purging \union {"lookup", "renew", "stale", "review", "hold"} =>
          "package" \notin tasks
    /\ local[w].pc \in Building \union Retiring => "package" \in tasks
    /\ local[w].pc \in Purging => "purge" \in tasks
    /\ local[w].pc \in {"renew", "stale"} => "renew" \in tasks
    /\ local[w].pc = "review" => "review" \in tasks

\* A row without an object names nothing and is not leased.
RowInv ==
    /\ row.status \in {"building", "failed"} => "package" \in tasks
    /\ row.status \in {"expired", "purged"} => "package" \notin tasks
    /\ row.status \notin {"live", "expired"} =>
          row.r2 = None /\ row.pending = None /\ row.previous = None /\ row.lease = Free

\* Somebody but its owner may know of key k.
LeaseFree(k) == \A v \in Worker : row.lease # <<v, k>>
Named(k) ==
    \/ k \in Referenced \/ ~LeaseFree(k)
    \/ \E v \in Worker : k \in {local[v].seen, local[v].pending, local[v].previous} \union local[v].doomed

\* A worker has a key of its own while it needs one.
KeySound(w) == local[w].pc \in Keyed => local[w].key # None
UsedInv ==
    /\ late.key < nextKey /\ \A w \in Worker : local[w].key < nextKey
    /\ \A w \in Worker : \A v \in Worker \ {w} : local[v].key = local[w].key => local[w].key = None
    /\ \A k \in Keys : k \in DOMAIN objects \/ Named(k) => k < nextKey

\* It is or was the row's object, or is going to be.
Current(k) ==
    \/ k \in {row.r2, row.previous, late.key}
    \/ \E v \in Worker : k \in {local[v].seen, local[v].previous}

\* The key of an object before it is the row's.
NameSound(w) ==
    /\ local[w].pc \in Unsaid => ~Named(local[w].key) /\ late.key # local[w].key
    /\ local[w].pc \in Copying => ~Current(local[w].key)
    /\ local[w].pc = "classify" => local[w].seen # local[w].key
    /\ local[w].pc = "drop" => row.r2 # local[w].seen \/ row.r2 = None
    /\ local[w].pc = "lose" => local[w].key \notin Referenced

Stored(k, epoch) == k \in DOMAIN objects /\ objects[k] = epoch

Discarding == {"fail", "settle", "prove", "discard"}
\* A publication under way is of an object that only its builder may discard,
\* and only once the row has failed.
LateInv ==
    late # NoLate =>
        /\ late.key # None /\ row.status \in {"building", "failed"} /\ ~Named(late.key)
        /\ \A v \in Worker : local[v].key = late.key => local[v].pc \in Discarding
        /\ row.status = "building" => Stored(late.key, late.epoch)

\* The row's object may not go.
Alive == row.status = "live" \/ (row.status = "expired" /\ "purge" \notin tasks)

\* What a worker is about to make the row's object is there.
WriteSound(w) ==
    /\ local[w].t <= now
    /\ local[w].pc \in {"insert", "publish"} => Stored(local[w].key, local[w].to)
    /\ local[w].pc \in {"bind", "switch"} /\ Mine(w) /\ Alive => Stored(local[w].key, local[w].to)
    /\ local[w].pc = "discard" => row.status = "failed"
    /\ local[w].pc = "review" => row.status \in {"live", "expired", "purged"}

\* What a reconciler is about to delete is not the row's object and will not be.
CleanSound(w) ==
    /\ local[w].pc \in Cleaning => local[w].pending # None \/ local[w].previous # None
    /\ local[w].pc \in {"collect", "reconciled"} =>
          /\ \A k \in (local[w].doomed \union {local[w].pending}) \ {None} : LeaseFree(k)
          /\ row.r2 \notin local[w].doomed

\* What is purged has expired and is not held.
PurgeSound(w) ==
    /\ local[w].pc \in Purging => row.status \in {"live", "expired", "purged"} /\ row.expires <= local[w].t
    /\ local[w].pc \in {"shred", "purged"} => row.status \in {"expired", "purged"}
    /\ local[w].pc \in Retiring => row.status \in {"live", "failed"} /\ row.expires <= local[w].t
    /\ local[w].pc \in Retiring \ {"claimPurge"} => \A k \in Keys : LeaseFree(k)
CondemnedInv == "purge" \in tasks /\ row.status = "expired" => closed /\ row.expires <= now /\ hold <= now

KeptInv ==
    Alive /\ ("package" \in tasks => row.expires > now) =>
        Stored(row.r2, row.epoch) \/ row.r2 \in undone

\* One worker builds the package, and it has published at most once.
BuildSound(w) ==
    local[w].pc \in Building =>
        /\ row.status # "absent" /\ \A v \in Worker \ {w} : local[v].pc \notin Building
        /\ local[w].pc \notin Discarding => row.status = "building" /\ late = NoLate

Sound(w) == TaskSound(w) /\ KeySound(w) /\ BuildSound(w) /\ NameSound(w) /\ WriteSound(w) /\ CleanSound(w) /\ PurgeSound(w)
RowsSound == RowInv /\ LateInv /\ CondemnedInv /\ KeptInv
SafeInv == PackageTypeOK /\ UsedInv /\ RowsSound /\ \A w \in Worker : Sound(w)

\* The bounds as numbers.
LEMMA Bounds ==
    ASSUME VaultAssumption
    PROVE  /\ MaxTime \in Nat \ {0} /\ MaxEpoch \in Nat \ {0} /\ MaxKeys \in Nat /\ MaxPurgeKeys \in 0..MaxKeys
           /\ MaxFaults \in Nat /\ MaxCrashes \in Nat /\ Validity \in Nat /\ LeaseTime \in Nat
BY DEF VaultAssumption

\* The locals of a worker have their types.
LEMMA LocalsOf ==
    ASSUME TypeOK, NEW w \in Worker
    PROVE  /\ local[w] \in Locals
           /\ local[w].pc \in Steps /\ local[w].t \in Nat /\ local[w].received \in Nat
           /\ local[w].key \in MaybeKey /\ local[w].seen \in MaybeKey
           /\ local[w].epoch \in 0..MaxEpoch /\ local[w].to \in 0..MaxEpoch
           /\ local[w].pending \in MaybeKey /\ local[w].previous \in MaybeKey
           /\ local[w].doomed \in SUBSET Keys
BY DEF TypeOK, Locals, Steps

LEMMA IdleIs ==
    ASSUME VaultAssumption
    PROVE  /\ Idle \in Locals /\ Idle.pc = "idle" /\ Idle.t = 0 /\ Idle.received = 0 /\ Idle.key = None /\ Idle.seen = None
           /\ Idle.epoch = 0 /\ Idle.to = 0 /\ Idle.pending = None /\ Idle.previous = None
           /\ Idle.doomed = {}
<1>1. "idle" \in Steps /\ None \in MaybeKey /\ 0 \in 0..MaxEpoch /\ 0 \in Nat
  BY Bounds DEF Steps, MaybeKey, None
<1> QED BY <1>1 DEF Idle, Locals

\* What a step of w may do to the locals: the others' are left alone.
Moves(w) ==
    /\ local' \in [Worker -> Locals]
    /\ \A v \in Worker \ {w} : local'[v] = local[v]

LEMMA GotoIs ==
    ASSUME TypeOK, NEW w \in Worker, NEW place \in Steps, Goto(w, place)
    PROVE  /\ Moves(w)
           /\ local'[w].pc = place /\ local'[w].t = local[w].t
           /\ local'[w].key = local[w].key /\ local'[w].seen = local[w].seen
           /\ local'[w].to = local[w].to /\ local'[w].epoch = local[w].epoch
           /\ local'[w].pending = local[w].pending /\ local'[w].previous = local[w].previous
           /\ local'[w].doomed = local[w].doomed
BY DEF TypeOK, Goto, Moves, Locals, Steps

LEMMA PutIs ==
    ASSUME TypeOK, NEW w \in Worker, NEW l \in Locals, local' = [local EXCEPT ![w] = l]
    PROVE  Moves(w) /\ local'[w] = l
BY DEF TypeOK, Moves

LEMMA DoneIs ==
    ASSUME VaultAssumption, TypeOK, NEW w \in Worker, Done(w)
    PROVE  Moves(w) /\ local'[w] = Idle
BY IdleIs, PutIs DEF Done

\* Records of the shapes that the actions make.
LEMMA TimedShape ==
    ASSUME NEW l \in Locals, NEW place \in Steps, NEW t \in Nat, NEW r \in Nat
    PROVE  /\ [l EXCEPT !.pc = place, !.t = t] \in Locals
           /\ [l EXCEPT !.pc = place, !.t = t, !.received = r] \in Locals
BY DEF Locals

LEMMA WritingShape ==
    ASSUME NEW l \in Locals, NEW place \in Steps, NEW t \in Nat, NEW e \in 0..MaxEpoch
    PROVE  /\ [l EXCEPT !.pc = place, !.to = e] \in Locals
           /\ [l EXCEPT !.pc = place, !.to = e, !.t = t] \in Locals
BY DEF Locals

LEMMA KeyShape ==
    ASSUME NEW l \in Locals, NEW place \in Steps, NEW t \in Nat, NEW k \in MaybeKey
    PROVE  /\ [l EXCEPT !.pc = place, !.t = t, !.key = k] \in Locals
           /\ [l EXCEPT !.pc = place, !.key = k] \in Locals
BY DEF Locals

LEMMA RotatingShape ==
    ASSUME NEW l \in Locals, NEW place \in Steps, NEW k \in MaybeKey, NEW s \in MaybeKey, NEW e \in 0..MaxEpoch
    PROVE  [l EXCEPT !.pc = place, !.key = k, !.seen = s, !.epoch = e] \in Locals
BY DEF Locals

LEMMA CleaningShape ==
    ASSUME NEW l \in Locals, NEW place \in Steps, NEW s \in MaybeKey, NEW p \in MaybeKey, NEW q \in MaybeKey, NEW t \in Nat
    PROVE  [l EXCEPT !.pc = place, !.t = t, !.seen = s, !.pending = p, !.previous = q] \in Locals
BY DEF Locals

LEMMA DoomedShape ==
    ASSUME NEW l \in Locals, NEW place \in Steps, NEW d \in SUBSET Keys, NEW t \in Nat
    PROVE  /\ [l EXCEPT !.pc = place, !.doomed = d] \in Locals
           /\ [l EXCEPT !.pc = place, !.t = t, !.doomed = d] \in Locals
           /\ [l EXCEPT !.doomed = d] \in Locals
BY DEF Locals

-----------------------------------------------------------------------------
(* What a step does.                                                       *)

\* w learns keys from the row only, and takes a fresh one for itself.
Learns(w) ==
    /\ Moves(w)
    /\ local'[w].seen \in {local[w].seen, row.r2, None}
    /\ local'[w].pending \in {local[w].pending, row.pending, None}
    /\ local'[w].previous \in {local[w].previous, row.previous, None}
    /\ local'[w].doomed \subseteq local[w].doomed \union {local[w].pending, local[w].previous} \union Referenced
    /\ \/ nextKey' = nextKey /\ local'[w].key \in {local[w].key, None}
       \/ nextKey <= MaxKeys /\ nextKey' = nextKey + 1 /\ local'[w].key = nextKey
    /\ local'[w].t \in {local[w].t, now, 0}
    /\ local'[w].pc \in Building => local[w].pc \in Building \/ row.status = "absent"
    /\ local[w].pc \in Discarding => local'[w].pc \in Discarding \/ local'[w].key = None

\* The row names only what it named, and k.
Tame(k) ==
    /\ row'.r2 \in {row.r2, None, k}
    /\ row'.previous \in {row.previous, None, row.r2}
    /\ row'.pending \in {row.pending, None, k}
    /\ \A v \in Worker, j \in Keys :
          row'.lease = <<v, j>> => row.lease = <<v, j>> \/ (j = k /\ ~Named(k) /\ row.expires > now)
    /\ late'.key \in {late.key, None, k}

\* The statuses that are for good.
Steady(w) ==
    /\ row.status # "absent" => row'.status # "absent"
    /\ row.status = "building" /\ local[w].pc \notin Building => row'.status = "building"
    /\ late' = late \/ (local[w].pc \in Building /\ local[w].pc \notin Discarding)
    /\ local[w].pc \in Discarding => row'.status \in {row.status, "failed"}
    /\ Alive' /\ row.lease # Free => Alive
    /\ row.status = "failed" => row'.status = "failed"
    /\ "package" \notin tasks /\ row.status \in {"live", "expired", "purged"} =>
          row'.status \in {"live", "expired", "purged"}
    /\ "purge" \in tasks /\ row.status \in {"expired", "purged"} => row'.status \in {"expired", "purged"}
    /\ "package" \in tasks /\ row.status \in {"live", "failed"} => row'.status \in {"live", "failed"}
    /\ row.status \notin {"absent", "building"} /\ ("renew" \notin tasks \/ "package" \in tasks) =>
          row'.expires = row.expires

\* Only the key of w is written, only it and D are deleted.
Touches(w, D) ==
    LET k == local[w].key IN
    /\ \A j \in Keys \ {k} : j \in DOMAIN objects' => j \in DOMAIN objects
    /\ \A j \in Keys \ ({k} \union D) :
          j \in DOMAIN objects => j \in DOMAIN objects' /\ objects'[j] = objects[j]
    /\ local[w].pc \in Discarding \ {"discard"} => objects' = objects

\* What may be deleted without harm to the others.
Spare(w, D) ==
    /\ \A j \in D : Named(j)
    /\ \A v \in Worker \ {w} :
          local[v].pc \in {"bind", "switch"} /\ Mine(v) /\ Alive => local[v].key \notin D

Effect(w, k, D) ==
    /\ PackageTypeOK' /\ tasks' = tasks /\ now' = now
    /\ Learns(w) /\ Tame(k) /\ (k # None => ~Current(k) /\ (Named(k) => ~LeaseFree(k)))
    /\ Steady(w) /\ Touches(w, D) /\ Spare(w, D)

\* Whoever knows of a key knew of it, or read it in the row.
LEMMA LearningNames ==
    ASSUME VaultAssumption, PackageTypeOK, NEW w \in Worker, NEW k, Learns(w), Tame(k)
    PROVE  \A j \in Keys : /\ Named(j)' => Named(j) \/ j = k
                           /\ Current(j)' => Current(j) \/ j = k
<1> SUFFICES ASSUME NEW j \in Keys
             PROVE  /\ Named(j)' => Named(j) \/ j = k
                    /\ Current(j)' => Current(j) \/ j = k
  OBVIOUS
<1>0. j # None
  BY DEF Keys, None
<1>1. ASSUME j \in Referenced' PROVE j \in Referenced \/ j = k
  BY <1>0, <1>1 DEF Tame, Referenced
<1>2. ASSUME ~LeaseFree(j)' PROVE ~LeaseFree(j) \/ j = k
  BY <1>2 DEF Tame, LeaseFree
<1>3. ASSUME NEW v \in Worker,
             j \in {local'[v].seen, local'[v].pending, local'[v].previous} \union local'[v].doomed
      PROVE  \/ j \in {local[v].seen, local[v].pending, local[v].previous} \union local[v].doomed
             \/ j \in Referenced
  BY <1>0, <1>3 DEF Learns, Moves, Referenced
<1>4. ASSUME NEW v \in Worker, j \in {local'[v].seen, local'[v].previous}
      PROVE  j \in {local[v].seen, local[v].previous} \/ j \in {row.r2, row.previous}
  BY <1>0, <1>4 DEF Learns, Moves
<1>5. Named(j)' => Named(j) \/ j = k
  BY <1>1, <1>2, <1>3 DEF Named
<1>6. ASSUME j \in {row'.r2, row'.previous, late'.key} PROVE j \in {row.r2, row.previous, late.key, k}
  BY <1>0, <1>6 DEF Tame
<1>7. Current(j)' => Current(j) \/ j = k
  BY <1>4, <1>6 DEF Current
<1> QED BY <1>5, <1>7

\* Keys stay known and distinct.
LEMMA UsedKept ==
    ASSUME VaultAssumption, SafeInv, NEW w \in Worker, NEW k \in {local[w].key, None}, NEW D, Effect(w, k, D)
    PROVE  UsedInv'
<1> USE DEF Effect
<1>1. nextKey \in Nat /\ nextKey' \in Nat /\ nextKey <= nextKey'
  BY DEF SafeInv, PackageTypeOK, TypeOK, Learns, Keys
<1>2. /\ \A v \in Worker : local[v].key \in Nat /\ local[v].key < nextKey
      /\ late.key \in Nat /\ late.key < nextKey
  BY LocalsOf DEF SafeInv, UsedInv, PackageTypeOK, Lates, MaybeKey, Keys, None
<1>3. late'.key < nextKey'
  BY <1>1, <1>2 DEF Tame, None
<1>4. ASSUME NEW v \in Worker PROVE local'[v].key < nextKey'
  BY <1>1, <1>2 DEF Learns, Moves, None
<1>5. ASSUME NEW u \in Worker, NEW v \in Worker \ {u}, local'[v].key = local'[u].key
      PROVE  local'[u].key = None
  BY <1>1, <1>2, <1>5 DEF SafeInv, UsedInv, Learns, Moves
<1>6. ASSUME NEW j \in Keys, j \in DOMAIN objects' \/ Named(j)'
      PROVE  j < nextKey'
  <2>1. j = local[w].key \/ j \in DOMAIN objects \/ Named(j)
    BY <1>6, LearningNames DEF SafeInv, Touches, Keys, None
  <2>2. j \in Nat
    BY DEF Keys
  <2> QED BY <1>1, <1>2, <2>1, <2>2 DEF SafeInv, UsedInv
<1> QED BY <1>3, <1>4, <1>5, <1>6 DEF UsedInv

\* What holds of the other workers stays so.
LEMMA OthersKept ==
    ASSUME VaultAssumption, ProfilesAssumption, SafeInv, NEW w \in Worker, NEW k \in {local[w].key, None}, NEW D,
           Effect(w, k, D), NEW v \in Worker \ {w}
    PROVE  Sound(v)'
<1>1. local'[v] = local[v] /\ v \in Worker /\ local[v].key \in MaybeKey /\ local[v].seen \in MaybeKey
  BY LocalsOf DEF Effect, Learns, Moves, SafeInv, PackageTypeOK
<1>2. local[v].key # None => local[v].key # k /\ local[v].key # local[w].key /\ local[v].key \in Keys
  BY <1>1 DEF SafeInv, UsedInv, MaybeKey
<1>3. Sound(v)
  BY DEF SafeInv
<1>4. TaskSound(v)' /\ KeySound(v)'
  BY <1>1, <1>3 DEF Sound, TaskSound, KeySound, Effect
<1>5. ASSUME NEW j \in Keys, j # k
      PROVE  (Named(j)' => Named(j)) /\ (Current(j)' => Current(j)) /\ (late'.key = j => late.key = j)
  <2>1. (Named(j)' => Named(j)) /\ (Current(j)' => Current(j))
    BY <1>5, LearningNames DEF Effect, SafeInv
  <2>2. late'.key = j => late.key = j
    BY <1>5 DEF Effect, Tame, Keys, None
  <2> QED BY <2>1, <2>2
<1>6. NameSound(v)'
  <2>1. CASE local[v].pc \in Unsaid
    <3>1. ~Named(local[v].key) /\ late.key # local[v].key /\ local[v].key \in Keys
      BY <1>2, <1>3, <2>1 DEF Sound, NameSound, KeySound, Keyed, Unsaid, Storing, Rotating, Building
    <3>2. PICK j \in Keys : j = local[v].key
      BY <3>1
    <3>3. ~Named(j)' /\ late'.key # j
      BY <1>2, <1>5, <3>1, <3>2 DEF Keys, None
    <3>4. local'[v].pc \notin Copying \union {"classify", "drop", "lose"}
      BY <1>1, <2>1 DEF Unsaid, Copying
    <3> QED BY <1>1, <3>2, <3>3, <3>4 DEF NameSound
  <2>2. CASE local[v].pc \in Copying
    <3>1. ~Current(local[v].key) /\ local[v].key \in Keys
      BY <1>2, <1>3, <2>2 DEF Sound, NameSound, KeySound, Keyed, Rotating
    <3>2. PICK j \in Keys : j = local[v].key
      BY <3>1
    <3>3. ~Current(j)'
      BY <1>2, <1>5, <3>1, <3>2 DEF Keys, None
    <3>4. local'[v].pc \notin Unsaid \union {"classify", "drop", "lose"}
      BY <1>1, <2>2 DEF Unsaid, Copying
    <3> QED BY <1>1, <3>2, <3>3, <3>4 DEF NameSound
  <2>3. CASE local[v].pc = "drop"
    <3>1. row.r2 # local[v].seen \/ row.r2 = None
      BY <1>3, <2>3 DEF Sound, NameSound
    <3>2. k # None => k # local[v].seen
      BY <1>1 DEF Effect, Current
    <3>3. row'.r2 # local'[v].seen \/ row'.r2 = None
      BY <1>1, <3>1, <3>2 DEF Effect, Tame
    <3> QED BY <1>1, <2>3, <3>3 DEF NameSound, Unsaid, Copying
  <2>4. CASE local[v].pc = "lose"
    <3>1. local[v].key \notin Referenced /\ local[v].key # None
      BY <1>3, <2>4 DEF Sound, NameSound, KeySound, Keyed, Rotating, Switched
    <3>2. local[v].key \notin Referenced'
      BY <1>2, <3>1 DEF Effect, Tame, Referenced
    <3> QED BY <1>1, <2>4, <3>2 DEF NameSound, Unsaid, Copying
  <2>5. CASE local[v].pc = "classify"
    BY <1>1, <1>3, <2>5 DEF Sound, NameSound, Unsaid, Copying
  <2> QED BY <1>1, <2>1, <2>2, <2>3, <2>4, <2>5 DEF NameSound
<1>7. WriteSound(v)'
  <2>1. local'[v].t <= now'
    BY <1>1, <1>3 DEF Sound, WriteSound, Effect
  <2>2. CASE local[v].pc \in {"insert", "publish"}
    <3>1. ~Named(local[v].key) /\ local[v].key \in Keys /\ Stored(local[v].key, local[v].to)
      BY <1>2, <1>3, <2>2 DEF Sound, NameSound, WriteSound, KeySound, Keyed, Unsaid, Storing, Building
    <3>2. local[v].key \notin D
      BY <3>1 DEF Effect, Spare
    <3>3. local[v].key \in Keys \ ({local[w].key} \union D)
      BY <1>2, <3>1, <3>2 DEF Keys, None
    <3>4. Stored(local[v].key, local[v].to)'
      BY <1>1, <3>1, <3>3 DEF Effect, Touches, Stored
    <3> QED BY <1>1, <2>1, <2>2, <3>4 DEF WriteSound
  <2>3. CASE local[v].pc \in {"bind", "switch"}
    <3> SUFFICES ASSUME Mine(v)', Alive' PROVE Stored(local[v].key, local[v].to)'
      BY <1>1, <2>1, <2>3 DEF WriteSound
    <3>1. local[v].key \in Keys
      BY <1>2, <1>3, <2>3 DEF Sound, KeySound, Keyed, Rotating, Copying
    <3>2. Mine(v)
      BY <1>1, <1>2, <3>1 DEF Mine, Effect, Tame, Keys, None
    <3>3. Alive
      BY <3>1, <3>2 DEF Mine, Effect, Steady, Free
    <3>4. Stored(local[v].key, local[v].to) /\ local[v].key \notin D
      BY <1>3, <2>3, <3>2, <3>3 DEF Sound, WriteSound, Effect, Spare
    <3>5. local[v].key \in Keys \ ({local[w].key} \union D)
      BY <1>2, <3>1, <3>4 DEF Keys, None
    <3> QED BY <1>1, <3>4, <3>5 DEF Effect, Touches, Stored
  <2>4. CASE local[v].pc \in {"discard", "review"}
    <3>1. ("purge" \in tasks => "review" \notin tasks) /\ tasks \in Profiles
      BY ProfilesAssumption DEF SafeInv, PackageTypeOK, TypeOK
    <3>2. local[v].pc = "review" => "package" \notin tasks
      BY <1>3 DEF Sound, TaskSound
    <3> QED BY <1>1, <1>3, <2>1, <2>4, <3>2 DEF Sound, WriteSound, Effect, Steady
  <2> QED BY <1>1, <2>1, <2>2, <2>3, <2>4 DEF WriteSound
<1>8. CleanSound(v)'
  <2> SUFFICES ASSUME local[v].pc \in {"collect", "reconciled"}
               PROVE  /\ \A j \in (local[v].doomed \union {local[v].pending}) \ {None} : LeaseFree(j)'
                      /\ row'.r2 \notin local[v].doomed
    BY <1>1, <1>3 DEF Sound, CleanSound
  <2>1. \A j \in (local[v].doomed \union {local[v].pending}) \ {None} : j \in Keys /\ Named(j) /\ LeaseFree(j)
    BY <1>1, <1>3, LocalsOf DEF Sound, CleanSound, SafeInv, PackageTypeOK, Named, MaybeKey
  <2>2. row.r2 \notin local[v].doomed /\ None \notin local[v].doomed
    BY <1>3, LocalsOf DEF Sound, CleanSound, SafeInv, PackageTypeOK, Keys, None
  <2>3. ASSUME NEW j \in (local[v].doomed \union {local[v].pending}) \ {None}, NEW u \in Worker, row'.lease = <<u, j>>
        PROVE  FALSE
    BY <2>1, <2>3 DEF Effect, Tame, LeaseFree
  <2>4. ASSUME row'.r2 \in local[v].doomed PROVE FALSE
    <3>1. row'.r2 = k /\ k # None /\ Named(k) /\ LeaseFree(k)
      BY <2>1, <2>2, <2>4 DEF Effect, Tame
    <3> QED BY <3>1 DEF Effect
  <2> QED BY <2>3, <2>4 DEF LeaseFree
<1>9. PurgeSound(v)'
  <2>1. ("purge" \in tasks => "renew" \notin tasks) /\ tasks \in Profiles
    BY ProfilesAssumption DEF SafeInv, PackageTypeOK, TypeOK
  <2>2. PurgeSound(v) /\ TaskSound(v)
    BY <1>3 DEF Sound
  <2>3. CASE local[v].pc \in Purging
    BY <1>1, <2>1, <2>2, <2>3 DEF PurgeSound, TaskSound, Effect, Steady, Purging, Retiring
  <2>4. CASE local[v].pc \in Retiring
    <3>1. /\ row.status \in {"live", "failed"} /\ row.expires <= local[v].t /\ "package" \in tasks
          /\ local[v].pc # "claimPurge" => \A j \in Keys : LeaseFree(j)
      BY <2>2, <2>4 DEF PurgeSound, TaskSound
    <3>2. row'.status \in {"live", "failed"} /\ row'.expires = row.expires
      BY <3>1 DEF Effect, Steady
    <3>3. local[v].t <= now /\ local[v].t \in Nat /\ now \in Nat /\ row.expires \in Nat
      BY <1>1, <1>3, LocalsOf DEF Sound, WriteSound, SafeInv, PackageTypeOK, TypeOK, Rows
    <3>4. local[v].pc # "claimPurge" => \A j \in Keys : LeaseFree(j)'
      BY <3>1, <3>3 DEF Effect, Tame, LeaseFree
    <3> QED BY <1>1, <2>4, <3>1, <3>2, <3>4 DEF PurgeSound, Purging, Retiring
  <2>5. CASE local[v].pc \notin Purging \union Retiring
    BY <1>1, <2>5 DEF PurgeSound, Purging
  <2> QED BY <2>3, <2>4, <2>5
<1>10. BuildSound(v)'
  <2> SUFFICES ASSUME local[v].pc \in Building PROVE BuildSound(v)'
    BY <1>1 DEF BuildSound
  <2>1. /\ row.status # "absent" /\ \A u \in Worker \ {v} : local[u].pc \notin Building
        /\ local[v].pc \notin Discarding => row.status = "building" /\ late = NoLate
    BY <1>3 DEF Sound, BuildSound
  <2>2. local[w].pc \notin Building /\ local'[w].pc \notin Building
    BY <2>1 DEF Effect, Learns
  <2>3. \A u \in Worker \ {v} : local'[u].pc \notin Building
    BY <2>1, <2>2 DEF Effect, Learns, Moves
  <2>4. row'.status # "absent" /\ late' = late /\ (row.status = "building" => row'.status = "building")
    BY <2>1, <2>2 DEF Effect, Steady
  <2> QED BY <1>1, <2>1, <2>3, <2>4 DEF BuildSound
<1> QED BY <1>4, <1>6, <1>7, <1>8, <1>9, <1>10 DEF Sound

\* A publication under way is not disturbed.
LEMMA LateKept ==
    ASSUME VaultAssumption, SafeInv, NEW w \in Worker, NEW k, NEW D, Effect(w, k, D), late' = late
    PROVE  LateInv'
<1> SUFFICES ASSUME late # NoLate PROVE LateInv'
  BY DEF LateInv
<1>1. /\ late.key # None /\ row.status \in {"building", "failed"} /\ ~Named(late.key)
      /\ \A v \in Worker : local[v].key = late.key => local[v].pc \in Discarding
      /\ row.status = "building" => Stored(late.key, late.epoch)
  BY DEF SafeInv, RowsSound, LateInv
<1>2. late.key \in Keys /\ late.key < nextKey /\ nextKey \in Nat
  BY <1>1 DEF SafeInv, UsedInv, PackageTypeOK, TypeOK, Lates, MaybeKey, Keys
<1>3. PICK j \in Keys : j = late.key
  BY <1>2
<1>4. ~Named(j)' /\ late'.key = j
  <2>1. Current(j) /\ ~Named(j) /\ j # None
    BY <1>1, <1>3 DEF Current
  <2> QED BY <1>3, <2>1, LearningNames DEF Effect, SafeInv
<1>5. ASSUME NEW v \in Worker, local'[v].key = late.key PROVE local'[v].pc \in Discarding
  BY <1>1, <1>2, <1>5 DEF Effect, Learns, Moves
<1>6. row'.status \in {"building", "failed"} /\ (row'.status = "building" => row.status = "building")
  <2>1. local[w].pc \in Building => local[w].pc \in Discarding
    BY DEF SafeInv, Sound, BuildSound
  <2> QED BY <1>1, <2>1 DEF Effect, Steady
<1>7. ASSUME row'.status = "building" PROVE Stored(late.key, late.epoch)'
  <2>1. Stored(late.key, late.epoch) /\ row.status = "building"
    BY <1>1, <1>6, <1>7
  <2>2. CASE local[w].key = late.key
    <3>1. local[w].pc \in Discarding \ {"discard"}
      BY <1>1, <2>1, <2>2 DEF SafeInv, Sound, WriteSound
    <3> QED BY <2>1, <3>1 DEF Effect, Touches, Stored
  <2>3. CASE local[w].key # late.key
    <3>1. late.key \in Keys \ ({local[w].key} \union D)
      BY <1>1, <1>2, <2>3 DEF Effect, Spare
    <3> QED BY <2>1, <3>1 DEF Effect, Touches, Stored
  <2> QED BY <2>2, <2>3
<1> QED BY <1>1, <1>3, <1>4, <1>5, <1>6, <1>7 DEF LateInv

\* A step that keeps what is said of the rows and of its worker is safe.
LEMMA StepIsSafe ==
    ASSUME VaultAssumption, ProfilesAssumption, SafeInv, NEW w \in Worker, NEW k \in {local[w].key, None}, NEW D,
           Effect(w, k, D), RowInv', CondemnedInv', KeptInv', Sound(w)', late' = late \/ LateInv'
    PROVE  SafeInv'
<1>1. UsedInv' /\ LateInv'
  BY UsedKept, LateKept
<1>2. \A v \in Worker : Sound(v)'
  BY OthersKept
<1> QED BY <1>1, <1>2 DEF SafeInv, RowsSound, Effect

-----------------------------------------------------------------------------
(* Steps that change neither row nor objects.                              *)

Calm == UNCHANGED <<row, objects, undone, late, tasks, now, closed, hold>>

\* A step that changes no data is safe if its worker may go on where it goes.
LEMMA CalmIsSafe ==
    ASSUME VaultAssumption, ProfilesAssumption, SafeInv, NEW w \in Worker, Calm, Learns(w), PackageTypeOK', Sound(w)'
    PROVE  SafeInv'
<1>1. Tame(None) /\ Steady(w) /\ Touches(w, {}) /\ Spare(w, {})
  BY DEF Calm, Tame, Steady, Touches, Spare, Alive
<1>2. Effect(w, None, {})
  BY <1>1 DEF Effect, Calm
<1>3. RowInv' /\ CondemnedInv' /\ KeptInv'
  BY DEF SafeInv, RowsSound, Calm, RowInv, CondemnedInv, KeptInv, Alive, Stored
<1> QED BY <1>2, <1>3, StepIsSafe DEF Calm

\* An invocation that ends.
LEMMA DoneIsSafe ==
    ASSUME VaultAssumption, SafeInv, NEW w \in Worker, Done(w), nextKey' = nextKey, now \in Nat, now' = now
    PROVE  Learns(w) /\ Sound(w)'
<1>1. Moves(w) /\ local'[w] = Idle
  BY DoneIs DEF SafeInv, PackageTypeOK
<1>2. Learns(w)
  BY <1>1, IdleIs DEF Learns, Building
<1>3. local'[w].pc = "idle" /\ local'[w].t = 0
  BY <1>1, IdleIs
<1>4. WriteSound(w)'
  BY <1>3 DEF WriteSound
<1> QED BY <1>2, <1>3, <1>4 DEF Sound, TaskSound, KeySound, BuildSound, NameSound, CleanSound, PurgeSound,
       Storing, Rotating, Copying, Switched, Building, Cleaning, Purging, Retiring, Keyed, Unsaid

\* Moving on to a place of the same work.
LEMMA GotoLearns ==
    ASSUME VaultAssumption, SafeInv, NEW w \in Worker, NEW place \in Steps, Goto(w, place), nextKey' = nextKey,
           place \in Building => local[w].pc \in Building,
           local[w].pc \in Discarding => place \in Discarding
    PROVE  Learns(w)
BY GotoIs DEF Learns, SafeInv, PackageTypeOK

\* The variables of the settings keep their types.
LEMMA TypesFrame ==
    ASSUME PackageTypeOK, NEW w \in Worker, Moves(w), row' \in Rows,
           DOMAIN objects' \subseteq Keys, \A j \in DOMAIN objects' : objects'[j] \in 1..MaxEpoch,
           nextKey' \in 1..(MaxKeys + 1), faults' \in 0..MaxFaults, late' \in Lates,
           undone' \subseteq Keys, stray' \subseteq Keys, latest' \in 0..MaxTime, hold' \in Nat,
           UNCHANGED <<tasks, closed, active, now, crashes, changed>>
    PROVE  PackageTypeOK'
BY DEF PackageTypeOK, TypeOK, Moves

\* Such a step keeps the types.
LEMMA CalmTypes ==
    ASSUME VaultAssumption, PackageTypeOK, NEW w \in Worker, Moves(w), Fault \/ NoFault,
           nextKey' \in 1..(MaxKeys + 1), Calm, UNCHANGED <<latest, active, stray, crashes, changed>>
    PROVE  PackageTypeOK'
<1>1. faults' \in 0..MaxFaults
  BY Bounds DEF PackageTypeOK, TypeOK, Fault, NoFault
<1> QED BY <1>1, TypesFrame DEF Calm, PackageTypeOK, TypeOK

\* A key that is taken now is unknown to everybody.
LEMMA FreshKey ==
    ASSUME VaultAssumption, SafeInv, KeyLeft
    PROVE  /\ nextKey \in Keys /\ nextKey \in MaybeKey /\ nextKey # None /\ nextKey <= MaxKeys
           /\ nextKey + 1 \in 1..(MaxKeys + 1) /\ nextKey \in Nat
           /\ nextKey \notin DOMAIN objects /\ ~Named(nextKey) /\ late.key # nextKey
<1>1. nextKey \in 1..(MaxKeys + 1) /\ nextKey <= MaxKeys /\ MaxKeys \in Nat
  BY Bounds DEF SafeInv, PackageTypeOK, TypeOK, KeyLeft
<1>2. nextKey \in Keys /\ nextKey # None
  BY <1>1 DEF Keys, None
<1> QED BY <1>1, <1>2 DEF SafeInv, UsedInv, MaybeKey, PackageTypeOK, Lates, Keys

\* Such steps tell nobody of a key.
LEMMA CalmNames ==
    ASSUME VaultAssumption, SafeInv, NEW w \in Worker, Learns(w), UNCHANGED <<row, late>>, NEW j \in Keys
    PROVE  (Named(j)' => Named(j)) /\ (Current(j)' => Current(j))
<1>1. Tame(None) /\ j # None
  BY DEF Tame, Keys, None
<1> QED BY <1>1, LearningNames DEF SafeInv

\* What is said of a worker whose place asks for nothing.
Plain == {"idle", "lookup", "renew", "stale", "hold", "select", "fail", "settle", "prove", "undo", "clear", "review"}
LEMMA PlainSound ==
    ASSUME NEW w \in Worker, local'[w].pc \in Plain, TaskSound(w)', KeySound(w)', BuildSound(w)',
           local'[w].t <= now', local'[w].pc = "review" => row'.status \in {"live", "expired", "purged"}
    PROVE  Sound(w)'
BY DEF Plain, Sound, NameSound, WriteSound, CleanSound, PurgeSound, Unsaid, Copying, Cleaning, Purging, Retiring

\* What is said of a worker that copies, or is about to.
LEMMA CopyingSound ==
    ASSUME VaultAssumption, SafeInv, NEW w \in Worker, local[w].pc \in Copying, local'[w].pc \in Copying,
           Learns(w), local'[w].key = local[w].key, UNCHANGED <<row, late, now>>,
           local'[w].pc \in {"bind", "switch"} /\ Mine(w)' /\ Alive' => Stored(local[w].key, local[w].to)'
    PROVE  Sound(w)'
<1>1. local[w].key \in Keys /\ ~Current(local[w].key)
  BY LocalsOf DEF SafeInv, Sound, NameSound, KeySound, Keyed, Rotating, PackageTypeOK, MaybeKey
<1>2. PICK j \in Keys : j = local[w].key
  BY <1>1
<1>3. ~Current(j)'
  BY <1>1, <1>2, CalmNames
<1>4. NameSound(w)' /\ KeySound(w)'
  BY <1>2, <1>3 DEF NameSound, KeySound, Keys, None, Copying, Unsaid
<1>5. local'[w].t <= now'
  BY LocalsOf DEF Learns, SafeInv, Sound, WriteSound, PackageTypeOK, TypeOK
<1>6. WriteSound(w)'
  BY <1>5 DEF WriteSound, Copying
<1> QED BY <1>4, <1>6 DEF Sound, TaskSound, BuildSound, CleanSound, PurgeSound, Copying, Storing, Building,
                          Purging, Retiring, Cleaning

\* What is said of a worker with a fresh key.
LEMMA FreshSound ==
    ASSUME VaultAssumption, SafeInv, NEW w \in Worker, KeyLeft, Learns(w), UNCHANGED <<row, late>>,
           local'[w].key = nextKey
    PROVE  KeySound(w)' /\ ~Named(local[w].key)' /\ late'.key # local'[w].key
<1>1. PICK j \in Keys : j = nextKey
  BY FreshKey
<1>2. ~Named(j)'
  BY <1>1, FreshKey, CalmNames
<1> QED BY <1>1, <1>2, FreshKey DEF KeySound, Keys, None

-----------------------------------------------------------------------------
(* The steps that only read.                                               *)

Reads == Calm /\ UNCHANGED <<latest, active, stray, crashes, changed>> /\ (Fault \/ NoFault)

LEMMA ReadIsSafe ==
    ASSUME VaultAssumption, ProfilesAssumption, SafeInv, NEW w \in Worker, Reads, Learns(w), Sound(w)'
    PROVE  SafeInv'
<1>1. nextKey' \in 1..(MaxKeys + 1)
  BY Bounds DEF Learns, SafeInv, PackageTypeOK, TypeOK
<1>2. PackageTypeOK'
  BY <1>1, CalmTypes DEF Reads, Learns, SafeInv
<1> QED BY <1>2, CalmIsSafe DEF Reads

LEMMA ReadThenDone ==
    ASSUME VaultAssumption, ProfilesAssumption, SafeInv, NEW w \in Worker, Reads, Done(w), UNCHANGED nextKey
    PROVE  SafeInv'
BY DoneIsSafe, ReadIsSafe DEF Reads, Calm, SafeInv, PackageTypeOK, TypeOK

\* Work begins.
Begins == {"lookup", "renew", "stale", "hold", "review", "select"}
LEMMA BeginsSafe ==
    ASSUME VaultAssumption, ProfilesAssumption, SafeInv, NEW w \in Worker, Reads, UNCHANGED nextKey,
           NEW l \in Locals, local' = [local EXCEPT ![w] = l], l.pc \in {"lookup", "renew", "stale", "hold", "review"},
           l.t \in {now, 0}, l.key = None, l.seen = None, l.pending = None, l.previous = None, l.doomed = {},
           "package" \notin tasks, l.pc \in {"renew", "stale"} => "renew" \in tasks,
           l.pc = "review" => "review" \in tasks /\ row.status \in {"live", "expired", "purged"},
           local[w].pc \in {"idle", "lookup"}
    PROVE  SafeInv'
<1>1. Moves(w) /\ local'[w] = l
  BY PutIs DEF SafeInv, PackageTypeOK
<1>2. Learns(w)
  BY <1>1 DEF Learns, Building, Discarding
<1>3. TaskSound(w)' /\ KeySound(w)' /\ BuildSound(w)'
  BY <1>1 DEF Reads, Calm, TaskSound, KeySound, BuildSound, Keyed, Storing, Rotating, Copying, Switched,
              Building, Purging, Retiring
<1>4. local'[w].t <= now'
  BY <1>1 DEF Reads, Calm, SafeInv, PackageTypeOK, TypeOK
<1>5. Sound(w)'
  BY <1>1, <1>3, <1>4, PlainSound DEF Plain, Reads, Calm
<1> QED BY <1>2, <1>5, ReadIsSafe

\* A fresh key is taken for a new object.
LEMMA TakesSafe ==
    ASSUME VaultAssumption, ProfilesAssumption, SafeInv, NEW w \in Worker, Reads, KeyLeft, nextKey' = nextKey + 1,
           NEW l \in Locals, local' = [local EXCEPT ![w] = l], l.pc \in {"put", "claim", "putPackage"},
           l.t \in {now, 0}, l.key = nextKey, l.seen \in {row.r2, None}, l.pending = None, l.previous = None, l.doomed = {},
           l.pc = "put" => "package" \notin tasks,
           IF l.pc = "putPackage" THEN local[w].pc = "select" ELSE local[w].pc \in {"idle", "lookup"}
    PROVE  SafeInv'
<1>1. Moves(w) /\ local'[w] = l
  BY PutIs DEF SafeInv, PackageTypeOK
<1>2. Learns(w)
  BY <1>1, FreshKey DEF Learns, Building, Discarding
<1>3. KeySound(w)' /\ ~Named(local[w].key)' /\ late'.key # local'[w].key
  BY <1>1, <1>2, FreshSound DEF Reads, Calm
<1>4. TaskSound(w)'
  BY <1>1 DEF SafeInv, Sound, Reads, Calm, TaskSound, Storing, Building, Purging, Retiring
<1>5. BuildSound(w)'
  BY <1>1 DEF SafeInv, Sound, Reads, Calm, BuildSound, Building, Discarding, Moves
<1>6. NameSound(w)'
  BY <1>1, <1>3 DEF NameSound, Copying
<1>7. WriteSound(w)' /\ CleanSound(w)' /\ PurgeSound(w)'
  BY <1>1 DEF WriteSound, CleanSound, PurgeSound, Cleaning, Purging, Retiring, Reads, Calm,
              SafeInv, PackageTypeOK, TypeOK
<1> QED BY <1>2, <1>3, <1>4, <1>5, <1>6, <1>7, ReadIsSafe DEF Sound

LEMMA CheckAssessmentSafe ==
    ASSUME VaultAssumption, ProfilesAssumption, SafeInv, NEW w \in Worker, CheckAssessment(w),
           "package" \notin tasks, UNCHANGED <<tasks, changed, late>>
    PROVE  SafeInv'
<1>1. Goto(w, "lookup") /\ At(w, "idle") /\ Reads /\ UNCHANGED nextKey /\ "lookup" \in Steps
  BY DEF CheckAssessment, Steps, Reads, Calm, Data, Setting, NoFault
<1>2. Learns(w) /\ local'[w].pc = "lookup" /\ local'[w].t = local[w].t
  BY <1>1, GotoIs, GotoLearns DEF Building, Discarding, At, SafeInv, PackageTypeOK
<1>3. TaskSound(w)' /\ KeySound(w)' /\ BuildSound(w)'
  BY <1>1, <1>2 DEF Reads, Calm, TaskSound, KeySound, BuildSound, Keyed, Storing, Rotating, Copying, Switched,
              Building, Purging, Retiring
<1>4. local'[w].t <= now'
  BY <1>1, <1>2 DEF Reads, Calm, SafeInv, Sound, WriteSound
<1>5. Sound(w)'
  BY <1>2, <1>3, <1>4, PlainSound DEF Plain
<1> QED BY <1>1, <1>2, <1>5, ReadIsSafe

LEMMA LookUpSafe ==
    ASSUME VaultAssumption, ProfilesAssumption, SafeInv, NEW w \in Worker, LookUp(w),
           "package" \notin tasks, UNCHANGED <<tasks, changed, late>>
    PROVE  SafeInv'
<1>1. At(w, "lookup") /\ Reads /\ now \in Nat
  BY DEF LookUp, Reads, Calm, Data, NoFault, SafeInv, PackageTypeOK, TypeOK
<1>2. ASSUME NEW place \in {"renew", "stale"}, "renew" \in tasks, UNCHANGED nextKey,
             local' = [local EXCEPT ![w] = [Idle EXCEPT !.pc = place, !.t = now]]
      PROVE  SafeInv'
  <2> DEFINE l == [Idle EXCEPT !.pc = place, !.t = now]
  <2>1. l \in Locals
    <3>1. place \in Steps
      BY DEF Steps
    <3> QED BY <1>1, <3>1, IdleIs, TimedShape
  <2>2. l.pc = place /\ l.t = now /\ l.key = None /\ l.seen = None /\ l.pending = None /\ l.previous = None /\ l.doomed = {}
    BY DEF Idle
  <2>3. local' = [local EXCEPT ![w] = l]
    BY <1>2
  <2> HIDE DEF l
  <2> QED BY <1>1, <1>2, <2>1, <2>2, <2>3, BeginsSafe DEF At
<1>3. ASSUME KeyLeft, nextKey' = nextKey + 1,
             local' = [local EXCEPT ![w] = [Idle EXCEPT !.pc = "put", !.t = now, !.key = nextKey]]
      PROVE  SafeInv'
  <2> DEFINE l == [Idle EXCEPT !.pc = "put", !.t = now, !.key = nextKey]
  <2>1. l \in Locals
    <3>1. "put" \in Steps /\ Idle \in Locals /\ nextKey \in MaybeKey
      BY <1>3, IdleIs, FreshKey DEF Steps
    <3> QED BY <1>1, <3>1, KeyShape
  <2>2. l.pc = "put" /\ l.t = now /\ l.key = nextKey /\ l.seen = None /\ l.pending = None /\ l.previous = None /\ l.doomed = {}
    BY DEF Idle
  <2>3. local' = [local EXCEPT ![w] = l]
    BY <1>3
  <2> HIDE DEF l
  <2> QED BY <1>1, <1>3, <2>1, <2>2, <2>3, TakesSafe DEF At
<1> QED BY <1>2, <1>3 DEF LookUp

LEMMA BeginReviewSafe ==
    ASSUME VaultAssumption, ProfilesAssumption, SafeInv, NEW w \in Worker, BeginReview(w),
           "package" \notin tasks, UNCHANGED <<tasks, changed, late>>
    PROVE  SafeInv'
<1> DEFINE l == [Idle EXCEPT !.pc = "review", !.t = now, !.received = latest]
<1>1. Reads /\ UNCHANGED nextKey /\ At(w, "idle") /\ "review" \in tasks /\ local' = [local EXCEPT ![w] = l]
  BY DEF BeginReview, Reads, Calm, Data, Setting, NoFault
<1>2. l \in Locals
  <2>1. "review" \in Steps /\ Idle \in Locals /\ now \in Nat /\ latest \in Nat
    BY IdleIs DEF Steps, SafeInv, PackageTypeOK, TypeOK
  <2> QED BY <2>1, TimedShape
<1>3. l.pc = "review" /\ l.t = now /\ l.key = None /\ l.seen = None /\ l.pending = None /\ l.previous = None /\ l.doomed = {}
  BY DEF Idle
<1>4. row.status \in {"live", "expired", "purged"}
  BY DEF BeginReview, SafeInv, RowsSound, RowInv, PackageTypeOK, TypeOK, Rows, Statuses
<1> HIDE DEF l
<1> QED BY <1>1, <1>2, <1>3, <1>4, BeginsSafe DEF At

LEMMA BeginHoldSafe ==
    ASSUME VaultAssumption, ProfilesAssumption, SafeInv, NEW w \in Worker, BeginHold(w),
           "package" \notin tasks, UNCHANGED <<tasks, changed, late>>
    PROVE  SafeInv'
<1> DEFINE l == [Idle EXCEPT !.pc = "hold", !.t = now]
<1>1. Reads /\ UNCHANGED nextKey /\ At(w, "idle") /\ local' = [local EXCEPT ![w] = l]
  BY DEF BeginHold, Reads, Calm, Data, Setting, NoFault
<1>2. l \in Locals
  <2>1. "hold" \in Steps /\ Idle \in Locals /\ now \in Nat
    BY IdleIs DEF Steps, SafeInv, PackageTypeOK, TypeOK
  <2> QED BY <2>1, TimedShape
<1>3. l.pc = "hold" /\ l.t = now /\ l.key = None /\ l.seen = None /\ l.pending = None /\ l.previous = None /\ l.doomed = {}
  BY DEF Idle
<1> HIDE DEF l
<1> QED BY <1>1, <1>2, <1>3, BeginsSafe DEF At

LEMMA SelectRotationSafe ==
    ASSUME VaultAssumption, ProfilesAssumption, SafeInv, NEW w \in Worker, SelectRotation(w),
           UNCHANGED <<tasks, changed, late>>
    PROVE  SafeInv'
<1> DEFINE l == [Idle EXCEPT !.pc = "claim", !.key = nextKey, !.seen = row.r2, !.epoch = row.epoch]
<1>1. Reads /\ KeyLeft /\ nextKey' = nextKey + 1 /\ At(w, "idle") /\ local' = [local EXCEPT ![w] = l]
  BY DEF SelectRotation, Reads, Calm, Data, NoFault
<1>2. l \in Locals
  <2>1. "claim" \in Steps /\ Idle \in Locals /\ nextKey \in MaybeKey
    BY <1>1, IdleIs, FreshKey DEF Steps
  <2>2. row.r2 \in MaybeKey /\ row.epoch \in 0..MaxEpoch
    BY DEF SafeInv, PackageTypeOK, TypeOK, Rows
  <2> QED BY <2>1, <2>2, RotatingShape
<1>3. l.pc = "claim" /\ l.t = 0 /\ l.key = nextKey /\ l.seen = row.r2 /\ l.pending = None /\ l.previous = None /\ l.doomed = {}
  BY DEF Idle
<1> HIDE DEF l
<1> QED BY <1>1, <1>2, <1>3, TakesSafe DEF At

\* The build goes on, or ends.
LEMMA BuildGoesOn ==
    ASSUME VaultAssumption, ProfilesAssumption, SafeInv, NEW w \in Worker, Reads, UNCHANGED nextKey,
           NEW place \in {"fail", "prove", "discard"}, Goto(w, place),
           local[w].pc = IF place = "fail" THEN "select" ELSE IF place = "prove" THEN "settle" ELSE "prove",
           place = "discard" => row.status = "failed"
    PROVE  SafeInv'
<1>1. place \in Steps
  BY DEF Steps
<1>2. Learns(w) /\ local'[w].pc = place /\ local'[w].t = local[w].t /\ local'[w].key = local[w].key
  <2>1. local[w].pc \in Building /\ (local[w].pc \in Discarding => place \in Discarding)
    BY DEF Building, Discarding
  <2> QED BY <1>1, <2>1, GotoIs, GotoLearns DEF SafeInv, PackageTypeOK
<1>3. TaskSound(w)' /\ KeySound(w)'
  BY <1>2 DEF SafeInv, Sound, Reads, Calm, TaskSound, KeySound, Keyed, Storing, Rotating, Copying, Switched,
              Building, Purging, Retiring
<1>4. BuildSound(w)'
  BY <1>2 DEF SafeInv, Sound, Reads, Calm, BuildSound, Building, Discarding, Learns, Moves
<1>5. WriteSound(w)'
  BY <1>2 DEF SafeInv, Sound, WriteSound, Reads, Calm
<1>6. NameSound(w)' /\ CleanSound(w)' /\ PurgeSound(w)'
  BY <1>2 DEF NameSound, CleanSound, PurgeSound, Unsaid, Copying, Cleaning, Purging, Retiring
<1> QED BY <1>2, <1>3, <1>4, <1>5, <1>6, ReadIsSafe DEF Sound

LEMMA SelectEvidenceSafe ==
    ASSUME VaultAssumption, ProfilesAssumption, SafeInv, NEW w \in Worker, SelectEvidence(w), UNCHANGED tasks
    PROVE  SafeInv'
<1>1. At(w, "select") /\ Reads
  BY DEF SelectEvidence, Reads, Calm, Data, Unrelated, Fault, NoFault
<1>2. ASSUME KeyLeft, nextKey' = nextKey + 1,
             local' = [local EXCEPT ![w] = [Idle EXCEPT !.pc = "putPackage", !.key = nextKey]]
      PROVE  SafeInv'
  <2> DEFINE l == [Idle EXCEPT !.pc = "putPackage", !.key = nextKey]
  <2>1. l \in Locals
    <3>1. "putPackage" \in Steps /\ Idle \in Locals /\ nextKey \in MaybeKey /\ 0 \in Nat
      BY <1>2, IdleIs, FreshKey DEF Steps
    <3> QED BY <3>1, KeyShape
  <2>2. l.pc = "putPackage" /\ l.t = 0 /\ l.key = nextKey /\ l.seen = None /\ l.pending = None /\ l.previous = None /\ l.doomed = {}
    BY DEF Idle
  <2>3. local' = [local EXCEPT ![w] = l]
    BY <1>2
  <2> HIDE DEF l
  <2> QED BY <1>1, <1>2, <2>1, <2>2, <2>3, TakesSafe DEF At
<1>3. ASSUME Goto(w, "fail"), UNCHANGED nextKey PROVE SafeInv'
  BY <1>1, <1>3, BuildGoesOn DEF At
<1> QED BY <1>2, <1>3 DEF SelectEvidence

LEMMA SettlePublicationSafe ==
    ASSUME VaultAssumption, ProfilesAssumption, SafeInv, NEW w \in Worker, SettlePublication(w), UNCHANGED tasks
    PROVE  SafeInv'
<1>1. At(w, "settle") /\ Reads /\ UNCHANGED nextKey /\ (Goto(w, "prove") \/ Done(w))
  BY DEF SettlePublication, Reads, Calm, Data, Unrelated, Fault, NoFault
<1> QED BY <1>1, BuildGoesOn, ReadThenDone DEF At

LEMMA ProveLoserSafe ==
    ASSUME VaultAssumption, ProfilesAssumption, SafeInv, NEW w \in Worker, ProveLoser(w), UNCHANGED tasks
    PROVE  SafeInv'
<1>1. At(w, "prove") /\ Reads /\ UNCHANGED nextKey /\ ((row.status = "failed" /\ Goto(w, "discard")) \/ Done(w))
  BY DEF ProveLoser, Reads, Calm, Data, Unrelated, Fault, NoFault
<1> QED BY <1>1, BuildGoesOn, ReadThenDone DEF At

LEMMA ReadObjectSafe ==
    ASSUME VaultAssumption, ProfilesAssumption, SafeInv, NEW w \in Worker, ReadObject(w), UNCHANGED <<tasks, changed, late>>
    PROVE  SafeInv'
<1>1. At(w, "read") /\ Reads /\ UNCHANGED nextKey /\ ((\E place \in {"copy", "release"} : Goto(w, place)) \/ Done(w))
  BY DEF ReadObject, Reads, Calm, Data, Setting, Fault, NoFault
<1>2. ASSUME NEW place \in {"copy", "release"}, Goto(w, place) PROVE SafeInv'
  <2>1. Learns(w) /\ local'[w].pc = place /\ local'[w].key = local[w].key
    <3>1. place \in Steps /\ place \notin Building /\ local[w].pc \notin Discarding
      BY <1>1 DEF At, Steps, Building, Discarding
    <3> QED BY <1>1, <1>2, <3>1, GotoIs, GotoLearns DEF SafeInv, PackageTypeOK
  <2>2. Sound(w)'
    BY <1>1, <2>1, CopyingSound DEF Copying, Reads, Calm, At
  <2> QED BY <1>1, <2>1, <2>2, ReadIsSafe
<1> QED BY <1>1, <1>2, ReadThenDone

LEMMA BindSwitchSafe ==
    ASSUME VaultAssumption, ProfilesAssumption, SafeInv, NEW w \in Worker, BindSwitch(w), UNCHANGED <<tasks, changed, late>>
    PROVE  SafeInv'
<1> DEFINE l == [local[w] EXCEPT !.pc = "switch", !.t = now]
<1>1. Reads /\ UNCHANGED nextKey /\ At(w, "bind") /\ local' = [local EXCEPT ![w] = l]
  BY DEF BindSwitch, Reads, Calm, Data, Setting, NoFault
<1>2. local[w] \in Locals /\ now \in Nat
  BY LocalsOf DEF SafeInv, PackageTypeOK, TypeOK
<1>3. l \in Locals
  <2>1. "switch" \in Steps
    BY DEF Steps
  <2> QED BY <1>2, <2>1, TimedShape
<1>4. /\ l.pc = "switch" /\ l.t = now /\ l.key = local[w].key /\ l.seen = local[w].seen /\ l.pending = local[w].pending
      /\ l.previous = local[w].previous /\ l.doomed = local[w].doomed /\ l.to = local[w].to
  BY <1>2 DEF Locals
<1> HIDE DEF l
<1>5. Moves(w) /\ local'[w] = l
  BY <1>1, <1>3, PutIs DEF SafeInv, PackageTypeOK
<1>6. Learns(w)
  BY <1>1, <1>4, <1>5 DEF Learns, Building, Discarding, At
<1>7. Mine(w)' /\ Alive' => Stored(local[w].key, local[w].to)'
  BY <1>1, <1>4, <1>5 DEF SafeInv, Sound, WriteSound, Mine, Alive, Stored, Reads, Calm, At
<1>8. Sound(w)'
  BY <1>1, <1>4, <1>5, <1>6, <1>7, CopyingSound DEF Copying, Reads, Calm, At
<1> QED BY <1>1, <1>6, <1>8, ReadIsSafe

LEMMA ClassifySafe ==
    ASSUME VaultAssumption, ProfilesAssumption, SafeInv, NEW w \in Worker, Classify(w), UNCHANGED <<tasks, changed, late>>
    PROVE  SafeInv'
<1>1. /\ At(w, "classify") /\ Reads /\ UNCHANGED nextKey
      /\ \/ Committed(w) /\ Goto(w, "drop")
         \/ ProvenLoser(w) /\ Goto(w, "lose")
         \/ Done(w)
  BY DEF Classify, Reads, Calm, Data, Setting, Fault, NoFault
<1>2. ASSUME NEW place \in {"drop", "lose"}, Goto(w, place), IF place = "drop" THEN Committed(w) ELSE ProvenLoser(w)
      PROVE  SafeInv'
  <2>1. Learns(w) /\ local'[w].pc = place /\ local'[w].key = local[w].key /\ local'[w].seen = local[w].seen /\ local'[w].t = local[w].t
    <3>1. place \in Steps /\ place \notin Building /\ local[w].pc \notin Discarding
      BY <1>1 DEF At, Steps, Building, Discarding
    <3> QED BY <1>1, <1>2, <3>1, GotoIs, GotoLearns DEF SafeInv, PackageTypeOK
  <2>2. local[w].seen # local[w].key /\ local[w].key # None
    BY <1>1 DEF SafeInv, Sound, NameSound, KeySound, Keyed, Rotating, Switched, At
  <2>3. NameSound(w)'
    BY <1>1, <1>2, <2>1, <2>2 DEF NameSound, Unsaid, Copying, Committed, ProvenLoser, Reads, Calm, Referenced
  <2>4. WriteSound(w)'
    BY <1>1, <2>1 DEF SafeInv, Sound, WriteSound, Reads, Calm
  <2>5. TaskSound(w)' /\ KeySound(w)' /\ BuildSound(w)' /\ CleanSound(w)' /\ PurgeSound(w)'
    BY <2>1, <2>2 DEF TaskSound, KeySound, BuildSound, CleanSound, PurgeSound, Storing, Building, Purging, Retiring, Cleaning
  <2> QED BY <1>1, <2>1, <2>3, <2>4, <2>5, ReadIsSafe DEF Sound
<1> QED BY <1>1, <1>2, ReadThenDone

LEMMA SelectGarbageSafe ==
    ASSUME VaultAssumption, ProfilesAssumption, SafeInv, NEW w \in Worker, SelectGarbage(w), UNCHANGED <<tasks, changed, late>>
    PROVE  SafeInv'
<1> DEFINE l == [Idle EXCEPT !.pc = "reclaim", !.t = now, !.seen = row.r2, !.pending = row.pending, !.previous = row.previous]
<1>1. Reads /\ UNCHANGED nextKey /\ At(w, "idle") /\ local' = [local EXCEPT ![w] = l] /\ (row.pending # None \/ row.previous # None)
  BY DEF SelectGarbage, Reads, Calm, Data, Setting, NoFault
<1>2. now \in Nat /\ row.r2 \in MaybeKey /\ row.pending \in MaybeKey /\ row.previous \in MaybeKey
  BY DEF SafeInv, PackageTypeOK, TypeOK, Rows
<1>3. l \in Locals
  <2>1. "reclaim" \in Steps /\ Idle \in Locals
    BY IdleIs DEF Steps
  <2> QED BY <1>2, <2>1, CleaningShape
<1>4. /\ l.pc = "reclaim" /\ l.t = now /\ l.key = None /\ l.seen = row.r2
      /\ l.pending = row.pending /\ l.previous = row.previous /\ l.doomed = {}
  BY DEF Idle
<1> HIDE DEF l
<1>5. Moves(w) /\ local'[w] = l
  BY <1>1, <1>3, PutIs DEF SafeInv, PackageTypeOK
<1>6. Learns(w)
  BY <1>1, <1>4, <1>5 DEF Learns, Building, Discarding, At
<1>7. WriteSound(w)' /\ CleanSound(w)'
  BY <1>1, <1>2, <1>4, <1>5 DEF WriteSound, CleanSound, Reads, Calm
<1>8. TaskSound(w)' /\ KeySound(w)' /\ BuildSound(w)' /\ PurgeSound(w)' /\ NameSound(w)'
  BY <1>4, <1>5 DEF TaskSound, KeySound, BuildSound, PurgeSound, NameSound, Storing, Building, Purging, Retiring, Keyed,
                    Rotating, Copying, Switched, Unsaid
<1> QED BY <1>1, <1>6, <1>7, <1>8, ReadIsSafe DEF Sound

\* What the row names, to be deleted.
LEMMA NamesOfRow ==
    ASSUME SafeInv
    PROVE  {row.r2, row.pending, row.previous} \ {None} \in SUBSET Keys
BY DEF SafeInv, PackageTypeOK, TypeOK, Rows, MaybeKey

\* A purge selects the row.
LEMMA DoomsSafe ==
    ASSUME VaultAssumption, ProfilesAssumption, SafeInv, NEW w \in Worker, Reads, UNCHANGED nextKey, At(w, "idle"),
           NEW place \in {"condemn", "claimPurge"}, row.expires <= now,
           local' = [local EXCEPT ![w] = [Idle EXCEPT !.pc = place, !.t = now,
                                         !.doomed = {row.r2, row.pending, row.previous} \ {None}]],
           IF place = "condemn" THEN "package" \notin tasks /\ "purge" \in tasks /\ row.status \in {"live", "expired"}
                                ELSE "package" \in tasks /\ Live
    PROVE  SafeInv'
<1> DEFINE l == [Idle EXCEPT !.pc = place, !.t = now, !.doomed = {row.r2, row.pending, row.previous} \ {None}]
<1>1. now \in Nat /\ l \in Locals
  <2>1. place \in Steps /\ Idle \in Locals /\ now \in Nat
    BY IdleIs DEF Steps, SafeInv, PackageTypeOK, TypeOK
  <2> QED BY <2>1, NamesOfRow, DoomedShape
<1>2. /\ l.pc = place /\ l.t = now /\ l.key = None /\ l.seen = None /\ l.pending = None /\ l.previous = None
      /\ l.doomed = {row.r2, row.pending, row.previous} \ {None} /\ local' = [local EXCEPT ![w] = l]
  BY DEF Idle
<1> HIDE DEF l
<1>3. Moves(w) /\ local'[w] = l
  BY <1>1, <1>2, PutIs DEF SafeInv, PackageTypeOK
<1>4. Learns(w)
  BY <1>2, <1>3 DEF Learns, Building, Discarding, At, Referenced
<1>5. WriteSound(w)' /\ CleanSound(w)'
  BY <1>1, <1>2, <1>3 DEF WriteSound, CleanSound, Reads, Calm, Cleaning
<1>6. TaskSound(w)' /\ PurgeSound(w)'
  BY <1>2, <1>3 DEF TaskSound, PurgeSound, Storing, Building, Purging, Retiring, Reads, Calm, Live
<1>7. KeySound(w)' /\ BuildSound(w)' /\ NameSound(w)'
  BY <1>2, <1>3 DEF KeySound, BuildSound, NameSound, Building, Keyed, Storing, Rotating, Copying, Switched, Unsaid
<1> QED BY <1>4, <1>5, <1>6, <1>7, ReadIsSafe DEF Sound

LEMMA SelectExpiredSafe ==
    ASSUME VaultAssumption, ProfilesAssumption, SafeInv, NEW w \in Worker, SelectExpired(w),
           "package" \notin tasks, UNCHANGED <<tasks, changed, late>>
    PROVE  SafeInv'
<1>1. Reads /\ UNCHANGED nextKey
  BY DEF SelectExpired, Reads, Calm, Data, Setting, NoFault
<1> QED BY <1>1, DoomsSafe DEF SelectExpired

LEMMA SelectExpiredPackageSafe ==
    ASSUME VaultAssumption, ProfilesAssumption, SafeInv, NEW w \in Worker, SelectExpiredPackage(w),
           "package" \in tasks, UNCHANGED tasks
    PROVE  SafeInv'
<1>1. Reads /\ UNCHANGED nextKey
  BY DEF SelectExpiredPackage, Reads, Calm, Data, Setting, NoFault
<1> QED BY <1>1, DoomsSafe DEF SelectExpiredPackage, Purgeable

LEMMA ConfirmSafe ==
    ASSUME VaultAssumption, ProfilesAssumption, SafeInv, NEW w \in Worker, Confirm(w), UNCHANGED <<tasks, changed, late>>
    PROVE  SafeInv'
<1>1. /\ At(w, "confirm") /\ Reads /\ UNCHANGED nextKey
      /\ (row.status = "expired" /\ Goto(w, "shred")) \/ Done(w)
  BY DEF Confirm, Reads, Calm, Data, Setting, NoFault
<1>2. ASSUME row.status = "expired", Goto(w, "shred") PROVE SafeInv'
  <2>1. Learns(w) /\ local'[w].pc = "shred" /\ local'[w].t = local[w].t
    <3>1. "shred" \in Steps /\ "shred" \notin Building /\ local[w].pc \notin Discarding
      BY <1>1 DEF At, Steps, Building, Discarding
    <3> QED BY <1>1, <1>2, <3>1, GotoIs, GotoLearns DEF SafeInv, PackageTypeOK
  <2>2. TaskSound(w)' /\ PurgeSound(w)' /\ WriteSound(w)'
    BY <1>1, <1>2, <2>1 DEF SafeInv, Sound, TaskSound, PurgeSound, WriteSound, Storing, Building, Purging, Retiring, Reads, Calm, At
  <2>3. KeySound(w)' /\ BuildSound(w)' /\ NameSound(w)' /\ CleanSound(w)'
    BY <2>1 DEF KeySound, BuildSound, NameSound, CleanSound, Building, Keyed, Storing, Rotating, Copying, Switched, Unsaid, Cleaning
  <2> QED BY <1>1, <2>1, <2>2, <2>3, ReadIsSafe DEF Sound
<1> QED BY <1>1, <1>2, ReadThenDone

LEMMA CrashSafe ==
    ASSUME VaultAssumption, ProfilesAssumption, SafeInv, NEW w \in Worker, Crash(w), UNCHANGED <<tasks, changed, late>>
    PROVE  SafeInv'
<1>1. Calm /\ Done(w) /\ UNCHANGED <<nextKey, latest, active, stray, faults>> /\ crashes' = crashes + 1 /\ crashes < MaxCrashes
  BY DEF Crash, Calm, Data
<1>2. Learns(w) /\ Sound(w)'
  BY <1>1, DoneIsSafe DEF Calm, SafeInv, PackageTypeOK, TypeOK
<1>3. crashes' \in 0..MaxCrashes
  BY <1>1, Bounds DEF SafeInv, PackageTypeOK, TypeOK
<1>4. PackageTypeOK'
  BY <1>1, <1>2, <1>3 DEF SafeInv, PackageTypeOK, TypeOK, Calm, Learns, Moves
<1> QED BY <1>1, <1>2, <1>4, CalmIsSafe

-----------------------------------------------------------------------------
(* The steps of the world, and holds.                                      *)

\* Time passes, keys are made, holds lapse: nothing said of the workers depends on it.
LEMMA WorldIsSafe ==
    ASSUME VaultAssumption, SafeInv, UNCHANGED <<row, objects, undone, late, tasks, local, nextKey>>,
           PackageTypeOK', now <= now', CondemnedInv'
    PROVE  SafeInv'
<1>1. now \in Nat /\ now' \in Nat /\ row.expires \in Nat
  BY DEF SafeInv, PackageTypeOK, TypeOK, Rows
<1>2. RowInv' /\ LateInv'
  BY DEF SafeInv, RowsSound, RowInv, LateInv, Named, LeaseFree, Referenced, Stored
<1>3. KeptInv'
  BY <1>1 DEF SafeInv, RowsSound, KeptInv, Alive, Stored
<1>4. UsedInv'
  BY DEF SafeInv, UsedInv, Named, LeaseFree, Referenced
<1>5. ASSUME NEW w \in Worker PROVE Sound(w)'
  <2>1. Sound(w)
    BY DEF SafeInv
  <2>2. TaskSound(w)' /\ KeySound(w)' /\ BuildSound(w)' /\ PurgeSound(w)' /\ CleanSound(w)'
    BY <2>1 DEF Sound, TaskSound, KeySound, BuildSound, PurgeSound, CleanSound, LeaseFree
  <2>3. NameSound(w)'
    BY <2>1 DEF Sound, NameSound, Named, Current, LeaseFree, Referenced
  <2>4. local[w].t <= now'
    BY <1>1, <2>1, LocalsOf DEF Sound, WriteSound, SafeInv, PackageTypeOK
  <2>5. WriteSound(w)'
    BY <2>1, <2>4 DEF Sound, WriteSound, Mine, Alive, Stored
  <2> QED BY <2>2, <2>3, <2>5 DEF Sound
<1> QED BY <1>2, <1>3, <1>4, <1>5 DEF SafeInv, RowsSound

LEMMA WorldSafe ==
    ASSUME VaultAssumption, ProfilesAssumption, SafeInv, World, UNCHANGED <<tasks, changed, late>>
    PROVE  SafeInv'
<1>1. /\ now \in 0..MaxTime /\ row.expires \in Nat /\ hold \in Nat /\ MaxTime \in Nat /\ MaxEpoch \in Nat
      /\ active \in 1..MaxEpoch /\ CondemnedInv
  BY Bounds DEF SafeInv, RowsSound, PackageTypeOK, TypeOK, Rows
<1>2. CASE ReleaseHold
  <2>1. /\ UNCHANGED <<row, objects, undone, late, tasks, local, nextKey, latest, closed, active, now, stray, crashes, faults, changed>>
        /\ hold' = now
    BY <1>2 DEF ReleaseHold, Data
  <2>2. PackageTypeOK'
    BY <1>1, <2>1 DEF SafeInv, PackageTypeOK, TypeOK
  <2>3. CondemnedInv'
    BY <1>1, <2>1 DEF CondemnedInv
  <2> QED BY <1>1, <2>1, <2>2, <2>3, WorldIsSafe
<1>3. CASE Tick
  <2>1. /\ UNCHANGED <<row, objects, undone, late, tasks, local, nextKey, latest, closed, active, hold, stray, crashes, faults, changed>>
        /\ now' = now + 1 /\ now < MaxTime
    BY <1>3 DEF Tick, Data
  <2>2. PackageTypeOK'
    BY <1>1, <2>1 DEF SafeInv, PackageTypeOK, TypeOK
  <2>3. CondemnedInv'
    BY <1>1, <2>1 DEF CondemnedInv
  <2> QED BY <1>1, <2>1, <2>2, <2>3, WorldIsSafe
<1>4. CASE CloseAssessment
  <2>1. /\ UNCHANGED <<row, objects, undone, late, tasks, local, nextKey, latest, now, active, hold, stray, crashes, faults, changed>>
        /\ closed' = TRUE
    BY <1>4 DEF CloseAssessment, Data
  <2>2. PackageTypeOK'
    BY <1>1, <2>1 DEF SafeInv, PackageTypeOK, TypeOK
  <2>3. CondemnedInv'
    BY <1>1, <2>1 DEF CondemnedInv
  <2> QED BY <1>1, <2>1, <2>2, <2>3, WorldIsSafe
<1>5. CASE NewKey
  <2>1. /\ UNCHANGED <<row, objects, undone, late, tasks, local, nextKey, latest, now, closed, hold, stray, crashes, faults, changed>>
        /\ active' = active + 1 /\ active < MaxEpoch
    BY <1>5 DEF NewKey, Data
  <2>2. PackageTypeOK'
    BY <1>1, <2>1 DEF SafeInv, PackageTypeOK, TypeOK
  <2>3. CondemnedInv'
    BY <1>1, <2>1 DEF CondemnedInv
  <2> QED BY <1>1, <2>1, <2>2, <2>3, WorldIsSafe
<1>6. CASE \E w \in Worker : Crash(w)
  BY <1>6, CrashSafe
<1> QED BY <1>2, <1>3, <1>4, <1>5, <1>6 DEF World

LEMMA SelectionChangesSafe ==
    ASSUME VaultAssumption, SafeInv, SelectionChanges, UNCHANGED tasks
    PROVE  SafeInv'
<1>1. /\ UNCHANGED <<row, objects, undone, late, tasks, local, nextKey, latest, now, closed, active, hold, stray, crashes, faults>>
      /\ changed' = TRUE
  BY DEF SelectionChanges, Data, Setting
<1>2. PackageTypeOK' /\ CondemnedInv' /\ now <= now'
  BY <1>1 DEF SafeInv, RowsSound, PackageTypeOK, TypeOK, CondemnedInv
<1> QED BY <1>1, <1>2, WorldIsSafe

LEMMA SetHoldSafe ==
    ASSUME VaultAssumption, ProfilesAssumption, SafeInv, NEW w \in Worker, SetHold(w), UNCHANGED <<tasks, changed, late>>
    PROVE  SafeInv'
<1>1. /\ Done(w) /\ UNCHANGED <<row, latest, objects, closed, active, now, nextKey, undone, stray, crashes, faults>>
      /\ hold' = hold \/ (Live /\ hold' \in {local[w].t + 1, MaxTime + 1})
  BY DEF SetHold, Data
<1>2. Learns(w) /\ Sound(w)'
  BY <1>1, DoneIsSafe DEF SafeInv, PackageTypeOK, TypeOK
<1>3. hold' \in Nat
  BY <1>1, Bounds, LocalsOf DEF SafeInv, PackageTypeOK, TypeOK
<1>4. PackageTypeOK'
  BY <1>1, <1>2, <1>3 DEF SafeInv, PackageTypeOK, TypeOK, Learns, Moves
<1>5. CondemnedInv' /\ RowInv' /\ KeptInv'
  BY <1>1 DEF SafeInv, RowsSound, CondemnedInv, RowInv, KeptInv, Alive, Stored, Live
<1>6. Tame(None) /\ Steady(w) /\ Touches(w, {}) /\ Spare(w, {})
  BY <1>1 DEF Tame, Steady, Touches, Spare, Alive
<1>7. Effect(w, None, {})
  BY <1>1, <1>2, <1>4, <1>6 DEF Effect
<1> QED BY <1>2, <1>5, <1>7, StepIsSafe

-----------------------------------------------------------------------------
(* The steps that write or delete an object.                               *)

\* A step that writes or deletes objects is safe if what it deletes is spared.
LEMMA ObjectsSafe ==
    ASSUME VaultAssumption, ProfilesAssumption, SafeInv, NEW w \in Worker, NEW D,
           UNCHANGED <<row, latest, late, tasks, now, hold, closed, active, changed, crashes, nextKey>>,
           undone' \subseteq Keys, stray' \subseteq Keys, Fault \/ NoFault,
           DOMAIN objects' \subseteq Keys, \A j \in DOMAIN objects' : objects'[j] \in 1..MaxEpoch,
           Learns(w), Touches(w, D), Spare(w, D), KeptInv', Sound(w)'
    PROVE  SafeInv'
<1>1. faults' \in 0..MaxFaults
  BY Bounds DEF SafeInv, PackageTypeOK, TypeOK, Fault, NoFault
<1>2. PackageTypeOK'
  BY <1>1 DEF SafeInv, PackageTypeOK, TypeOK, Learns, Moves
<1>3. RowInv' /\ CondemnedInv'
  BY DEF SafeInv, RowsSound, RowInv, CondemnedInv
<1>4. Tame(None) /\ Steady(w)
  BY DEF Tame, Steady, Alive
<1>5. Effect(w, None, D)
  BY <1>2, <1>4 DEF Effect
<1> QED BY <1>3, <1>5, StepIsSafe

\* A worker writes the object of its key, which is not the row's.
LEMMA Written ==
    ASSUME VaultAssumption, SafeInv, NEW w \in Worker, objects' \in {objects, With(local[w].key, active)},
           UNCHANGED <<row, tasks, now, undone>>, local[w].key \in Keys, local[w].key # row.r2,
           local[w].pc \notin Discarding
    PROVE  /\ Touches(w, {}) /\ Spare(w, {}) /\ KeptInv'
           /\ DOMAIN objects' \subseteq Keys /\ \A j \in DOMAIN objects' : objects'[j] \in 1..MaxEpoch
<1>1. PICK k \in Keys : k = local[w].key
  OBVIOUS
<1>2. /\ DOMAIN objects \subseteq Keys /\ \A j \in DOMAIN objects : objects[j] \in 1..MaxEpoch
      /\ active \in 1..MaxEpoch
  BY DEF SafeInv, PackageTypeOK, TypeOK
<1>3. /\ DOMAIN objects' \subseteq DOMAIN objects \union {k}
      /\ \A j \in DOMAIN objects : j # k => j \in DOMAIN objects' /\ objects'[j] = objects[j]
      /\ \A j \in DOMAIN objects' : objects'[j] \in {active} \/ (j \in DOMAIN objects /\ objects'[j] = objects[j])
  BY <1>1 DEF With
<1>4. DOMAIN objects' \subseteq Keys /\ \A j \in DOMAIN objects' : objects'[j] \in 1..MaxEpoch
  BY <1>2, <1>3
<1>5. Touches(w, {}) /\ Spare(w, {})
  BY <1>1, <1>3 DEF Touches, Spare
<1>6. KeptInv'
  BY <1>1, <1>3 DEF SafeInv, RowsSound, KeptInv, Alive, Stored
<1> QED BY <1>4, <1>5, <1>6

\* A worker deletes objects other than the row's, or when the row has none.
LEMMA Deleted ==
    ASSUME VaultAssumption, SafeInv, NEW w \in Worker, NEW D, objects' \in {objects, Without(D)},
           UNCHANGED <<row, tasks, now>>, undone \subseteq undone', local[w].pc \notin Discarding \ {"discard"},
           Alive /\ ("package" \in tasks => row.expires > now) /\ row.r2 \in D /\ row.r2 # None => row.r2 \in undone'
    PROVE  /\ Touches(w, D) /\ KeptInv'
           /\ DOMAIN objects' \subseteq Keys /\ \A j \in DOMAIN objects' : objects'[j] \in 1..MaxEpoch
<1>1. /\ DOMAIN objects \subseteq Keys /\ \A j \in DOMAIN objects : objects[j] \in 1..MaxEpoch
      /\ undone \subseteq Keys /\ None \notin Keys
  BY DEF SafeInv, PackageTypeOK, TypeOK, Keys, None
<1>2. /\ DOMAIN objects' \subseteq DOMAIN objects
      /\ \A j \in DOMAIN objects : j \notin D => j \in DOMAIN objects' /\ objects'[j] = objects[j]
      /\ \A j \in DOMAIN objects' : objects'[j] = objects[j]
  BY DEF Without
<1>3. Touches(w, D)
  <2>1. local[w].pc \in Discarding \ {"discard"} => objects' = objects
    OBVIOUS
  <2> QED BY <1>2, <2>1 DEF Touches
<1>4. KeptInv'
  BY <1>1, <1>2 DEF SafeInv, RowsSound, KeptInv, Alive, Stored
<1> QED BY <1>1, <1>2, <1>3, <1>4

\* Its own is not counted among them.
LEMMA DeletedOwn ==
    ASSUME VaultAssumption, SafeInv, NEW w \in Worker, objects' \in {objects, Without({local[w].key})},
           UNCHANGED <<row, tasks, now>>, undone \subseteq undone', local[w].pc \notin Discarding \ {"discard"},
           objects' # objects /\ Alive /\ row.r2 = local[w].key => row.r2 \in undone'
    PROVE  /\ Touches(w, {}) /\ KeptInv'
           /\ DOMAIN objects' \subseteq Keys /\ \A j \in DOMAIN objects' : objects'[j] \in 1..MaxEpoch
<1>1. /\ DOMAIN objects \subseteq Keys /\ \A j \in DOMAIN objects : objects[j] \in 1..MaxEpoch
  BY DEF SafeInv, PackageTypeOK, TypeOK
<1>2. /\ DOMAIN objects' \subseteq DOMAIN objects
      /\ \A j \in DOMAIN objects : j # local[w].key => j \in DOMAIN objects' /\ objects'[j] = objects[j]
      /\ \A j \in DOMAIN objects' : objects'[j] = objects[j]
  BY DEF Without
<1>3. Touches(w, {})
  <2>1. local[w].pc \in Discarding \ {"discard"} => objects' = objects
    OBVIOUS
  <2> QED BY <1>2, <2>1 DEF Touches
<1>4. CASE objects' = objects
  <2>1. KeptInv'
    BY <1>4 DEF SafeInv, RowsSound, KeptInv, Alive, Stored
  <2> QED BY <1>1, <1>2, <1>3, <2>1
<1>5. CASE objects' # objects
  <2>1. KeptInv'
    BY <1>2, <1>5 DEF SafeInv, RowsSound, KeptInv, Alive, Stored
  <2> QED BY <1>1, <1>2, <1>3, <2>1
<1> QED BY <1>4, <1>5

\* An object is deleted, and the work ends.
LEMMA DeletedThenDone ==
    ASSUME VaultAssumption, ProfilesAssumption, SafeInv, NEW w \in Worker, NEW D, Spare(w, D), Done(w),
           UNCHANGED <<row, latest, late, tasks, now, hold, closed, active, changed, crashes, nextKey, stray>>,
           undone' \subseteq Keys, Fault \/ NoFault,
           DOMAIN objects' \subseteq Keys, \A j \in DOMAIN objects' : objects'[j] \in 1..MaxEpoch,
           Touches(w, D), KeptInv'
    PROVE  SafeInv'
<1>1. Learns(w) /\ Sound(w)' /\ stray' \subseteq Keys
  BY DoneIsSafe DEF SafeInv, PackageTypeOK, TypeOK
<1> QED BY <1>1, ObjectsSafe

\* The key of a worker that has one.
LEMMA OwnKey ==
    ASSUME SafeInv, NEW w \in Worker, local[w].pc \in Keyed
    PROVE  local[w].key \in Keys /\ local[w].key # None
BY LocalsOf DEF SafeInv, Sound, KeySound, PackageTypeOK, MaybeKey

LEMMA NothingSpared ==
    ASSUME NEW w \in Worker
    PROVE  Spare(w, {})
BY DEF Spare

\* A key not yet the row's has been written.
LEMMA PutSound ==
    ASSUME VaultAssumption, SafeInv, NEW w \in Worker, Learns(w), UNCHANGED <<row, late, tasks, now>>,
           local[w].pc \in {"put", "putPackage"},
           local'[w].pc = IF local[w].pc = "put" THEN "insert" ELSE "publish",
           local'[w].key = local[w].key, Stored(local[w].key, local[w].to)'
    PROVE  Sound(w)'
<1>1. ~Named(local[w].key) /\ late.key # local[w].key /\ local[w].key \in Keys
  BY OwnKey DEF SafeInv, Sound, NameSound, Keyed, Unsaid, Storing, Building
<1>2. PICK j \in Keys : j = local[w].key
  BY <1>1
<1>3. ~Named(j)'
  BY <1>1, <1>2, CalmNames
<1>4. NameSound(w)' /\ KeySound(w)'
  BY <1>1, <1>2, <1>3 DEF NameSound, KeySound, Copying, Keys, None
<1>5. local'[w].t <= now'
  BY LocalsOf DEF Learns, SafeInv, Sound, WriteSound, PackageTypeOK, TypeOK
<1>6. WriteSound(w)' /\ CleanSound(w)' /\ PurgeSound(w)'
  BY <1>5 DEF WriteSound, CleanSound, PurgeSound, Cleaning, Purging, Retiring
<1>7. TaskSound(w)'
  BY DEF SafeInv, Sound, TaskSound, Storing, Building, Purging, Retiring
<1>8. BuildSound(w)'
  BY DEF SafeInv, Sound, BuildSound, Building, Discarding, Learns, Moves
<1> QED BY <1>4, <1>6, <1>7, <1>8 DEF Sound

LEMMA PutEvidenceSafe ==
    ASSUME VaultAssumption, ProfilesAssumption, SafeInv, NEW w \in Worker, PutEvidence(w),
           UNCHANGED <<tasks, changed, late>>
    PROVE  SafeInv'
<1> DEFINE l == [local[w] EXCEPT !.pc = "insert", !.to = active]
<1>1. /\ At(w, "put") /\ objects' = With(local[w].key, active) /\ (Fault \/ NoFault)
      /\ UNCHANGED <<row, latest, late, tasks, now, hold, closed, active, changed, crashes, nextKey, undone, stray>>
      /\ local' = [local EXCEPT ![w] = l] \/ Done(w)
  BY DEF PutEvidence, Setting
<1>2. local[w].key \in Keys /\ local[w].key # row.r2 /\ local[w].pc \notin Discarding
  BY <1>1, OwnKey DEF At, SafeInv, Sound, NameSound, Keyed, Storing, Unsaid, Named, Referenced, Discarding
<1>3. /\ Touches(w, {}) /\ Spare(w, {}) /\ KeptInv' /\ undone' \subseteq Keys /\ stray' \subseteq Keys
      /\ DOMAIN objects' \subseteq Keys /\ \A j \in DOMAIN objects' : objects'[j] \in 1..MaxEpoch
  BY <1>1, <1>2, Written DEF SafeInv, PackageTypeOK, TypeOK
<1>4. CASE Done(w)
  BY <1>1, <1>3, <1>4, DeletedThenDone
<1>5. CASE local' = [local EXCEPT ![w] = l]
  <2>1. l \in Locals
    <3>1. "insert" \in Steps /\ local[w] \in Locals /\ active \in 0..MaxEpoch /\ 0 \in Nat
      BY LocalsOf DEF Steps, SafeInv, PackageTypeOK, TypeOK
    <3> QED BY <3>1, WritingShape
  <2>2. /\ l.pc = "insert" /\ l.t = local[w].t /\ l.key = local[w].key /\ l.seen = local[w].seen /\ l.to = active
        /\ l.pending = local[w].pending /\ l.previous = local[w].previous /\ l.doomed = local[w].doomed
    BY LocalsOf DEF Locals, SafeInv, PackageTypeOK
  <2> HIDE DEF l
  <2>3. Moves(w) /\ local'[w] = l
    BY <1>5, <2>1, PutIs DEF SafeInv, PackageTypeOK
  <2>4. Learns(w)
    BY <1>1, <2>2, <2>3 DEF Learns, Building, Discarding, At
  <2>5. Stored(local[w].key, local[w].to)'
    BY <1>1, <2>2, <2>3 DEF Stored, With
  <2>6. Sound(w)'
    BY <1>1, <2>2, <2>3, <2>4, <2>5, PutSound DEF At
  <2> QED BY <1>1, <1>3, <2>4, <2>6, ObjectsSafe
<1> QED BY <1>1, <1>4, <1>5

LEMMA PutPackageSafe ==
    ASSUME VaultAssumption, ProfilesAssumption, SafeInv, NEW w \in Worker, PutPackage(w), UNCHANGED tasks
    PROVE  SafeInv'
<1> DEFINE l == [local[w] EXCEPT !.pc = "publish", !.to = active, !.t = now]
<1>1. /\ At(w, "putPackage") /\ objects' \in {objects, With(local[w].key, active)} /\ (Fault \/ NoFault)
      /\ UNCHANGED <<row, latest, late, tasks, now, hold, closed, active, changed, crashes, nextKey, undone, stray>>
      /\ (objects' = With(local[w].key, active) /\ local' = [local EXCEPT ![w] = l]) \/ Goto(w, "fail")
  BY DEF PutPackage, Unrelated
<1>2. local[w].key \in Keys /\ local[w].key # row.r2 /\ local[w].pc \notin Discarding
  BY <1>1, OwnKey DEF At, SafeInv, Sound, NameSound, Keyed, Building, Unsaid, Named, Referenced, Discarding
<1>3. /\ Touches(w, {}) /\ Spare(w, {}) /\ KeptInv' /\ undone' \subseteq Keys /\ stray' \subseteq Keys
      /\ DOMAIN objects' \subseteq Keys /\ \A j \in DOMAIN objects' : objects'[j] \in 1..MaxEpoch
  BY <1>1, <1>2, Written DEF SafeInv, PackageTypeOK, TypeOK
<1>4. CASE Goto(w, "fail")
  <2>1. Learns(w) /\ local'[w].pc = "fail" /\ local'[w].t = local[w].t /\ local'[w].key = local[w].key
    <3>1. "fail" \in Steps /\ local[w].pc \in Building /\ local[w].pc \notin Discarding
      BY <1>1 DEF At, Steps, Building, Discarding
    <3> QED BY <1>1, <1>4, <3>1, GotoIs, GotoLearns DEF SafeInv, PackageTypeOK
  <2>2. TaskSound(w)' /\ KeySound(w)'
    BY <1>1, <2>1 DEF SafeInv, Sound, TaskSound, KeySound, Keyed, Storing, Rotating, Copying, Switched,
                      Building, Purging, Retiring, At
  <2>3. BuildSound(w)'
    BY <1>1, <2>1 DEF SafeInv, Sound, BuildSound, Building, Discarding, Learns, Moves, At
  <2>4. local'[w].t <= now'
    BY <1>1, <2>1 DEF SafeInv, Sound, WriteSound
  <2>5. Sound(w)'
    BY <2>1, <2>2, <2>3, <2>4, PlainSound DEF Plain
  <2> QED BY <1>1, <1>3, <2>1, <2>5, ObjectsSafe
<1>5. CASE objects' = With(local[w].key, active) /\ local' = [local EXCEPT ![w] = l]
  <2>1. l \in Locals
    <3>1. "publish" \in Steps /\ local[w] \in Locals /\ active \in 0..MaxEpoch /\ now \in Nat
      BY LocalsOf DEF Steps, SafeInv, PackageTypeOK, TypeOK
    <3> QED BY <3>1, WritingShape
  <2>2. /\ l.pc = "publish" /\ l.t = now /\ l.key = local[w].key /\ l.seen = local[w].seen /\ l.to = active
        /\ l.pending = local[w].pending /\ l.previous = local[w].previous /\ l.doomed = local[w].doomed
    BY LocalsOf DEF Locals, SafeInv, PackageTypeOK
  <2> HIDE DEF l
  <2>3. Moves(w) /\ local'[w] = l
    BY <1>5, <2>1, PutIs DEF SafeInv, PackageTypeOK
  <2>4. Learns(w)
    BY <1>1, <2>2, <2>3 DEF Learns, Building, Discarding, At
  <2>5. Stored(local[w].key, local[w].to)'
    BY <1>5, <2>2, <2>3 DEF Stored, With
  <2>6. Sound(w)'
    BY <1>1, <2>2, <2>3, <2>4, <2>5, PutSound DEF At
  <2> QED BY <1>1, <1>3, <2>4, <2>6, ObjectsSafe
<1> QED BY <1>1, <1>4, <1>5

LEMMA CopyObjectSafe ==
    ASSUME VaultAssumption, ProfilesAssumption, SafeInv, NEW w \in Worker, CopyObject(w), UNCHANGED <<tasks, changed, late>>
    PROVE  SafeInv'
<1> DEFINE l == [local[w] EXCEPT !.pc = "bind", !.to = active]
<1>1. /\ At(w, "copy") /\ objects' \in {objects, With(local[w].key, active)} /\ (Fault \/ NoFault)
      /\ UNCHANGED <<row, latest, late, tasks, now, hold, closed, active, changed, crashes, nextKey, undone>>
      /\ (objects' = With(local[w].key, active) /\ local' = [local EXCEPT ![w] = l]) \/ Goto(w, "abandon")
      /\ stray' \subseteq stray \union {local[w].key}
  BY DEF CopyObject
<1>2. local[w].key \in Keys /\ local[w].key # row.r2 /\ local[w].pc \notin Discarding
  BY <1>1, OwnKey DEF At, SafeInv, Sound, NameSound, Keyed, Rotating, Copying, Current, Discarding
<1>3. /\ Touches(w, {}) /\ Spare(w, {}) /\ KeptInv' /\ undone' \subseteq Keys /\ stray' \subseteq Keys
      /\ DOMAIN objects' \subseteq Keys /\ \A j \in DOMAIN objects' : objects'[j] \in 1..MaxEpoch
  BY <1>1, <1>2, Written DEF SafeInv, PackageTypeOK, TypeOK
<1>4. CASE Goto(w, "abandon")
  <2>1. Learns(w) /\ local'[w].pc = "abandon" /\ local'[w].key = local[w].key
    <3>1. "abandon" \in Steps /\ "abandon" \notin Building
      BY DEF Steps, Building
    <3> QED BY <1>1, <1>2, <1>4, <3>1, GotoIs, GotoLearns DEF SafeInv, PackageTypeOK
  <2>2. Sound(w)'
    BY <1>1, <2>1, CopyingSound DEF Copying, At
  <2> QED BY <1>1, <1>3, <2>1, <2>2, ObjectsSafe
<1>5. CASE objects' = With(local[w].key, active) /\ local' = [local EXCEPT ![w] = l]
  <2>1. l \in Locals
    <3>1. "bind" \in Steps /\ local[w] \in Locals /\ active \in 0..MaxEpoch /\ now \in Nat
      BY LocalsOf DEF Steps, SafeInv, PackageTypeOK, TypeOK
    <3> QED BY <3>1, WritingShape
  <2>2. /\ l.pc = "bind" /\ l.t = local[w].t /\ l.key = local[w].key /\ l.seen = local[w].seen /\ l.to = active
        /\ l.pending = local[w].pending /\ l.previous = local[w].previous /\ l.doomed = local[w].doomed
    BY LocalsOf DEF Locals, SafeInv, PackageTypeOK
  <2> HIDE DEF l
  <2>3. Moves(w) /\ local'[w] = l
    BY <1>5, <2>1, PutIs DEF SafeInv, PackageTypeOK
  <2>4. Learns(w)
    BY <1>1, <2>2, <2>3 DEF Learns, Building, Discarding, At
  <2>5. Stored(local[w].key, local[w].to)'
    BY <1>5, <2>2, <2>3 DEF Stored, With
  <2>6. Sound(w)'
    BY <1>1, <2>2, <2>3, <2>4, <2>5, CopyingSound DEF Copying, At
  <2> QED BY <1>1, <1>3, <2>4, <2>6, ObjectsSafe
<1> QED BY <1>1, <1>4, <1>5

LEMMA UndoPutSafe ==
    ASSUME VaultAssumption, ProfilesAssumption, SafeInv, NEW w \in Worker, UndoPut(w), UNCHANGED <<tasks, changed, late>>
    PROVE  SafeInv'
<1>1. /\ At(w, "undo") /\ Done(w) /\ (Fault \/ NoFault)
      /\ UNCHANGED <<row, latest, late, tasks, now, hold, closed, active, changed, crashes, nextKey, stray>>
      /\ \/ objects' = Without({local[w].key}) /\ undone' = undone \union {local[w].key}
         \/ UNCHANGED <<objects, undone>>
  BY DEF UndoPut
<1>2. local[w].key \in Keys /\ undone \subseteq Keys /\ local[w].pc \notin Discarding
  BY <1>1, OwnKey DEF At, Keyed, Storing, Discarding, SafeInv, PackageTypeOK, TypeOK
<1>3. /\ objects' \in {objects, Without({local[w].key})} /\ undone \subseteq undone' /\ undone' \subseteq Keys
      /\ objects' # objects /\ row.r2 = local[w].key => row.r2 \in undone'
  BY <1>1, <1>2
<1>4. /\ Touches(w, {}) /\ KeptInv'
      /\ DOMAIN objects' \subseteq Keys /\ \A j \in DOMAIN objects' : objects'[j] \in 1..MaxEpoch
  BY <1>1, <1>2, <1>3, DeletedOwn
<1> QED BY <1>1, <1>3, <1>4, NothingSpared, DeletedThenDone

LEMMA AbandonCopySafe ==
    ASSUME VaultAssumption, ProfilesAssumption, SafeInv, NEW w \in Worker, AbandonCopy(w), UNCHANGED <<tasks, changed, late>>
    PROVE  SafeInv'
<1>1. /\ At(w, "abandon") /\ Goto(w, "release") /\ (Fault \/ NoFault)
      /\ UNCHANGED <<row, latest, late, tasks, now, hold, closed, active, changed, crashes, nextKey, stray, undone>>
      /\ objects' \in {objects, Without({local[w].key})}
  BY DEF AbandonCopy, Setting
<1>2. local[w].key \in Keys /\ local[w].key # row.r2 /\ local[w].pc \notin Discarding
  BY <1>1, OwnKey DEF At, SafeInv, Sound, NameSound, Keyed, Rotating, Copying, Current, Discarding
<1>3. /\ Touches(w, {}) /\ KeptInv' /\ undone' \subseteq Keys /\ stray' \subseteq Keys
      /\ DOMAIN objects' \subseteq Keys /\ \A j \in DOMAIN objects' : objects'[j] \in 1..MaxEpoch
  BY <1>1, <1>2, DeletedOwn DEF SafeInv, PackageTypeOK, TypeOK
<1>4. Learns(w) /\ local'[w].pc = "release" /\ local'[w].key = local[w].key
  <2>1. "release" \in Steps /\ "release" \notin Building
    BY DEF Steps, Building
  <2> QED BY <1>1, <1>2, <2>1, GotoIs, GotoLearns DEF SafeInv, PackageTypeOK
<1>5. Sound(w)'
  BY <1>1, <1>4, CopyingSound DEF Copying, At
<1> QED BY <1>1, <1>3, <1>4, <1>5, NothingSpared, ObjectsSafe

LEMMA DeleteLoserSafe ==
    ASSUME VaultAssumption, ProfilesAssumption, SafeInv, NEW w \in Worker, DeleteLoser(w), UNCHANGED <<tasks, changed, late>>
    PROVE  SafeInv'
<1>1. /\ At(w, "lose") /\ Done(w) /\ (Fault \/ NoFault)
      /\ UNCHANGED <<row, latest, late, tasks, now, hold, closed, active, changed, crashes, nextKey, stray, undone>>
      /\ objects' \in {objects, Without({local[w].key})}
  BY DEF DeleteLoser, Setting
<1>2. local[w].key # row.r2 /\ local[w].pc \notin Discarding
  BY <1>1 DEF At, SafeInv, Sound, NameSound, Referenced, Discarding
<1>3. /\ Touches(w, {}) /\ KeptInv' /\ undone' \subseteq Keys
      /\ DOMAIN objects' \subseteq Keys /\ \A j \in DOMAIN objects' : objects'[j] \in 1..MaxEpoch
  BY <1>1, <1>2, DeletedOwn DEF SafeInv, PackageTypeOK, TypeOK
<1> QED BY <1>1, <1>3, NothingSpared, DeletedThenDone

LEMMA DiscardCandidateSafe ==
    ASSUME VaultAssumption, ProfilesAssumption, SafeInv, NEW w \in Worker, DiscardCandidate(w), UNCHANGED tasks
    PROVE  SafeInv'
<1>1. /\ At(w, "discard") /\ Done(w) /\ (Fault \/ NoFault)
      /\ UNCHANGED <<row, latest, late, tasks, now, hold, closed, active, changed, crashes, nextKey, stray, undone>>
      /\ objects' \in {objects, Without({local[w].key})}
  BY DEF DiscardCandidate, Unrelated
<1>2. ~Alive /\ local[w].pc \notin Discarding \ {"discard"}
  BY <1>1 DEF At, SafeInv, Sound, WriteSound, Alive
<1>3. /\ Touches(w, {}) /\ KeptInv' /\ undone' \subseteq Keys
      /\ DOMAIN objects' \subseteq Keys /\ \A j \in DOMAIN objects' : objects'[j] \in 1..MaxEpoch
  BY <1>1, <1>2, DeletedOwn DEF SafeInv, PackageTypeOK, TypeOK
<1> QED BY <1>1, <1>3, NothingSpared, DeletedThenDone

LEMMA DropPreviousSafe ==
    ASSUME VaultAssumption, ProfilesAssumption, SafeInv, NEW w \in Worker, DropPrevious(w), UNCHANGED <<tasks, changed, late>>
    PROVE  SafeInv'
<1> DEFINE D == {local[w].seen}
<1>1. /\ At(w, "drop") /\ (Fault \/ NoFault) /\ (Goto(w, "clear") \/ Done(w))
      /\ UNCHANGED <<row, latest, late, tasks, now, hold, closed, active, changed, crashes, nextKey, stray, undone>>
      /\ objects' \in {objects, Without(D)}
  BY DEF DropPrevious, Setting
<1>2. /\ row.r2 # local[w].seen \/ row.r2 = None
      /\ local[w].pc \notin Discarding /\ local[w].key \in Keys
  BY <1>1, OwnKey DEF At, SafeInv, Sound, NameSound, Discarding, Keyed, Rotating, Switched
<1>3. Spare(w, D)
  <2>1. Named(local[w].seen)
    BY DEF Named
  <2>2. ASSUME NEW v \in Worker, local[v].pc \in {"bind", "switch"} PROVE local[v].key # local[w].seen
    BY <2>2 DEF SafeInv, Sound, NameSound, Copying, Current
  <2> QED BY <2>1, <2>2 DEF Spare
<1>4. row.r2 \in D => row.r2 = None
  BY <1>2
<1> HIDE DEF D
<1>5. /\ Touches(w, D) /\ KeptInv' /\ undone' \subseteq Keys /\ stray' \subseteq Keys
      /\ DOMAIN objects' \subseteq Keys /\ \A j \in DOMAIN objects' : objects'[j] \in 1..MaxEpoch
  BY <1>1, <1>2, <1>4, Deleted DEF SafeInv, PackageTypeOK, TypeOK
<1>6. CASE Done(w)
  BY <1>1, <1>3, <1>5, <1>6, DeletedThenDone
<1>7. CASE Goto(w, "clear")
  <2>1. Learns(w) /\ local'[w].pc = "clear" /\ local'[w].key = local[w].key /\ local'[w].t = local[w].t
    <3>1. "clear" \in Steps /\ "clear" \notin Building
      BY DEF Steps, Building
    <3> QED BY <1>1, <1>2, <1>7, <3>1, GotoIs, GotoLearns DEF SafeInv, PackageTypeOK
  <2>2. TaskSound(w)' /\ KeySound(w)' /\ BuildSound(w)'
    BY <1>2, <2>1 DEF TaskSound, KeySound, BuildSound, Storing, Building, Purging, Retiring, Keys, None
  <2>3. local'[w].t <= now'
    BY <1>1, <2>1 DEF SafeInv, Sound, WriteSound
  <2>4. Sound(w)'
    BY <2>1, <2>2, <2>3, PlainSound DEF Plain
  <2> QED BY <1>1, <1>3, <1>5, <2>1, <2>4, ObjectsSafe
<1> QED BY <1>1, <1>6, <1>7

\* A worker goes on to delete, or has deleted all.
LEMMA ForgetsKey ==
    ASSUME VaultAssumption, SafeInv, NEW w \in Worker, NEW d, d \in SUBSET local[w].doomed, UNCHANGED nextKey,
           local' = [local EXCEPT ![w] = [local[w] EXCEPT !.doomed = d]]
    PROVE  /\ Learns(w) /\ local'[w].pc = local[w].pc /\ local'[w].t = local[w].t /\ local'[w].key = local[w].key
           /\ local'[w].pending = local[w].pending /\ local'[w].previous = local[w].previous
           /\ local'[w].doomed \subseteq local[w].doomed
<1> DEFINE l == [local[w] EXCEPT !.doomed = d]
<1>1. local[w] \in Locals /\ d \in SUBSET Keys /\ "idle" \in Steps /\ 0 \in Nat
  BY LocalsOf DEF SafeInv, PackageTypeOK, Steps
<1>2. l \in Locals
  BY <1>1, DoomedShape
<1>3. /\ l.pc = local[w].pc /\ l.t = local[w].t /\ l.key = local[w].key /\ l.seen = local[w].seen /\ l.to = local[w].to
      /\ l.pending = local[w].pending /\ l.previous = local[w].previous /\ l.doomed = d
  BY <1>1 DEF Locals
<1>4. local' = [local EXCEPT ![w] = l]
  OBVIOUS
<1> HIDE DEF l
<1>5. Moves(w) /\ local'[w] = l
  BY <1>2, <1>4, PutIs DEF SafeInv, PackageTypeOK
<1> QED BY <1>3, <1>5 DEF Learns

LEMMA GotoKeeps ==
    ASSUME VaultAssumption, SafeInv, NEW w \in Worker, NEW place \in Steps \ Building, Goto(w, place), UNCHANGED nextKey,
           local[w].pc \notin Discarding
    PROVE  /\ Learns(w) /\ local'[w].pc = place /\ local'[w].t = local[w].t /\ local'[w].key = local[w].key
           /\ local'[w].pending = local[w].pending /\ local'[w].previous = local[w].previous
           /\ local'[w].doomed \subseteq local[w].doomed
<1>1. place \in Steps /\ place \notin Building
  OBVIOUS
<1> QED BY <1>1, GotoIs, GotoLearns DEF SafeInv, PackageTypeOK

\* What is said of a worker that deletes, or has done so.
Deleting == {"collect", "reconciled", "shred", "purged", "shredPackage", "retire", "unlock"}
LEMMA DeletingSound ==
    ASSUME VaultAssumption, SafeInv, NEW w \in Worker, local[w].pc \in Deleting,
           IF local[w].pc \in Cleaning THEN local'[w].pc \in {"collect", "reconciled"}
           ELSE IF local[w].pc \in Purging THEN local'[w].pc \in {"shred", "purged"}
           ELSE local'[w].pc \in {"shredPackage", "retire", "unlock"},
           UNCHANGED <<row, tasks, now>>, local'[w].t = local[w].t,
           local'[w].pending = local[w].pending, local'[w].previous = local[w].previous,
           local'[w].doomed \subseteq local[w].doomed
    PROVE  Sound(w)'
<1>1. Sound(w)
  BY DEF SafeInv
<1>2. TaskSound(w)' /\ PurgeSound(w)'
  BY <1>1 DEF Sound, TaskSound, PurgeSound, Deleting, Storing, Building, Purging, Retiring, Cleaning, LeaseFree
<1>3. CleanSound(w)'
  BY <1>1 DEF Sound, CleanSound, Deleting, Purging, Retiring, Cleaning, LeaseFree
<1>4. WriteSound(w)'
  BY <1>1 DEF Sound, WriteSound, Deleting, Purging, Retiring, Cleaning
<1>5. KeySound(w)' /\ BuildSound(w)' /\ NameSound(w)'
  BY DEF KeySound, BuildSound, NameSound, Building, Keyed, Storing, Rotating, Copying, Switched, Unsaid, Deleting,
         Purging, Cleaning
<1> QED BY <1>2, <1>3, <1>4, <1>5 DEF Sound

\* A doomed object may be deleted.
LEMMA DoomedSpare ==
    ASSUME SafeInv, NEW w \in Worker, NEW k \in local[w].doomed, local[w].pc \in {"collect", "shred", "shredPackage"}
    PROVE  /\ Spare(w, {k}) /\ k \in Keys
           /\ Alive /\ ("package" \in tasks => row.expires > now) => row.r2 # k
<1>1. Sound(w) /\ k \in Keys /\ k # None
  BY LocalsOf DEF SafeInv, PackageTypeOK, Keys, None
<1>2. Named(k)
  BY DEF Named
<1>3. now \in Nat /\ row.expires \in Nat /\ local[w].t \in Nat
  BY LocalsOf DEF SafeInv, PackageTypeOK, TypeOK, Rows
<1>4. CASE local[w].pc = "collect"
  <2>1. LeaseFree(k) /\ row.r2 # k
    BY <1>1, <1>4 DEF Sound, CleanSound
  <2> QED BY <1>1, <1>2, <2>1 DEF Spare, Mine, LeaseFree
<1>5. CASE local[w].pc = "shred"
  <2>1. ~Alive
    BY <1>1, <1>5 DEF Sound, TaskSound, PurgeSound, Purging, Alive
  <2> QED BY <1>1, <1>2, <2>1 DEF Spare
<1>6. CASE local[w].pc = "shredPackage"
  <2>1. LeaseFree(k) /\ row.expires <= local[w].t /\ "package" \in tasks /\ local[w].t <= now
    BY <1>1, <1>6 DEF Sound, TaskSound, PurgeSound, WriteSound, Retiring
  <2> QED BY <1>1, <1>2, <1>3, <2>1 DEF Spare, Mine, LeaseFree
<1> QED BY <1>4, <1>5, <1>6

LEMMA DeletingSafe ==
    ASSUME VaultAssumption, ProfilesAssumption, SafeInv, NEW w \in Worker, UNCHANGED <<tasks, changed, late>>,
           \/ Collect(w) \/ Shred(w) \/ ShredPackage(w)
    PROVE  SafeInv'
<1>1. /\ local[w].pc \in {"collect", "shred", "shredPackage"} /\ (Fault \/ NoFault)
      /\ UNCHANGED <<row, latest, late, tasks, now, hold, closed, active, changed, crashes, nextKey, stray, undone>>
      /\ \/ \E k \in local[w].doomed :
               /\ objects' = Without({k})
               /\ local' = [local EXCEPT ![w] = [local[w] EXCEPT !.doomed = local[w].doomed \ {k}]]
         \/ /\ UNCHANGED objects
            /\ \/ Done(w)
               \/ \E place \in Deleting :
                     /\ IF local[w].pc \in Cleaning THEN place \in {"collect", "reconciled"}
                        ELSE IF local[w].pc \in Purging THEN place \in {"shred", "purged"}
                        ELSE place \in {"shredPackage", "retire", "unlock"}
                     /\ Goto(w, place)
  BY DEF Collect, Shred, ShredPackage, DeleteNext, At, Setting, Deleting, Cleaning, Purging
<1>2. local[w].pc \in Deleting /\ local[w].pc \notin Discarding /\ undone \subseteq Keys /\ stray \subseteq Keys
  BY <1>1 DEF Deleting, Discarding, SafeInv, PackageTypeOK, TypeOK
<1>3. ASSUME NEW k \in local[w].doomed, objects' = Without({k}),
             local' = [local EXCEPT ![w] = [local[w] EXCEPT !.doomed = local[w].doomed \ {k}]]
      PROVE  SafeInv'
  <2>1. /\ Spare(w, {k})
        /\ Alive /\ ("package" \in tasks => row.expires > now) => row.r2 # k
    BY <1>1, DoomedSpare
  <2>2. PICK D : D = {k}
    OBVIOUS
  <2>3. objects' \in {objects, Without(D)} /\ Spare(w, D)
        /\ (Alive /\ ("package" \in tasks => row.expires > now) => row.r2 \notin D)
    BY <1>3, <2>1, <2>2
  <2>4. /\ Touches(w, D) /\ KeptInv'
        /\ DOMAIN objects' \subseteq Keys /\ \A j \in DOMAIN objects' : objects'[j] \in 1..MaxEpoch
    BY <1>1, <1>2, <2>3, Deleted
  <2>5. PICK d \in SUBSET local[w].doomed : d = local[w].doomed \ {k}
    OBVIOUS
  <2>6. local' = [local EXCEPT ![w] = [local[w] EXCEPT !.doomed = d]]
    BY <1>3, <2>5
  <2>7. /\ Learns(w) /\ local'[w].pc = local[w].pc /\ local'[w].t = local[w].t
        /\ local'[w].pending = local[w].pending /\ local'[w].previous = local[w].previous
        /\ local'[w].doomed \subseteq local[w].doomed
    BY <1>1, <2>6, ForgetsKey
  <2>8. IF local[w].pc \in Cleaning THEN local'[w].pc \in {"collect", "reconciled"}
        ELSE IF local[w].pc \in Purging THEN local'[w].pc \in {"shred", "purged"}
        ELSE local'[w].pc \in {"shredPackage", "retire", "unlock"}
    BY <1>1, <2>7 DEF Cleaning, Purging
  <2>9. Sound(w)'
    BY <1>1, <1>2, <2>7, <2>8, DeletingSound
  <2> QED BY <1>1, <1>2, <2>3, <2>4, <2>7, <2>9, ObjectsSafe
<1>4. ASSUME UNCHANGED objects PROVE KeptInv' /\ Touches(w, {}) /\ undone' \subseteq Keys /\ stray' \subseteq Keys
         /\ DOMAIN objects' \subseteq Keys /\ \A j \in DOMAIN objects' : objects'[j] \in 1..MaxEpoch
  BY <1>1, <1>4 DEF SafeInv, RowsSound, KeptInv, Alive, Stored, PackageTypeOK, TypeOK, Touches
<1>5. ASSUME UNCHANGED objects, Done(w) PROVE SafeInv'
  BY <1>1, <1>4, <1>5, NothingSpared, DeletedThenDone
<1>6. ASSUME UNCHANGED objects, NEW place \in Deleting, Goto(w, place),
             IF local[w].pc \in Cleaning THEN place \in {"collect", "reconciled"}
             ELSE IF local[w].pc \in Purging THEN place \in {"shred", "purged"}
             ELSE place \in {"shredPackage", "retire", "unlock"}
      PROVE  SafeInv'
  <2>1. place \in Steps \ Building
    BY DEF Steps, Building, Deleting
  <2>2. /\ Learns(w) /\ local'[w].pc = place /\ local'[w].t = local[w].t
        /\ local'[w].pending = local[w].pending /\ local'[w].previous = local[w].previous
        /\ local'[w].doomed \subseteq local[w].doomed
    BY <1>1, <1>2, <1>6, <2>1, GotoKeeps
  <2>3. Sound(w)'
    BY <1>1, <1>2, <1>6, <2>2, DeletingSound
  <2> QED BY <1>1, <1>4, <1>6, <2>2, <2>3, NothingSpared, ObjectsSafe
<1> QED BY <1>1, <1>3, <1>5, <1>6

-----------------------------------------------------------------------------
(* The steps that write the row.                                           *)

\* A step that writes the row is safe if the row names nothing it should not.
LEMMA RowIsSafe ==
    ASSUME VaultAssumption, ProfilesAssumption, SafeInv, NEW w \in Worker, NEW k \in {local[w].key, None},
           UNCHANGED <<objects, undone, stray, tasks, now, hold, closed, active, changed, crashes, nextKey>>,
           row' \in Rows, latest' \in 0..MaxTime, late' \in Lates, Fault \/ NoFault,
           Learns(w), Tame(k), k # None => ~Current(k) /\ (Named(k) => ~LeaseFree(k)), Steady(w),
           RowInv', CondemnedInv', KeptInv', Sound(w)', late' = late \/ LateInv'
    PROVE  SafeInv'
<1>1. faults' \in 0..MaxFaults
  BY Bounds DEF SafeInv, PackageTypeOK, TypeOK, Fault, NoFault
<1>2. PackageTypeOK'
  BY <1>1 DEF SafeInv, PackageTypeOK, TypeOK, Learns, Moves
<1>3. Touches(w, {})
  BY DEF Touches
<1>4. Effect(w, k, {})
  BY <1>2, <1>3, NothingSpared DEF Effect
<1> QED BY <1>4, StepIsSafe

\* The fields of the row.
LEMMA FieldsOf ==
    ASSUME SafeInv
    PROVE  /\ row \in Rows /\ row.status \in Statuses /\ row.expires \in Nat /\ row.r2 \in MaybeKey
           /\ row.epoch \in 0..MaxEpoch /\ row.pending \in MaybeKey /\ row.previous \in MaybeKey
           /\ row.lease \in Lease /\ row.until \in Nat
           /\ latest \in 0..MaxTime /\ now \in 0..MaxTime /\ late \in Lates /\ Free \in Lease /\ None \in MaybeKey
BY DEF SafeInv, PackageTypeOK, TypeOK, Rows, Lease, MaybeKey

\* Rows of the shapes that the actions make.
LEMMA StatusShape ==
    ASSUME NEW r \in Rows, NEW s \in Statuses, NEW x \in Nat, NEW k \in MaybeKey, NEW e \in 0..MaxEpoch
    PROVE  /\ [r EXCEPT !.status = s] \in Rows /\ [r EXCEPT !.expires = x] \in Rows
           /\ [r EXCEPT !.status = s, !.expires = x, !.r2 = k, !.epoch = e] \in Rows
           /\ [r EXCEPT !.status = s, !.r2 = k, !.epoch = e, !.expires = x] \in Rows
BY DEF Rows

LEMMA LeaseShape ==
    ASSUME NEW r \in Rows, NEW l \in Lease, NEW u \in Nat, NEW p \in MaybeKey, NEW q \in MaybeKey
    PROVE  /\ [r EXCEPT !.lease = l, !.until = u] \in Rows
           /\ [r EXCEPT !.lease = l, !.until = u, !.pending = p] \in Rows
           /\ [r EXCEPT !.pending = p, !.previous = q, !.lease = l, !.until = u] \in Rows
           /\ [r EXCEPT !.previous = q] \in Rows
BY DEF Rows

LEMMA ObjectShape ==
    ASSUME NEW r \in Rows, NEW s \in Statuses, NEW l \in Lease, NEW u \in Nat, NEW k \in MaybeKey, NEW p \in MaybeKey, NEW q \in MaybeKey,
           NEW e \in 0..MaxEpoch
    PROVE  /\ [r EXCEPT !.r2 = k, !.epoch = e, !.previous = q, !.pending = p, !.lease = l, !.until = u] \in Rows
           /\ [r EXCEPT !.status = s, !.r2 = k, !.pending = p, !.previous = q, !.lease = l, !.until = u] \in Rows
BY DEF Rows

\* The row is written, no new key in it, and the work ends.
LEMMA RowThenDone ==
    ASSUME VaultAssumption, ProfilesAssumption, SafeInv, NEW w \in Worker, Done(w),
           UNCHANGED <<objects, undone, stray, tasks, now, hold, closed, active, changed, crashes, nextKey, late>>,
           row' \in Rows, latest' \in 0..MaxTime, Fault \/ NoFault, Tame(None), Steady(w),
           RowInv', CondemnedInv', KeptInv'
    PROVE  SafeInv'
<1>1. Learns(w) /\ Sound(w)' /\ late' \in Lates
  BY DoneIsSafe, FieldsOf
<1> QED BY <1>1, RowIsSafe

\* References are dropped from the row, or its lease.
LEMMA RowForgets ==
    ASSUME VaultAssumption, ProfilesAssumption, SafeInv, NEW w \in Worker, Done(w),
           UNCHANGED <<objects, undone, stray, tasks, now, hold, closed, active, changed, crashes, nextKey, late, latest>>,
           row' \in Rows, Fault \/ NoFault,
           row'.status = row.status, row'.expires = row.expires, row'.r2 = row.r2, row'.epoch = row.epoch,
           row'.pending \in {row.pending, None}, row'.previous \in {row.previous, None},
           row'.lease \in {row.lease, Free} \/ (row'.lease = <<w, None>> /\ row.status = "live")
    PROVE  SafeInv'
<1>1. Tame(None)
  <2>1. \A v \in Worker, j \in Keys : row'.lease = <<v, j>> => row.lease = <<v, j>>
    BY DEF Free, Keys, None
  <2> QED BY <2>1 DEF Tame
<1>2. Steady(w)
  BY DEF Steady, Alive
<1>3. RowInv'
  BY DEF SafeInv, RowsSound, RowInv
<1>4. CondemnedInv' /\ KeptInv'
  BY DEF SafeInv, RowsSound, CondemnedInv, KeptInv, Alive, Stored
<1> QED BY <1>1, <1>2, <1>3, <1>4, FieldsOf, RowThenDone

LEMMA ReleaseClaimSafe ==
    ASSUME VaultAssumption, ProfilesAssumption, SafeInv, NEW w \in Worker, ReleaseClaim(w), UNCHANGED <<tasks, changed, late>>
    PROVE  SafeInv'
<1>1. /\ Done(w) /\ (Fault \/ NoFault)
      /\ UNCHANGED <<objects, undone, stray, tasks, now, hold, closed, active, changed, crashes, nextKey, late, latest>>
      /\ row' \in {row, [row EXCEPT !.lease = Free, !.until = 0, !.pending = None]}
  BY DEF ReleaseClaim, Setting
<1>2. /\ row' \in Rows /\ row'.status = row.status /\ row'.expires = row.expires /\ row'.r2 = row.r2
      /\ row'.epoch = row.epoch /\ row'.pending \in {row.pending, None} /\ row'.previous = row.previous
      /\ row'.lease \in {row.lease, Free}
  <2>1. [row EXCEPT !.lease = Free, !.until = 0, !.pending = None] \in Rows
    BY FieldsOf, LeaseShape
  <2> QED BY <1>1, <2>1, FieldsOf DEF Rows
<1> QED BY <1>1, <1>2, RowForgets

LEMMA ClearPreviousSafe ==
    ASSUME VaultAssumption, ProfilesAssumption, SafeInv, NEW w \in Worker, ClearPrevious(w), UNCHANGED <<tasks, changed, late>>
    PROVE  SafeInv'
<1>1. /\ Done(w) /\ (Fault \/ NoFault)
      /\ UNCHANGED <<objects, undone, stray, tasks, now, hold, closed, active, changed, crashes, nextKey, late, latest>>
      /\ row' \in {row, [row EXCEPT !.previous = None]}
  BY DEF ClearPrevious, Setting
<1>2. /\ row' \in Rows /\ row'.status = row.status /\ row'.expires = row.expires /\ row'.r2 = row.r2
      /\ row'.epoch = row.epoch /\ row'.pending = row.pending /\ row'.previous \in {row.previous, None}
      /\ row'.lease = row.lease
  <2>1. [row EXCEPT !.previous = None] \in Rows
    BY FieldsOf, LeaseShape
  <2> QED BY <1>1, <2>1, FieldsOf DEF Rows
<1> QED BY <1>1, <1>2, RowForgets

LEMMA ReconcileSafe ==
    ASSUME VaultAssumption, ProfilesAssumption, SafeInv, NEW w \in Worker, Reconcile(w), UNCHANGED <<tasks, changed, late>>
    PROVE  SafeInv'
<1>1. /\ Done(w) /\ (Fault \/ NoFault)
      /\ UNCHANGED <<objects, undone, stray, tasks, now, hold, closed, active, changed, crashes, nextKey, late, latest>>
      /\ row' \in {row, [row EXCEPT !.pending = None, !.previous = None, !.lease = Free, !.until = 0]}
  BY DEF Reconcile, Setting
<1>2. /\ row' \in Rows /\ row'.status = row.status /\ row'.expires = row.expires /\ row'.r2 = row.r2
      /\ row'.epoch = row.epoch /\ row'.pending \in {row.pending, None} /\ row'.previous \in {row.previous, None}
      /\ row'.lease \in {row.lease, Free}
  <2>1. [row EXCEPT !.pending = None, !.previous = None, !.lease = Free, !.until = 0] \in Rows
    BY FieldsOf, LeaseShape
  <2> QED BY <1>1, <2>1, FieldsOf DEF Rows
<1> QED BY <1>1, <1>2, RowForgets

LEMMA UnlockPackageSafe ==
    ASSUME VaultAssumption, ProfilesAssumption, SafeInv, NEW w \in Worker, UnlockPackage(w), UNCHANGED tasks
    PROVE  SafeInv'
<1>1. /\ Done(w) /\ (Fault \/ NoFault)
      /\ UNCHANGED <<objects, undone, stray, tasks, now, hold, closed, active, changed, crashes, nextKey, late, latest>>
      /\ row' \in {row, [row EXCEPT !.lease = Free, !.until = 0]}
  BY DEF UnlockPackage, Setting
<1>2. /\ row' \in Rows /\ row'.status = row.status /\ row'.expires = row.expires /\ row'.r2 = row.r2
      /\ row'.epoch = row.epoch /\ row'.pending = row.pending /\ row'.previous = row.previous
      /\ row'.lease \in {row.lease, Free}
  <2>1. [row EXCEPT !.lease = Free, !.until = 0] \in Rows
    BY FieldsOf, LeaseShape
  <2> QED BY <1>1, <2>1, FieldsOf DEF Rows
<1> QED BY <1>1, <1>2, RowForgets

LEMMA RenewEvidenceSafe ==
    ASSUME VaultAssumption, ProfilesAssumption, SafeInv, NEW w \in Worker, RenewEvidence(w), UNCHANGED <<tasks, changed, late>>
    PROVE  SafeInv'
<1>1. /\ At(w, "renew") /\ Done(w) /\ (Fault \/ NoFault)
      /\ UNCHANGED <<objects, undone, stray, tasks, now, hold, closed, active, changed, crashes, nextKey, late>>
      /\ \/ Live /\ row' = [row EXCEPT !.expires = local[w].t + Validity] /\ latest' \in {latest, local[w].t}
         \/ UNCHANGED <<row, latest>>
  BY DEF RenewEvidence
<1>2. "renew" \in tasks /\ "package" \notin tasks
  BY <1>1 DEF SafeInv, Sound, TaskSound, At
<1>3. local[w].t + Validity \in Nat /\ latest' \in 0..MaxTime
  BY <1>1, Bounds, LocalsOf, FieldsOf DEF SafeInv, Sound, WriteSound, PackageTypeOK
<1>4. /\ row' \in Rows /\ row'.status = row.status /\ row'.r2 = row.r2 /\ row'.epoch = row.epoch
      /\ row'.pending = row.pending /\ row'.previous = row.previous /\ row'.lease = row.lease
      /\ row.status # "live" => row'.expires = row.expires
  <2>1. [row EXCEPT !.expires = local[w].t + Validity] \in Rows
    BY <1>3, FieldsOf, StatusShape
  <2> QED BY <1>1, <2>1, FieldsOf DEF Rows, Live
<1>5. Tame(None) /\ Steady(w)
  BY <1>1, <1>2, <1>4 DEF Tame, Steady, Alive
<1>6. RowInv' /\ CondemnedInv' /\ KeptInv'
  BY <1>1, <1>2, <1>4 DEF SafeInv, RowsSound, RowInv, CondemnedInv, KeptInv, Alive, Stored
<1> QED BY <1>1, <1>3, <1>4, <1>5, <1>6, RowThenDone

\* The status of evidence changes, which neither takes an object away nor
\* brings one back.
LEMMA StatusThenDone ==
    ASSUME VaultAssumption, ProfilesAssumption, SafeInv, NEW w \in Worker, Done(w), "package" \notin tasks, "purge" \notin tasks,
           UNCHANGED <<objects, undone, stray, tasks, now, hold, closed, active, changed, crashes, nextKey, late, latest, faults>>,
           row' = row \/ \E s \in {"live", "expired"} : row' = [row EXCEPT !.status = s],
           row' # row => row.status \in {"live", "expired"}
    PROVE  SafeInv'
<1>1. /\ row' \in Rows /\ row'.r2 = row.r2 /\ row'.epoch = row.epoch /\ row'.expires = row.expires
      /\ row'.pending = row.pending /\ row'.previous = row.previous /\ row'.lease = row.lease
      /\ row'.status \in {row.status, "live", "expired"}
  <2>1. ASSUME NEW s \in {"live", "expired"}, row' = [row EXCEPT !.status = s]
        PROVE  /\ row' \in Rows /\ row'.r2 = row.r2 /\ row'.epoch = row.epoch /\ row'.expires = row.expires
               /\ row'.pending = row.pending /\ row'.previous = row.previous /\ row'.lease = row.lease
               /\ row'.status = s
    <3>1. s \in Statuses /\ 0 \in Nat /\ None \in MaybeKey /\ 0 \in 0..MaxEpoch
      BY Bounds, FieldsOf DEF Statuses
    <3>2. row' \in Rows
      BY <2>1, <3>1, FieldsOf, StatusShape
    <3> QED BY <2>1, <3>2, FieldsOf DEF Rows
  <2> QED BY <2>1, FieldsOf
<1>2. row'.status # row.status => row.status \in {"live", "expired"} /\ row'.status \in {"live", "expired"}
  BY <1>1
<1>3. Alive' <=> Alive
  BY <1>1, <1>2 DEF Alive
<1>4. Tame(None) /\ Steady(w)
  <2>1. Tame(None)
    BY <1>1 DEF Tame
  <2>2. row.status \in {"absent", "building", "failed", "purged"} => row'.status = row.status
    BY <1>2
  <2>3. local[w].pc \in Discarding => "package" \in tasks
    BY DEF SafeInv, Sound, TaskSound, Building, Discarding
  <2>4. Steady(w)
    BY <1>1, <1>2, <1>3, <2>2, <2>3 DEF Steady
  <2> QED BY <2>1, <2>4
<1>5. RowInv' /\ CondemnedInv' /\ KeptInv'
  BY <1>1, <1>2, <1>3 DEF SafeInv, RowsSound, RowInv, CondemnedInv, KeptInv, Stored
<1> QED BY <1>1, <1>4, <1>5, FieldsOf, RowThenDone DEF NoFault

LEMMA MarkStaleSafe ==
    ASSUME VaultAssumption, ProfilesAssumption, SafeInv, NEW w \in Worker, MarkStale(w), UNCHANGED <<tasks, changed, late>>
    PROVE  SafeInv'
<1>1. "package" \notin tasks /\ "purge" \notin tasks
  BY ProfilesAssumption DEF MarkStale, At, SafeInv, Sound, TaskSound, PackageTypeOK, TypeOK
<1>2. /\ row' = row \/ (Live /\ row' = [row EXCEPT !.status = "expired"])
      /\ Done(w)
      /\ UNCHANGED <<objects, undone, stray, tasks, now, hold, closed, active, changed, crashes, nextKey, late, latest, faults>>
  BY DEF MarkStale, Setting
<1> QED BY <1>1, <1>2, StatusThenDone DEF Live

LEMMA ReviewSafe ==
    ASSUME VaultAssumption, ProfilesAssumption, SafeInv, NEW w \in Worker, Review(w), UNCHANGED <<tasks, changed, late>>
    PROVE  SafeInv'
<1>1. "package" \notin tasks /\ "purge" \notin tasks /\ row.status \in {"live", "expired", "purged"}
  BY ProfilesAssumption DEF Review, At, SafeInv, Sound, TaskSound, WriteSound, PackageTypeOK, TypeOK
<1>2. /\ row' = row \/ (row.status # "purged" /\ row' = [row EXCEPT !.status = "live"])
      /\ UNCHANGED <<objects, undone, stray, tasks, now, hold, closed, active, changed, crashes, nextKey, late, latest, faults>>
      /\ Done(w)
  BY DEF Review, Setting
<1> QED BY <1>1, <1>2, StatusThenDone

LEMMA InsertEvidenceSafe ==
    ASSUME VaultAssumption, ProfilesAssumption, SafeInv, NEW w \in Worker, InsertEvidence(w),
           "package" \notin tasks, UNCHANGED <<tasks, changed, late>>
    PROVE  SafeInv'
<1> DEFINE r == [row EXCEPT !.status = "live", !.expires = local[w].t + Validity, !.r2 = local[w].key, !.epoch = local[w].to]
<1>1. /\ At(w, "insert") /\ (Fault \/ NoFault) /\ (Done(w) \/ Goto(w, "undo"))
      /\ UNCHANGED <<objects, undone, stray, tasks, now, hold, closed, active, changed, crashes, nextKey, late>>
      /\ \/ row.status = "absent" /\ row' = r /\ latest' = local[w].t
         \/ UNCHANGED <<row, latest>> /\ Goto(w, "undo")
  BY DEF InsertEvidence, InsertRow
<1>2. /\ local[w].key \in Keys /\ local[w].key # None /\ ~Named(local[w].key) /\ ~Current(local[w].key)
      /\ Stored(local[w].key, local[w].to) /\ local[w].t <= now
  BY <1>1, OwnKey DEF At, Keyed, Storing, Unsaid, SafeInv, Sound, NameSound, WriteSound, Named, Current, Referenced
<1>3. local[w].t \in 0..MaxTime /\ local[w].t + Validity \in Nat /\ local[w].to \in 0..MaxEpoch /\ local[w].key \in MaybeKey
  BY <1>2, Bounds, LocalsOf, FieldsOf DEF SafeInv, PackageTypeOK
<1>4. /\ Learns(w) /\ Sound(w)'
      /\ late' \in Lates
  <2>1. CASE Done(w)
    BY <1>1, <2>1, DoneIsSafe, FieldsOf
  <2>2. CASE Goto(w, "undo")
    <3>1. "undo" \in Steps \ Building /\ local[w].pc \notin Discarding
      BY <1>1 DEF Steps, Building, Discarding, At
    <3>2. Learns(w) /\ local'[w].pc = "undo" /\ local'[w].key = local[w].key /\ local'[w].t = local[w].t
      BY <1>1, <2>2, <3>1, GotoKeeps
    <3>3. TaskSound(w)' /\ KeySound(w)' /\ BuildSound(w)'
      BY <1>1, <1>2, <3>2 DEF TaskSound, KeySound, BuildSound, Building, Purging, Retiring
    <3>4. local'[w].t <= now'
      BY <1>1, <1>2, <3>2
    <3> QED BY <3>2, <3>3, <3>4, PlainSound, FieldsOf DEF Plain
  <2> QED BY <1>1, <2>1, <2>2
<1>5. ASSUME row.status = "absent", row' = r, latest' = local[w].t PROVE SafeInv'
  <2>1. r \in Rows
    BY <1>3, FieldsOf, StatusShape DEF Statuses
  <2>2. /\ row' \in Rows /\ row'.status = "live" /\ row'.r2 = local[w].key /\ row'.epoch = local[w].to
        /\ row'.pending = row.pending /\ row'.previous = row.previous /\ row'.lease = row.lease
    BY <1>5, <2>1, FieldsOf DEF Rows
  <2>3. row.r2 = None /\ row.pending = None /\ row.previous = None /\ row.lease = Free
    BY <1>5 DEF SafeInv, RowsSound, RowInv
  <2>4. Tame(local[w].key) /\ Steady(w)
    <3>1. Tame(local[w].key)
      BY <1>1, <2>2, <2>3 DEF Tame
    <3>2. local[w].pc \notin Discarding
      BY <1>1 DEF At, Discarding
    <3>3. Steady(w)
      BY <1>1, <1>5, <2>2, <2>3, <3>2 DEF Steady
    <3> QED BY <3>1, <3>3
  <2>5. RowInv' /\ CondemnedInv' /\ KeptInv'
    BY <1>1, <1>2, <2>2 DEF RowInv, CondemnedInv, KeptInv, Stored
  <2> QED BY <1>1, <1>2, <1>3, <1>4, <1>5, <2>2, <2>4, <2>5, RowIsSafe
<1>6. ASSUME UNCHANGED <<row, latest>> PROVE SafeInv'
  <2>1. Reads
    BY <1>1, <1>6 DEF Reads, Calm
  <2> QED BY <1>4, <2>1, ReadIsSafe
<1> QED BY <1>1, <1>5, <1>6

LEMMA ClaimRotationSafe ==
    ASSUME VaultAssumption, ProfilesAssumption, SafeInv, NEW w \in Worker, ClaimRotation(w), UNCHANGED <<tasks, changed, late>>
    PROVE  SafeInv'
<1> DEFINE r == [row EXCEPT !.lease = <<w, local[w].key>>, !.until = now + LeaseTime, !.pending = local[w].key]
<1>1. /\ At(w, "claim") /\ (Fault \/ NoFault)
      /\ UNCHANGED <<objects, undone, stray, tasks, now, hold, closed, active, changed, crashes, nextKey, late, latest>>
      /\ \/ Rotatable(now) /\ row' = r /\ (Goto(w, "read") \/ Done(w))
         \/ UNCHANGED row /\ Done(w)
  BY DEF ClaimRotation, Setting
<1>2. /\ local[w].key \in Keys /\ local[w].key # None /\ ~Named(local[w].key) /\ ~Current(local[w].key)
      /\ local[w].t <= now
  BY <1>1, OwnKey DEF At, Keyed, Rotating, Unsaid, SafeInv, Sound, NameSound, WriteSound, Named, Current, Referenced
<1>3. local[w].pc \notin Discarding /\ "read" \in Steps \ Building
  BY <1>1 DEF Steps, Building, Discarding, At
<1>4. ASSUME Rotatable(now), row' = r, Goto(w, "read") \/ Done(w) PROVE SafeInv'
  <2>1. r \in Rows
    <3>1. <<w, local[w].key>> \in Lease /\ local[w].key \in MaybeKey /\ now + LeaseTime \in Nat
      BY <1>2, Bounds, FieldsOf DEF Lease, MaybeKey
    <3> QED BY <3>1, FieldsOf, LeaseShape
  <2>2. /\ row' \in Rows /\ row'.status = row.status /\ row'.expires = row.expires /\ row'.r2 = row.r2 /\ row'.epoch = row.epoch
        /\ row'.pending = local[w].key /\ row'.previous = row.previous /\ row'.lease = <<w, local[w].key>>
    BY <1>4, <2>1, FieldsOf DEF Rows
  <2>3. row.status = "live" /\ row.expires > now
    BY <1>4 DEF Rotatable, Live
  <2>4. Tame(local[w].key)
    BY <1>1, <1>2, <2>2, <2>3 DEF Tame
  <2>5. Steady(w)
    BY <1>1, <2>2, <2>3 DEF Steady, Alive
  <2>6. RowInv' /\ CondemnedInv' /\ KeptInv'
    BY <1>1, <2>2, <2>3 DEF SafeInv, RowsSound, RowInv, CondemnedInv, KeptInv, Stored, Alive
  <2>7. CASE Done(w)
    <3>1. Learns(w) /\ Sound(w)' /\ late' \in Lates
      BY <1>1, <2>7, DoneIsSafe, FieldsOf
    <3> QED BY <1>1, <1>2, <2>2, <2>4, <2>5, <2>6, <3>1, RowIsSafe, FieldsOf
  <2>8. CASE Goto(w, "read")
    <3>1. Learns(w) /\ local'[w].pc = "read" /\ local'[w].key = local[w].key /\ local'[w].t = local[w].t
      BY <1>1, <1>3, <2>8, GotoKeeps
    <3>2. PICK j \in Keys : j = local[w].key
      BY <1>2
    <3>3. \A v \in Worker : local'[v].seen = local[v].seen /\ local'[v].previous = local[v].previous
      BY <1>3, <2>8, GotoIs DEF SafeInv, PackageTypeOK, Moves
    <3>4. ~Current(j)'
      BY <1>1, <1>2, <2>2, <3>2, <3>3 DEF Current
    <3>5. NameSound(w)' /\ KeySound(w)'
      BY <1>2, <3>1, <3>2, <3>4 DEF NameSound, KeySound, Unsaid
    <3>6. WriteSound(w)'
      BY <1>1, <1>2, <3>1 DEF WriteSound
    <3>7. TaskSound(w)' /\ BuildSound(w)' /\ CleanSound(w)' /\ PurgeSound(w)'
      BY <3>1 DEF TaskSound, BuildSound, CleanSound, PurgeSound, Storing, Building, Purging, Retiring, Cleaning
    <3>8. Sound(w)' /\ late' \in Lates
      BY <1>1, <3>5, <3>6, <3>7, FieldsOf DEF Sound
    <3> QED BY <1>1, <1>2, <2>2, <2>4, <2>5, <2>6, <3>1, <3>8, RowIsSafe, FieldsOf
  <2> QED BY <1>4, <2>7, <2>8
<1>5. ASSUME UNCHANGED row, Done(w) PROVE SafeInv'
  BY <1>1, <1>5, ReadThenDone DEF Reads, Calm
<1> QED BY <1>1, <1>4, <1>5

LEMMA SwitchObjectSafe ==
    ASSUME VaultAssumption, ProfilesAssumption, SafeInv, NEW w \in Worker, SwitchObject(w), UNCHANGED <<tasks, changed, late>>
    PROVE  SafeInv'
<1> DEFINE r == [row EXCEPT !.r2 = local[w].key, !.epoch = local[w].to, !.previous = local[w].seen,
                            !.pending = None, !.lease = Free, !.until = 0]
<1>1. /\ At(w, "switch") /\ (Fault \/ NoFault)
      /\ UNCHANGED <<objects, undone, stray, tasks, now, hold, closed, active, changed, crashes, nextKey, late, latest>>
      /\ \/ SwitchHits(w) /\ row' = r /\ (Goto(w, "drop") \/ Goto(w, "classify"))
         \/ UNCHANGED row /\ Goto(w, "classify")
  BY DEF SwitchObject, SwitchRow, Setting
<1>2. /\ local[w].key \in Keys /\ local[w].key # None /\ ~Current(local[w].key) /\ local[w].t <= now
      /\ local[w].seen # local[w].key
      /\ Mine(w) /\ Alive => Stored(local[w].key, local[w].to)
  BY <1>1, OwnKey DEF At, Keyed, Rotating, Copying, SafeInv, Sound, NameSound, WriteSound, Current
<1>3. /\ Learns(w) /\ local'[w].pc \in {"drop", "classify"} /\ local'[w].key = local[w].key /\ local'[w].t = local[w].t
      /\ local'[w].seen = local[w].seen
  <2>1. local[w].pc \notin Discarding /\ "drop" \in Steps \ Building /\ "classify" \in Steps \ Building
    BY <1>1 DEF Steps, Building, Discarding, At
  <2> QED BY <1>1, <2>1, GotoKeeps, GotoIs DEF SafeInv, PackageTypeOK
<1>4. WriteSound(w)'
  BY <1>1, <1>2, <1>3 DEF WriteSound
<1>5. TaskSound(w)' /\ BuildSound(w)' /\ CleanSound(w)' /\ PurgeSound(w)' /\ KeySound(w)' /\ late' \in Lates
  BY <1>1, <1>2, <1>3, FieldsOf DEF TaskSound, BuildSound, CleanSound, PurgeSound, KeySound, Storing, Building, Purging, Retiring, Cleaning
<1>6. ASSUME SwitchHits(w), row' = r PROVE SafeInv'
  <2>1. r \in Rows
    BY LocalsOf, FieldsOf, ObjectShape DEF SafeInv, PackageTypeOK
  <2>2. /\ row' \in Rows /\ row'.status = row.status /\ row'.expires = row.expires /\ row'.r2 = local[w].key
        /\ row'.epoch = local[w].to /\ row'.pending = None /\ row'.previous = local[w].seen /\ row'.lease = Free
    BY <1>6, <2>1, FieldsOf DEF Rows
  <2>3. row.status = "live" /\ row.r2 = local[w].seen /\ Mine(w) /\ Alive
    BY <1>6 DEF SwitchHits, Live, SameObject, Alive
  <2>4. ~LeaseFree(local[w].key)
    BY <2>3 DEF Mine, LeaseFree
  <2>5. Tame(local[w].key)
    BY <1>1, <2>2, <2>3 DEF Tame, Free
  <2>6. Steady(w)
    BY <1>1, <2>2, <2>3 DEF Steady
  <2>7. RowInv' /\ CondemnedInv' /\ KeptInv'
    BY <1>1, <1>2, <2>2, <2>3 DEF SafeInv, RowsSound, RowInv, CondemnedInv, KeptInv, Stored
  <2>8. NameSound(w)'
    BY <1>2, <1>3, <2>2 DEF NameSound, Unsaid, Copying
  <2>9. Sound(w)'
    BY <1>4, <1>5, <2>8 DEF Sound
  <2> QED BY <1>1, <1>2, <1>3, <1>5, <2>2, <2>4, <2>5, <2>6, <2>7, <2>9, RowIsSafe, FieldsOf
<1>7. ASSUME UNCHANGED row, Goto(w, "classify") PROVE SafeInv'
  <2>1. local'[w].pc = "classify"
    BY <1>7, GotoIs DEF SafeInv, PackageTypeOK, Steps
  <2>2. NameSound(w)'
    BY <1>2, <1>3, <2>1 DEF NameSound, Unsaid, Copying
  <2>3. Sound(w)'
    BY <1>4, <1>5, <2>2 DEF Sound
  <2>4. Reads
    BY <1>1, <1>7 DEF Reads, Calm
  <2> QED BY <1>3, <2>3, <2>4, ReadIsSafe
<1> QED BY <1>1, <1>6, <1>7

LEMMA ReclaimSafe ==
    ASSUME VaultAssumption, ProfilesAssumption, SafeInv, NEW w \in Worker, Reclaim(w), UNCHANGED <<tasks, changed, late>>
    PROVE  SafeInv'
<1> DEFINE d == {local[w].pending, local[w].previous} \ {None, local[w].seen}
           r == [row EXCEPT !.lease = <<w, None>>, !.until = local[w].t + LeaseTime]
           l == [local[w] EXCEPT !.pc = "collect", !.doomed = d]
<1>1. /\ At(w, "reclaim") /\ (Fault \/ NoFault)
      /\ UNCHANGED <<objects, undone, stray, tasks, now, hold, closed, active, changed, crashes, nextKey, late, latest>>
      /\ \/ SameReferences(w) /\ row' = r /\ (local' = [local EXCEPT ![w] = l] \/ Done(w))
         \/ UNCHANGED row /\ Done(w)
  BY DEF Reclaim, Setting
<1>2. /\ local[w].pending # None \/ local[w].previous # None
      /\ local[w].t <= now
  BY <1>1 DEF SafeInv, Sound, CleanSound, WriteSound, Cleaning, At
<1>3. d \in SUBSET Keys /\ local[w] \in Locals
  BY LocalsOf DEF SafeInv, PackageTypeOK, MaybeKey
<1>4. row' = r => /\ row' \in Rows /\ row'.status = row.status /\ row'.expires = row.expires /\ row'.r2 = row.r2
                  /\ row'.epoch = row.epoch /\ row'.pending = row.pending /\ row'.previous = row.previous
                  /\ row'.lease = <<w, None>>
  <2>1. r \in Rows
    <3>1. <<w, None>> \in Lease /\ local[w].t + LeaseTime \in Nat
      BY Bounds, LocalsOf DEF Lease, SafeInv, PackageTypeOK
    <3> QED BY <3>1, FieldsOf, LeaseShape
  <2> QED BY <2>1, FieldsOf DEF Rows
<1>5. SameReferences(w) => row.status \in {"live", "expired"}
  BY <1>2, FieldsOf DEF SafeInv, RowsSound, RowInv, SameReferences
<1>6. row' = r /\ SameReferences(w) =>
          /\ Tame(None) /\ Steady(w) /\ RowInv' /\ CondemnedInv' /\ KeptInv'
  <2> SUFFICES ASSUME row' = r, SameReferences(w) PROVE Tame(None) /\ Steady(w) /\ RowInv' /\ CondemnedInv' /\ KeptInv'
    OBVIOUS
  <2>1. \A v \in Worker, j \in Keys : row'.lease # <<v, j>>
    BY <1>4 DEF Keys, None
  <2>2. Tame(None)
    BY <1>1, <1>4, <2>1 DEF Tame
  <2>3. Steady(w)
    BY <1>1, <1>4 DEF Steady, Alive
  <2>4. RowInv' /\ CondemnedInv' /\ KeptInv'
    BY <1>1, <1>4, <1>5 DEF SafeInv, RowsSound, RowInv, CondemnedInv, KeptInv, Stored, Alive
  <2> QED BY <2>2, <2>3, <2>4
<1>7. ASSUME SameReferences(w), row' = r, Done(w) PROVE SafeInv'
  BY <1>1, <1>4, <1>6, <1>7, RowThenDone, FieldsOf
<1>8. ASSUME SameReferences(w), row' = r, local' = [local EXCEPT ![w] = l] PROVE SafeInv'
  <2>1. l \in Locals
    <3>1. "collect" \in Steps /\ 0 \in Nat
      BY DEF Steps
    <3> QED BY <1>3, <3>1, DoomedShape
  <2>2. /\ l.pc = "collect" /\ l.t = local[w].t /\ l.key = local[w].key /\ l.seen = local[w].seen
        /\ l.pending = local[w].pending /\ l.previous = local[w].previous /\ l.doomed = d
    BY <1>3 DEF Locals
  <2>3. row.r2 = local[w].seen
    BY <1>8 DEF SameReferences
  <2> HIDE DEF l
  <2>4. Moves(w) /\ local'[w] = l
    BY <1>8, <2>1, PutIs DEF SafeInv, PackageTypeOK
  <2>5. Learns(w)
    BY <1>1, <2>2, <2>4 DEF Learns, Building, Discarding, At
  <2>6. \A j \in Keys : LeaseFree(j)'
    BY <1>4, <1>8 DEF LeaseFree, Keys, None
  <2>7. local[w].pending \in MaybeKey
    BY LocalsOf DEF SafeInv, PackageTypeOK
  <2>8. CleanSound(w)'
    <3>1. \A j \in (local'[w].doomed \union {local'[w].pending}) \ {None} : j \in Keys
      BY <1>3, <2>2, <2>4, <2>7 DEF MaybeKey
    <3>2. row'.r2 \notin local'[w].doomed
      BY <1>4, <1>8, <2>2, <2>3, <2>4
    <3>3. local'[w].pending # None \/ local'[w].previous # None
      BY <1>2, <2>2, <2>4
    <3> HIDE DEF d
    <3> QED BY <2>6, <3>1, <3>2, <3>3 DEF CleanSound
  <2>9. TaskSound(w)' /\ BuildSound(w)' /\ KeySound(w)' /\ NameSound(w)' /\ PurgeSound(w)'
    BY <2>2, <2>4 DEF TaskSound, BuildSound, PurgeSound, KeySound, NameSound, Storing, Building, Purging, Retiring, Keyed,
                      Rotating, Copying, Switched, Unsaid
  <2>10. WriteSound(w)'
    BY <1>1, <1>2, <2>2, <2>4 DEF WriteSound
  <2>11. Sound(w)' /\ late' \in Lates
    BY <1>1, <2>8, <2>9, <2>10, FieldsOf DEF Sound
  <2> QED BY <1>1, <1>4, <1>6, <1>8, <2>5, <2>11, RowIsSafe, FieldsOf
<1>9. ASSUME UNCHANGED row, Done(w) PROVE SafeInv'
  BY <1>1, <1>9, ReadThenDone DEF Reads, Calm
<1> QED BY <1>1, <1>7, <1>8, <1>9

LEMMA CondemnSafe ==
    ASSUME VaultAssumption, ProfilesAssumption, SafeInv, NEW w \in Worker, Condemn(w), UNCHANGED <<tasks, changed, late>>
    PROVE  SafeInv'
<1> DEFINE r == [row EXCEPT !.status = "expired"]
<1>1. /\ At(w, "condemn") /\ (Fault \/ NoFault)
      /\ UNCHANGED <<objects, undone, stray, tasks, now, hold, closed, active, changed, crashes, nextKey, late, latest>>
      /\ \/ Live /\ Releasable(local[w].t) /\ row' = r /\ (Goto(w, "shred") \/ Done(w))
         \/ UNCHANGED row /\ Goto(w, "confirm")
         \/ UNCHANGED row /\ Done(w)
  BY DEF Condemn, Setting
<1>2. /\ "package" \notin tasks /\ "purge" \in tasks /\ local[w].t <= now
      /\ row.status \in {"live", "expired", "purged"} /\ row.expires <= local[w].t
  BY <1>1 DEF SafeInv, Sound, TaskSound, PurgeSound, WriteSound, Purging, At
<1>3. ASSUME NEW place \in {"shred", "confirm"}, Goto(w, place)
      PROVE  Learns(w) /\ local'[w].pc = place /\ local'[w].t = local[w].t
  <2>1. local[w].pc \notin Discarding /\ place \in Steps \ Building
    BY <1>1 DEF Steps, Building, Discarding, At
  <2> QED BY <1>1, <1>3, <2>1, GotoKeeps
<1>4. ASSUME Live, Releasable(local[w].t), row' = r, Goto(w, "shred") \/ Done(w) PROVE SafeInv'
  <2>1. /\ row' \in Rows /\ row'.status = "expired" /\ row'.expires = row.expires /\ row'.r2 = row.r2 /\ row'.epoch = row.epoch
        /\ row'.pending = row.pending /\ row'.previous = row.previous /\ row'.lease = row.lease
    <3>1. "expired" \in Statuses /\ 0 \in Nat /\ None \in MaybeKey /\ 0 \in 0..MaxEpoch
      BY Bounds, FieldsOf DEF Statuses
    <3>2. r \in Rows
      BY <3>1, FieldsOf, StatusShape
    <3> QED BY <1>4, <3>2, FieldsOf DEF Rows
  <2>2. row.status = "live" /\ closed /\ hold <= local[w].t
    BY <1>4 DEF Live, Releasable
  <2>3. Tame(None)
    BY <1>1, <2>1 DEF Tame
  <2>4. Steady(w)
    BY <1>1, <1>2, <2>1, <2>2 DEF Steady, Alive, At, Discarding
  <2>5. hold <= now /\ row.expires <= now
    BY <1>2, <2>2, LocalsOf, FieldsOf DEF SafeInv, PackageTypeOK, TypeOK
  <2>6. RowInv' /\ CondemnedInv' /\ KeptInv'
    BY <1>1, <1>2, <2>1, <2>2, <2>5 DEF RowInv, CondemnedInv, KeptInv, Alive
  <2>7. CASE Done(w)
    BY <1>1, <2>1, <2>3, <2>4, <2>6, <2>7, RowThenDone, FieldsOf
  <2>8. CASE Goto(w, "shred")
    <3>1. Learns(w) /\ local'[w].pc = "shred" /\ local'[w].t = local[w].t
      BY <1>3, <2>8
    <3>2. TaskSound(w)' /\ PurgeSound(w)' /\ WriteSound(w)'
      BY <1>1, <1>2, <2>1, <3>1 DEF TaskSound, PurgeSound, WriteSound, Storing, Building, Purging, Retiring
    <3>3. KeySound(w)' /\ BuildSound(w)' /\ NameSound(w)' /\ CleanSound(w)'
      BY <3>1 DEF KeySound, BuildSound, NameSound, CleanSound, Building, Keyed, Storing, Rotating, Copying, Switched, Unsaid, Cleaning
    <3>4. Sound(w)' /\ late' \in Lates
      BY <1>1, <3>2, <3>3, FieldsOf DEF Sound
    <3> QED BY <1>1, <2>1, <2>3, <2>4, <2>6, <3>1, <3>4, RowIsSafe, FieldsOf
  <2> QED BY <1>4, <2>7, <2>8
<1>5. ASSUME UNCHANGED row, Goto(w, "confirm") PROVE SafeInv'
  <2>1. Learns(w) /\ local'[w].pc = "confirm" /\ local'[w].t = local[w].t
    BY <1>3, <1>5
  <2>2. TaskSound(w)' /\ PurgeSound(w)' /\ WriteSound(w)'
    BY <1>1, <1>2, <1>5, <2>1 DEF TaskSound, PurgeSound, WriteSound, Storing, Building, Purging, Retiring
  <2>3. KeySound(w)' /\ BuildSound(w)' /\ NameSound(w)' /\ CleanSound(w)'
    BY <2>1 DEF KeySound, BuildSound, NameSound, CleanSound, Building, Keyed, Storing, Rotating, Copying, Switched, Unsaid, Cleaning
  <2>4. Reads
    BY <1>1, <1>5 DEF Reads, Calm
  <2> QED BY <2>1, <2>2, <2>3, <2>4, ReadIsSafe DEF Sound
<1>6. ASSUME UNCHANGED row, Done(w) PROVE SafeInv'
  BY <1>1, <1>6, ReadThenDone DEF Reads, Calm
<1> QED BY <1>1, <1>4, <1>5, <1>6

\* The row is emptied for good.
LEMMA RowEmptied ==
    ASSUME VaultAssumption, ProfilesAssumption, SafeInv, NEW w \in Worker, Done(w),
           UNCHANGED <<objects, undone, stray, tasks, now, hold, closed, active, changed, crashes, nextKey, late, latest>>,
           Fault \/ NoFault,
           NEW s \in {"purged", "failed"},
           row' = [row EXCEPT !.status = s, !.r2 = None, !.pending = None, !.previous = None, !.lease = Free, !.until = 0],
           IF s = "purged" THEN "package" \notin tasks /\ row.status \in {"live", "expired", "purged"} /\ local[w].pc \in Purging
           ELSE "package" \in tasks /\ row.status \in {"live", "failed"} /\ local[w].pc \in Retiring
    PROVE  SafeInv'
<1>1. /\ row' \in Rows /\ row'.status = s /\ row'.expires = row.expires /\ row'.r2 = None
      /\ row'.pending = None /\ row'.previous = None /\ row'.lease = Free
  <2>1. s \in Statuses /\ 0 \in Nat /\ 0 \in 0..MaxEpoch
    BY Bounds DEF Statuses
  <2>2. row' \in Rows
    BY <2>1, FieldsOf, ObjectShape
  <2> QED BY <2>2, FieldsOf DEF Rows
<1>2. Tame(None)
  BY <1>1 DEF Tame, Free
<1>3. Steady(w)
  BY <1>1 DEF Steady, Alive, Discarding, Purging, Retiring
<1>4. RowInv' /\ CondemnedInv' /\ KeptInv'
  BY <1>1 DEF RowInv, CondemnedInv, KeptInv, Alive
<1> QED BY <1>1, <1>2, <1>3, <1>4, RowThenDone, FieldsOf

LEMMA MarkPurgedSafe ==
    ASSUME VaultAssumption, ProfilesAssumption, SafeInv, NEW w \in Worker, MarkPurged(w), UNCHANGED <<tasks, changed, late>>
    PROVE  SafeInv'
<1>1. /\ At(w, "purged") /\ (Fault \/ NoFault) /\ Done(w)
      /\ UNCHANGED <<objects, undone, stray, tasks, now, hold, closed, active, changed, crashes, nextKey, late, latest>>
      /\ \/ row' = [row EXCEPT !.status = "purged", !.r2 = None, !.pending = None, !.previous = None, !.lease = Free, !.until = 0]
         \/ UNCHANGED row
  BY DEF MarkPurged, Setting
<1>2. "package" \notin tasks /\ row.status \in {"live", "expired", "purged"} /\ local[w].pc \in Purging
  BY <1>1 DEF SafeInv, Sound, TaskSound, PurgeSound, Purging, At
<1>3. ASSUME UNCHANGED row PROVE SafeInv'
  BY <1>1, <1>3, ReadThenDone DEF Reads, Calm
<1> QED BY <1>1, <1>2, <1>3, RowEmptied

LEMMA RetirePackageSafe ==
    ASSUME VaultAssumption, ProfilesAssumption, SafeInv, NEW w \in Worker, RetirePackage(w), UNCHANGED tasks
    PROVE  SafeInv'
<1>1. /\ At(w, "retire") /\ (Fault \/ NoFault) /\ Done(w)
      /\ UNCHANGED <<objects, undone, stray, tasks, now, hold, closed, active, changed, crashes, nextKey, late, latest>>
      /\ \/ row' = [row EXCEPT !.status = "failed", !.r2 = None, !.pending = None, !.previous = None, !.lease = Free, !.until = 0]
         \/ UNCHANGED row
  BY DEF RetirePackage, Setting
<1>2. "package" \in tasks /\ row.status \in {"live", "failed"} /\ local[w].pc \in Retiring
  BY <1>1 DEF SafeInv, Sound, TaskSound, PurgeSound, Retiring, At
<1>3. ASSUME UNCHANGED row PROVE SafeInv'
  BY <1>1, <1>3, ReadThenDone DEF Reads, Calm
<1> QED BY <1>1, <1>2, <1>3, RowEmptied

LEMMA ClaimPurgeSafe ==
    ASSUME VaultAssumption, ProfilesAssumption, SafeInv, NEW w \in Worker, ClaimPurge(w), UNCHANGED tasks
    PROVE  SafeInv'
<1> DEFINE r == [row EXCEPT !.lease = <<w, None>>, !.until = local[w].t + LeaseTime]
<1>1. /\ At(w, "claimPurge") /\ (Fault \/ NoFault)
      /\ UNCHANGED <<objects, undone, stray, tasks, now, hold, closed, active, changed, crashes, nextKey, late, latest>>
      /\ \/ Live /\ row' = r /\ Goto(w, "shredPackage")
         \/ Live /\ row' = r /\ Done(w)
         \/ UNCHANGED row /\ Done(w)
  BY DEF ClaimPurge, Purgeable, Setting
<1>2. row' = r => /\ row' \in Rows /\ row'.status = row.status /\ row'.expires = row.expires /\ row'.r2 = row.r2
                  /\ row'.epoch = row.epoch /\ row'.pending = row.pending /\ row'.previous = row.previous
                  /\ row'.lease = <<w, None>>
  <2>1. r \in Rows
    <3>1. <<w, None>> \in Lease /\ local[w].t + LeaseTime \in Nat
      BY Bounds, LocalsOf DEF Lease, SafeInv, PackageTypeOK
    <3> QED BY <3>1, FieldsOf, LeaseShape
  <2> QED BY <2>1, FieldsOf DEF Rows
<1>3. ASSUME Live, row' = r, Done(w) PROVE SafeInv'
  BY <1>1, <1>2, <1>3, RowForgets DEF Live
<1>4. ASSUME UNCHANGED row, Done(w) PROVE SafeInv'
  BY <1>1, <1>4, ReadThenDone DEF Reads, Calm
<1>5. ASSUME Live, row' = r, Goto(w, "shredPackage") PROVE SafeInv'
  <2>1. Learns(w) /\ local'[w].pc = "shredPackage" /\ local'[w].t = local[w].t
    <3>1. local[w].pc \notin Discarding /\ "shredPackage" \in Steps \ Building
      BY <1>1 DEF Steps, Building, Discarding, At
    <3> QED BY <1>1, <1>5, <3>1, GotoKeeps
  <2>2. \A v \in Worker, j \in Keys : row'.lease # <<v, j>>
    BY <1>2, <1>5 DEF Keys, None
  <2>3. Tame(None)
    BY <1>1, <1>2, <1>5, <2>2 DEF Tame
  <2>4. Steady(w)
    BY <1>1, <1>2, <1>5 DEF Steady, Alive
  <2>5. RowInv' /\ CondemnedInv' /\ KeptInv'
    BY <1>1, <1>2, <1>5 DEF SafeInv, RowsSound, RowInv, CondemnedInv, KeptInv, Stored, Alive, Live
  <2>6. \A j \in Keys : LeaseFree(j)'
    BY <2>2 DEF LeaseFree
  <2>7. TaskSound(w)' /\ PurgeSound(w)' /\ WriteSound(w)'
    <3>1. "package" \in tasks /\ row.expires <= local[w].t /\ local[w].t <= now
      BY <1>1 DEF SafeInv, Sound, TaskSound, PurgeSound, WriteSound, Retiring, At
    <3>2. PurgeSound(w)'
      BY <1>2, <1>5, <2>1, <2>6, <3>1 DEF PurgeSound, Purging, Retiring, Live
    <3> QED BY <1>1, <2>1, <3>1, <3>2 DEF TaskSound, WriteSound, Storing, Building, Purging, Retiring
  <2>8. KeySound(w)' /\ BuildSound(w)' /\ NameSound(w)' /\ CleanSound(w)'
    BY <2>1 DEF KeySound, BuildSound, NameSound, CleanSound, Building, Keyed, Storing, Rotating, Copying, Switched, Unsaid, Cleaning
  <2>9. Sound(w)' /\ late' \in Lates
    BY <1>1, <2>7, <2>8, FieldsOf DEF Sound
  <2> QED BY <1>1, <1>2, <1>5, <2>1, <2>3, <2>4, <2>5, <2>9, RowIsSafe, FieldsOf
<1> QED BY <1>1, <1>3, <1>4, <1>5

LEMMA RequestPackageSafe ==
    ASSUME VaultAssumption, ProfilesAssumption, SafeInv, NEW w \in Worker, RequestPackage(w), UNCHANGED tasks
    PROVE  SafeInv'
<1> DEFINE r == [row EXCEPT !.status = "building"]
<1>1. /\ At(w, "idle") /\ (Fault \/ NoFault) /\ "package" \in tasks /\ row.status = "absent"
      /\ UNCHANGED <<objects, undone, stray, tasks, now, hold, closed, active, changed, crashes, nextKey, late, latest>>
      /\ \/ row' = r /\ Goto(w, "select")
         \/ row' \in {row, r} /\ UNCHANGED local
  BY DEF RequestPackage, Unrelated
<1>2. /\ local[w].t <= now /\ late = NoLate /\ \A v \in Worker : local[v].pc \notin Building
      /\ row.r2 = None /\ row.pending = None /\ row.previous = None /\ row.lease = Free
  BY <1>1 DEF SafeInv, Sound, WriteSound, RowsSound, LateInv, BuildSound, RowInv
<1>3. /\ Learns(w) /\ local'[w].t = local[w].t
      /\ \/ local'[w].pc = "select" /\ row' = r
         \/ local'[w].pc = "idle" /\ row' \in {row, r}
  <2>1. CASE Goto(w, "select") /\ row' = r
    <3>1. "select" \in Steps /\ local[w].pc \notin Discarding
      BY <1>1 DEF Steps, Discarding, At
    <3>2. local'[w].pc = "select" /\ local'[w].t = local[w].t
      BY <2>1, <3>1, GotoIs DEF SafeInv, PackageTypeOK
    <3>3. Learns(w)
      BY <1>1, <2>1, <3>1, GotoIs DEF SafeInv, PackageTypeOK, Learns
    <3> QED BY <2>1, <3>2, <3>3
  <2>2. CASE UNCHANGED local /\ row' \in {row, r}
    BY <1>1, <2>2 DEF Learns, Moves, SafeInv, PackageTypeOK, TypeOK, At
  <2> QED BY <1>1, <2>1, <2>2
<1>4. ASSUME row' = r
      PROVE  /\ row' \in Rows /\ row'.status = "building" /\ row'.r2 = None
             /\ row'.pending = None /\ row'.previous = None /\ row'.lease = Free
  <2>1. "building" \in Statuses /\ 0 \in Nat /\ None \in MaybeKey /\ 0 \in 0..MaxEpoch
    BY Bounds, FieldsOf DEF Statuses
  <2>2. r \in Rows
    BY <2>1, FieldsOf, StatusShape
  <2> QED BY <1>2, <1>4, <2>2, FieldsOf DEF Rows
<1>5. Sound(w)'
  <2>1. TaskSound(w)' /\ KeySound(w)'
    BY <1>1, <1>3 DEF TaskSound, KeySound, Storing, Building, Purging, Retiring, Keyed, Rotating, Copying, Switched
  <2>2. BuildSound(w)'
    BY <1>1, <1>2, <1>3, <1>4 DEF BuildSound, Building, Learns, Moves
  <2>3. local'[w].t <= now'
    BY <1>1, <1>2, <1>3
  <2> QED BY <1>3, <2>1, <2>2, <2>3, PlainSound
      DEF Plain, Sound, NameSound, WriteSound, CleanSound, PurgeSound, Unsaid, Copying, Cleaning, Purging, Retiring
<1>6. ASSUME row' = r PROVE SafeInv'
  <2>1. Tame(None)
    BY <1>1, <1>2, <1>4, <1>6 DEF Tame
  <2>2. Steady(w)
    BY <1>1, <1>2, <1>4, <1>6 DEF Steady, Alive, At, Discarding
  <2>3. RowInv' /\ CondemnedInv' /\ KeptInv'
    BY <1>1, <1>4, <1>6 DEF RowInv, CondemnedInv, KeptInv, Alive
  <2>4. late' \in Lates
    BY <1>1, FieldsOf
  <2> QED BY <1>1, <1>3, <1>4, <1>5, <1>6, <2>1, <2>2, <2>3, <2>4, RowIsSafe, FieldsOf
<1>7. ASSUME row' = row PROVE SafeInv'
  <2>1. Reads
    BY <1>1, <1>7 DEF Reads, Calm
  <2> QED BY <1>3, <1>5, <2>1, ReadIsSafe
<1> QED BY <1>3, <1>6, <1>7

LEMMA FailPackageSafe ==
    ASSUME VaultAssumption, ProfilesAssumption, SafeInv, NEW w \in Worker, FailPackage(w), UNCHANGED tasks
    PROVE  SafeInv'
<1> DEFINE r == [row EXCEPT !.status = "failed"]
<1>1. /\ At(w, "fail") /\ (Fault \/ NoFault)
      /\ UNCHANGED <<objects, undone, stray, tasks, now, hold, closed, active, changed, crashes, nextKey, late, latest>>
      /\ (row.status = "building" /\ row' = r) \/ row' = row
      /\ Done(w) \/ (local[w].key # None /\ Goto(w, "settle"))
  BY DEF FailPackage, Unrelated
<1>2. /\ local[w].t <= now /\ "package" \in tasks /\ row.status # "absent"
      /\ \A v \in Worker \ {w} : local[v].pc \notin Building
  BY <1>1 DEF SafeInv, Sound, WriteSound, TaskSound, BuildSound, Building, At
<1>3. row' = r /\ row.status = "building" =>
          /\ row' \in Rows /\ row'.status = "failed" /\ row'.r2 = None /\ row.r2 = None
          /\ row'.pending = None /\ row'.previous = None /\ row'.lease = Free /\ row.lease = Free
          /\ row.pending = None /\ row.previous = None
  <2>1. "failed" \in Statuses /\ 0 \in Nat /\ None \in MaybeKey /\ 0 \in 0..MaxEpoch
    BY Bounds, FieldsOf DEF Statuses
  <2>2. r \in Rows
    BY <2>1, FieldsOf, StatusShape
  <2> QED BY <2>2, FieldsOf DEF Rows, SafeInv, RowsSound, RowInv
<1>4. Learns(w) /\ Sound(w)' /\ late' \in Lates
  <2>1. CASE Done(w)
    BY <1>1, <2>1, DoneIsSafe, FieldsOf
  <2>2. CASE local[w].key # None /\ Goto(w, "settle")
    <3>1. Learns(w) /\ local'[w].pc = "settle" /\ local'[w].t = local[w].t /\ local'[w].key = local[w].key
      <4>1. "settle" \in Steps /\ local[w].pc \in Building /\ "settle" \in Discarding
        BY <1>1 DEF Steps, Building, Discarding, At
      <4> QED BY <1>1, <2>2, <4>1, GotoIs, GotoLearns DEF SafeInv, PackageTypeOK
    <3>2. TaskSound(w)' /\ KeySound(w)'
      BY <1>1, <1>2, <2>2, <3>1 DEF TaskSound, KeySound, Storing, Building, Purging, Retiring
    <3>3. BuildSound(w)'
      BY <1>1, <1>2, <1>3, <3>1 DEF BuildSound, Discarding, Learns, Moves
    <3>4. local'[w].t <= now'
      BY <1>1, <1>2, <3>1
    <3> QED BY <1>1, <3>1, <3>2, <3>3, <3>4, PlainSound, FieldsOf DEF Plain
  <2> QED BY <1>1, <2>1, <2>2
<1>5. ASSUME row.status = "building", row' = r PROVE SafeInv'
  <2>1. Tame(None)
    BY <1>1, <1>3, <1>5 DEF Tame
  <2>2. Steady(w)
    BY <1>1, <1>2, <1>3, <1>5 DEF Steady, Alive, At, Building
  <2>3. RowInv' /\ CondemnedInv' /\ KeptInv'
    BY <1>1, <1>2, <1>3, <1>5 DEF RowInv, CondemnedInv, KeptInv, Alive
  <2> QED BY <1>1, <1>3, <1>4, <1>5, <2>1, <2>2, <2>3, RowIsSafe, FieldsOf
<1>6. ASSUME row' = row PROVE SafeInv'
  <2>1. Reads
    BY <1>1, <1>6 DEF Reads, Calm
  <2> QED BY <1>4, <2>1, ReadIsSafe
<1> QED BY <1>1, <1>5, <1>6

\* The publication of an object whose key nobody knows.
LEMMA PublishedRow ==
    ASSUME VaultAssumption, SafeInv, NEW k \in Keys, NEW e \in 0..MaxEpoch, NEW t \in Nat,
           PublishRow(k, e, t)
    PROVE  /\ row' \in Rows /\ row'.status = "live" /\ row'.r2 = k /\ row'.epoch = e
           /\ row'.pending = row.pending /\ row'.previous = row.previous /\ row'.lease = row.lease
<1>1. "live" \in Statuses /\ k \in MaybeKey /\ t + Validity \in Nat
  BY Bounds DEF Statuses, MaybeKey
<1>2. [row EXCEPT !.status = "live", !.r2 = k, !.epoch = e, !.expires = t + Validity] \in Rows
  BY <1>1, FieldsOf, StatusShape
<1> QED BY <1>2, FieldsOf DEF PublishRow, Rows

LEMMA PublishSafe ==
    ASSUME VaultAssumption, ProfilesAssumption, SafeInv, NEW w \in Worker, Publish(w), UNCHANGED tasks
    PROVE  SafeInv'
<1> DEFINE request == [key |-> local[w].key, epoch |-> local[w].to, t |-> local[w].t]
<1>1. /\ At(w, "publish") /\ (Fault \/ NoFault)
      /\ UNCHANGED <<objects, undone, stray, tasks, now, hold, closed, active, changed, crashes, nextKey, latest>>
      /\ \/ PublishRow(local[w].key, local[w].to, local[w].t) /\ (Done(w) \/ Goto(w, "fail")) /\ late' = late
         \/ UNCHANGED row /\ Goto(w, "fail") /\ late' \in {late, request}
  BY DEF Publish, Unrelated
<1>2. /\ local[w].key \in Keys /\ local[w].key # None /\ ~Named(local[w].key) /\ ~Current(local[w].key)
      /\ Stored(local[w].key, local[w].to) /\ local[w].t <= now
      /\ row.status = "building" /\ late = NoLate /\ "package" \in tasks
      /\ \A v \in Worker \ {w} : local[v].pc \notin Building
  BY <1>1, OwnKey DEF At, Keyed, Building, Unsaid, Discarding, SafeInv, Sound, NameSound, WriteSound, TaskSound, BuildSound,
                      Named, Current, Referenced
<1>3. row.r2 = None /\ row.pending = None /\ row.previous = None /\ row.lease = Free
  BY <1>2 DEF SafeInv, RowsSound, RowInv
<1>4. local[w].to \in 0..MaxEpoch /\ local[w].t \in Nat /\ request \in Lates
  BY <1>2, LocalsOf DEF SafeInv, PackageTypeOK, Lates, MaybeKey
<1>5. ASSUME Goto(w, "fail")
      PROVE  Learns(w) /\ local'[w].pc = "fail" /\ local'[w].t = local[w].t /\ local'[w].key = local[w].key
  <2>1. "fail" \in Steps /\ local[w].pc \in Building /\ "fail" \in Discarding
    BY <1>1 DEF Steps, Building, Discarding, At
  <2> QED BY <1>1, <1>5, <2>1, GotoIs, GotoLearns DEF SafeInv, PackageTypeOK
<1>6. ASSUME Goto(w, "fail"), row'.status # "absent" PROVE Sound(w)'
  <2>1. TaskSound(w)' /\ KeySound(w)'
    BY <1>1, <1>2, <1>5, <1>6 DEF TaskSound, KeySound, Storing, Building, Purging, Retiring, Keyed, Rotating, Copying, Switched
  <2>2. BuildSound(w)'
    BY <1>2, <1>5, <1>6 DEF BuildSound, Discarding, Learns, Moves
  <2>3. local'[w].t <= now'
    BY <1>1, <1>2, <1>5, <1>6
  <2> QED BY <1>5, <1>6, <2>1, <2>2, <2>3, PlainSound DEF Plain
<1>7. ASSUME PublishRow(local[w].key, local[w].to, local[w].t), Done(w) \/ Goto(w, "fail"), late' = late PROVE SafeInv'
  <2>1. /\ row' \in Rows /\ row'.status = "live" /\ row'.r2 = local[w].key /\ row'.epoch = local[w].to
        /\ row'.pending = row.pending /\ row'.previous = row.previous /\ row'.lease = row.lease
    BY <1>2, <1>4, <1>7, PublishedRow
  <2>2. Learns(w) /\ Sound(w)' /\ late' \in Lates
    <3>1. CASE Done(w)
      BY <1>1, <1>7, <3>1, DoneIsSafe, FieldsOf
    <3>2. CASE Goto(w, "fail")
      BY <1>5, <1>6, <1>7, <2>1, <3>2, FieldsOf
    <3> QED BY <1>7, <3>1, <3>2
  <2>3. Tame(local[w].key)
    BY <1>3, <1>7, <2>1 DEF Tame
  <2>4. Steady(w)
    BY <1>1, <1>2, <1>3, <1>7, <2>1 DEF Steady, At, Building, Discarding
  <2>5. RowInv' /\ CondemnedInv' /\ KeptInv'
    BY <1>1, <1>2, <2>1 DEF RowInv, CondemnedInv, KeptInv, Stored
  <2> QED BY <1>1, <1>2, <1>7, <2>1, <2>2, <2>3, <2>4, <2>5, RowIsSafe, FieldsOf
<1>8. ASSUME UNCHANGED row, Goto(w, "fail"), late' = late PROVE SafeInv'
  <2>1. Reads
    BY <1>1, <1>8 DEF Reads, Calm
  <2> QED BY <1>2, <1>5, <1>6, <1>8, <2>1, ReadIsSafe
<1>9. ASSUME UNCHANGED row, Goto(w, "fail"), late' = request PROVE SafeInv'
  <2>1. late'.key = local[w].key /\ late'.epoch = local[w].to
    BY <1>9
  <2>2. Learns(w) /\ Sound(w)' /\ late' \in Lates
    BY <1>2, <1>4, <1>5, <1>6, <1>9
  <2>3. Tame(local[w].key)
    BY <1>9, <2>1 DEF Tame
  <2>4. Steady(w)
    BY <1>1, <1>2, <1>9 DEF Steady, At, Building, Discarding, Alive
  <2>5. RowInv' /\ CondemnedInv' /\ KeptInv'
    BY <1>1, <1>2, <1>9 DEF SafeInv, RowsSound, RowInv, CondemnedInv, KeptInv, Stored, Alive
  <2>6. PICK j \in Keys : j = local[w].key
    BY <1>2
  <2>7. ~Named(j)'
    <3>1. \A v \in Worker : /\ local'[v].seen = local[v].seen /\ local'[v].pending = local[v].pending
                            /\ local'[v].previous = local[v].previous /\ local'[v].doomed = local[v].doomed
      BY <1>9, GotoIs DEF SafeInv, PackageTypeOK, Moves, Steps
    <3> QED BY <1>2, <1>9, <2>6, <3>1 DEF Named, LeaseFree, Referenced
  <2>8. \A v \in Worker : local'[v].key = local[w].key => local'[v].pc \in Discarding
    BY <1>2, <1>5, <1>9 DEF Learns, Moves, SafeInv, UsedInv, Discarding
  <2>9. LateInv'
    BY <1>1, <1>2, <1>9, <2>1, <2>6, <2>7, <2>8 DEF LateInv, Stored
  <2> QED BY <1>1, <1>2, <1>9, <2>2, <2>3, <2>4, <2>5, <2>9, RowIsSafe, FieldsOf
<1> QED BY <1>1, <1>7, <1>8, <1>9

\* A publication under way is made, or comes too late.
LEMMA LatePublicationSafe ==
    ASSUME VaultAssumption, ProfilesAssumption, SafeInv, LatePublication, UNCHANGED tasks
    PROVE  SafeInv'
<1>1. /\ late # NoLate /\ late' = NoLate
      /\ UNCHANGED <<objects, undone, stray, tasks, now, hold, closed, active, changed, crashes, faults, nextKey, local, latest>>
      /\ \/ row.status = "building" /\ PublishRow(late.key, late.epoch, late.t)
         \/ UNCHANGED row
  BY DEF LatePublication, Unrelated, Publishable
<1>2. /\ late.key \in Keys /\ late.key # None /\ ~Named(late.key) /\ late.epoch \in 0..MaxEpoch /\ late.t \in Nat
      /\ \A v \in Worker : local[v].key = late.key => local[v].pc \in Discarding
      /\ row.status = "building" => Stored(late.key, late.epoch)
      /\ row.status \in {"building", "failed"} /\ "package" \in tasks
      /\ late.key < nextKey
  BY <1>1, FieldsOf DEF SafeInv, RowsSound, LateInv, RowInv, Lates, MaybeKey, UsedInv
<1>3. row.r2 = None /\ row.pending = None /\ row.previous = None /\ row.lease = Free
  BY <1>2 DEF SafeInv, RowsSound, RowInv
<1>4. /\ row' \in Rows /\ row'.lease = Free /\ row'.pending = None /\ row'.previous = None
      /\ \/ row.status = "building" /\ row'.status = "live" /\ row'.r2 = late.key /\ row'.epoch = late.epoch
         \/ row' = row
  <2>1. CASE row.status = "building" /\ PublishRow(late.key, late.epoch, late.t)
    BY <1>2, <1>3, <2>1, PublishedRow
  <2>2. CASE UNCHANGED row
    BY <1>3, <2>2, FieldsOf
  <2> QED BY <1>1, <2>1, <2>2
<1>5. late'.key = None /\ late' \in Lates
  BY <1>1, Bounds DEF NoLate, Lates, MaybeKey
<1>6. PackageTypeOK'
  BY <1>1, <1>4, <1>5 DEF SafeInv, PackageTypeOK, TypeOK
<1>7. ASSUME NEW j \in Keys, Named(j)' PROVE Named(j) \/ (j = late.key /\ row' # row)
  BY <1>1, <1>3, <1>4, <1>7 DEF Named, LeaseFree, Referenced, Keys, None
<1>8. UsedInv'
  <2>1. ASSUME NEW j \in Keys, j \in DOMAIN objects' \/ Named(j)' PROVE j < nextKey'
    BY <1>1, <1>2, <1>7, <2>1 DEF SafeInv, UsedInv
  <2>2. late'.key < nextKey'
    BY <1>1, <1>5 DEF SafeInv, PackageTypeOK, TypeOK, None
  <2>3. /\ \A v \in Worker : local'[v].key < nextKey'
        /\ \A u \in Worker : \A v \in Worker \ {u} : local'[v].key = local'[u].key => local'[u].key = None
    BY <1>1 DEF SafeInv, UsedInv
  <2> QED BY <2>1, <2>2, <2>3 DEF UsedInv
<1>9. RowInv' /\ CondemnedInv' /\ KeptInv' /\ LateInv'
  <2>1. LateInv'
    BY <1>1 DEF LateInv
  <2>2. RowInv'
    BY <1>1, <1>2, <1>4 DEF RowInv, SafeInv, RowsSound
  <2>3. CondemnedInv'
    BY <1>1, <1>2, <1>4 DEF CondemnedInv
  <2>4. KeptInv'
    BY <1>1, <1>2, <1>4 DEF KeptInv, Alive, Stored
  <2> QED BY <2>1, <2>2, <2>3, <2>4
<1>10. ASSUME NEW v \in Worker PROVE Sound(v)'
  <2>1. Sound(v)
    BY DEF SafeInv
  <2>2. TaskSound(v)' /\ KeySound(v)'
    BY <1>1, <2>1 DEF Sound, TaskSound, KeySound
  <2>3. NameSound(v)'
    <3>1. CASE local[v].pc \in Unsaid
      <4>1. local[v].key \in Keys /\ ~Named(local[v].key) /\ late.key # local[v].key
        BY <2>1, <3>1, OwnKey DEF Sound, NameSound, Keyed, Unsaid, Storing, Rotating, Building
      <4>2. PICK j \in Keys : j = local[v].key
        BY <4>1
      <4>3. ~Named(j)' /\ late'.key # j
        BY <1>5, <1>7, <4>1, <4>2 DEF Keys, None
      <4> QED BY <1>1, <3>1, <4>2, <4>3 DEF NameSound, Unsaid, Copying
    <3>2. CASE local[v].pc \in Copying
      <4>1. local[v].key \in Keys /\ ~Current(local[v].key)
        BY <2>1, <3>2, OwnKey DEF Sound, NameSound, Keyed, Rotating
      <4>2. PICK j \in Keys : j = local[v].key
        BY <4>1
      <4>3. ~Current(j)'
        BY <1>1, <1>4, <1>5, <4>1, <4>2 DEF Current, Keys, None
      <4> QED BY <1>1, <3>2, <4>2, <4>3 DEF NameSound, Unsaid, Copying
    <3>3. CASE local[v].pc = "drop"
      <4>1. late.key # local[v].seen
        BY <1>2 DEF Named
      <4> QED BY <1>1, <1>4, <2>1, <3>3, <4>1 DEF Sound, NameSound, Unsaid, Copying
    <3>4. CASE local[v].pc = "lose"
      <4>1. local[v].key # late.key /\ local[v].key # None /\ local[v].key \notin Referenced
        BY <1>2, <2>1, <3>4 DEF Discarding, Sound, NameSound, KeySound, Keyed, Rotating, Switched
      <4> QED BY <1>1, <1>4, <3>4, <4>1 DEF NameSound, Unsaid, Copying, Referenced
    <3>5. CASE local[v].pc \notin Unsaid \union Copying \union {"drop", "lose"}
      BY <1>1, <2>1, <3>5 DEF Sound, NameSound
    <3> QED BY <3>1, <3>2, <3>3, <3>4, <3>5
  <2>4. WriteSound(v)'
    <3>1. ~Mine(v)'
      BY <1>4 DEF Mine, Free
    <3>2. local[v].pc = "discard" => row' = row
      BY <1>4, <2>1 DEF Sound, WriteSound
    <3>3. local[v].pc # "review"
      BY <1>2, <2>1 DEF Sound, TaskSound
    <3> QED BY <1>1, <2>1, <3>1, <3>2, <3>3 DEF Sound, WriteSound, Stored
  <2>5. CleanSound(v)'
    <3>1. late.key \notin local[v].doomed
      BY <1>2 DEF Named
    <3>2. \A j \in Keys \union {None} : LeaseFree(j)'
      BY <1>4 DEF LeaseFree, Free
    <3>3. \A j \in (local[v].doomed \union {local[v].pending}) \ {None} : j \in Keys \union {None}
      BY LocalsOf DEF SafeInv, PackageTypeOK, MaybeKey
    <3> QED BY <1>1, <1>4, <2>1, <3>1, <3>2, <3>3 DEF Sound, CleanSound
  <2>6. PurgeSound(v)'
    <3>1. local[v].pc \notin Purging
      BY <1>2, <2>1 DEF Sound, TaskSound
    <3>2. local[v].pc \in Retiring => row' = row
      BY <1>4, <2>1 DEF Sound, PurgeSound
    <3>3. \A j \in Keys : LeaseFree(j)'
      BY <1>4 DEF LeaseFree, Free
    <3> QED BY <1>1, <2>1, <3>1, <3>2, <3>3 DEF Sound, PurgeSound, Purging
  <2>7. BuildSound(v)'
    BY <1>1, <1>4, <2>1 DEF Sound, BuildSound
  <2> QED BY <2>2, <2>3, <2>4, <2>5, <2>6, <2>7 DEF Sound
<1> QED BY <1>6, <1>8, <1>9, <1>10 DEF SafeInv, RowsSound

-----------------------------------------------------------------------------
(* The invariant.                                                          *)

\* A row that is not there, no object, and nobody at work.
LEMMA InitIsSafe ==
    ASSUME VaultAssumption, PackageInit
    PROVE  SafeInv
<1> USE DEF PackageInit
<1>1. /\ tasks \in Profiles /\ latest = 0 /\ objects = <<>> /\ hold = 0 /\ closed = FALSE
      /\ active = 1 /\ now = 1 /\ nextKey = 1 /\ local = [w \in Worker |-> Idle] /\ undone = {} /\ stray = {}
      /\ faults = 0 /\ crashes = 0 /\ changed = FALSE /\ late = NoLate
  BY DEF Init
<1>2. /\ row \in Rows /\ row.status = "absent" /\ row.r2 = None /\ row.pending = None /\ row.previous = None
      /\ row.lease = Free
  <2>1. "absent" \in Statuses /\ None \in MaybeKey /\ 0 \in 0..MaxEpoch /\ 0 \in Nat /\ Free \in Lease
    BY Bounds DEF Statuses, MaybeKey, Lease
  <2> QED BY <2>1 DEF Init, Rows
<1>3. DOMAIN objects = {}
  BY <1>1
<1>4. \A w \in Worker : local[w] = Idle
  BY <1>1
<1>5. late \in Lates /\ late.key = None
  BY <1>1, Bounds DEF NoLate, Lates, MaybeKey
<1>6. PackageTypeOK
  <2>1. local \in [Worker -> Locals]
    BY <1>1, IdleIs
  <2>2. 1 \in 1..MaxEpoch /\ 1 \in 0..MaxTime /\ 0 \in 0..MaxTime /\ 1 \in 1..(MaxKeys + 1) /\ 0 \in 0..MaxFaults /\ 0 \in 0..MaxCrashes
    BY Bounds
  <2> QED BY <1>1, <1>2, <1>3, <1>5, <2>1, <2>2 DEF PackageTypeOK, TypeOK
<1>7. \A k \in Keys : ~Named(k)
  BY <1>2, <1>4, IdleIs DEF Named, LeaseFree, Referenced, Keys, None, Free
<1>8. UsedInv
  BY <1>1, <1>3, <1>4, <1>5, <1>7, IdleIs DEF UsedInv, None
<1>9. RowsSound
  BY <1>1, <1>2 DEF RowsSound, RowInv, LateInv, CondemnedInv, KeptInv, Alive
<1>10. ASSUME NEW w \in Worker PROVE Sound(w)
  <2>1. local[w].pc = "idle" /\ local[w].t = 0 /\ now = 1
    BY <1>1, <1>4, IdleIs
  <2> QED BY <2>1 DEF Sound, TaskSound, KeySound, BuildSound, NameSound, WriteSound, CleanSound, PurgeSound,
       Storing, Rotating, Copying, Switched, Building, Cleaning, Purging, Retiring, Keyed, Unsaid
<1> QED BY <1>6, <1>8, <1>9, <1>10 DEF SafeInv

\* The steps that evidence and packages share.
LEMMA SharedStepSafe ==
    ASSUME VaultAssumption, ProfilesAssumption, SafeInv, NEW w \in Worker, Rotate(w) \/ CleanUp(w),
           UNCHANGED <<tasks, changed, late>>
    PROVE  SafeInv'
BY SelectRotationSafe, ClaimRotationSafe, ReadObjectSafe, CopyObjectSafe, AbandonCopySafe, ReleaseClaimSafe,
   BindSwitchSafe, SwitchObjectSafe, ClassifySafe, DeleteLoserSafe, DropPreviousSafe, ClearPreviousSafe,
   SelectGarbageSafe, ReclaimSafe, DeletingSafe, ReconcileSafe
   DEF Rotate, CleanUp

LEMMA EvidenceStepSafe ==
    ASSUME VaultAssumption, ProfilesAssumption, SafeInv, NEW w \in Worker, Step(w), "package" \notin tasks,
           UNCHANGED <<tasks, changed, late>>
    PROVE  SafeInv'
<1>1. CASE Store(w)
  BY <1>1, CheckAssessmentSafe, LookUpSafe, PutEvidenceSafe, InsertEvidenceSafe, UndoPutSafe, RenewEvidenceSafe,
     MarkStaleSafe DEF Store
<1>2. CASE Reviewing(w)
  BY <1>2, BeginReviewSafe, ReviewSafe DEF Reviewing
<1>3. CASE Rotate(w) \/ CleanUp(w)
  BY <1>3, SharedStepSafe
<1>4. CASE Purge(w)
  BY <1>4, SelectExpiredSafe, CondemnSafe, ConfirmSafe, DeletingSafe, MarkPurgedSafe DEF Purge
<1>5. CASE Hold(w)
  BY <1>5, BeginHoldSafe, SetHoldSafe DEF Hold
<1> QED BY <1>1, <1>2, <1>3, <1>4, <1>5 DEF Step

LEMMA PackageStepSafe ==
    ASSUME VaultAssumption, ProfilesAssumption, SafeInv, NEW w \in Worker, PackageStep(w), "package" \in tasks,
           UNCHANGED tasks
    PROVE  SafeInv'
<1>1. CASE Build(w)
  BY <1>1, RequestPackageSafe, SelectEvidenceSafe, PutPackageSafe, PublishSafe, FailPackageSafe, SettlePublicationSafe,
     ProveLoserSafe, DiscardCandidateSafe DEF Build
<1>2. CASE RotatePackage(w) \/ CleanUpPackage(w)
  BY <1>2, SharedStepSafe DEF RotatePackage, CleanUpPackage
<1>3. CASE Retire(w)
  <2>1. ShredPackage(w) => UNCHANGED <<changed, late>>
    BY DEF ShredPackage
  <2> QED BY <1>3, <2>1, SelectExpiredPackageSafe, ClaimPurgeSafe, DeletingSafe, UnlockPackageSafe, RetirePackageSafe DEF Retire
<1> QED BY <1>1, <1>2, <1>3 DEF PackageStep

\* Every step of both kinds of artifact keeps the invariant.
LEMMA NextIsSafe ==
    ASSUME VaultAssumption, ProfilesAssumption, SafeInv, [PackageNext]_pvars
    PROVE  SafeInv'
<1>1. CASE UNCHANGED pvars
  <2>1. UNCHANGED <<tasks, row, latest, objects, hold, closed, active, now, nextKey, local, undone, stray, faults, crashes, changed, late>>
    BY <1>1 DEF pvars, vars
  <2>2. PackageTypeOK' /\ CondemnedInv' /\ now <= now'
    BY <2>1 DEF SafeInv, RowsSound, PackageTypeOK, TypeOK, CondemnedInv
  <2> QED BY <2>1, <2>2, WorldIsSafe
<1>2. CASE "package" \notin tasks /\ Next /\ UNCHANGED <<changed, late>>
  BY <1>2, WorldSafe, EvidenceStepSafe DEF Next
<1>3. CASE "package" \in tasks /\ UNCHANGED tasks /\ (SelectionChanges \/ LatePublication)
  BY <1>3, SelectionChangesSafe, LatePublicationSafe
<1>4. CASE "package" \in tasks /\ UNCHANGED tasks /\ \E w \in Worker : PackageStep(w)
  BY <1>4, PackageStepSafe
<1>5. CASE UNCHANGED tasks /\ World /\ UNCHANGED <<changed, late>>
  BY <1>5, WorldSafe
<1> QED BY <1>1, <1>2, <1>3, <1>4, <1>5 DEF PackageNext

\* What each worker relies on between its statements holds throughout, whatever
\* the other uploads, renewals, reviews, rotations, reconcilers, purges, holds
\* and package builds do meanwhile, and whatever fails or dies.
THEOREM SafeCorrect == PackageSpec => []SafeInv
<1>1. PackageInit => SafeInv
  BY VaultAssumption, InitIsSafe
<1>2. SafeInv /\ [PackageNext]_pvars => SafeInv'
  BY VaultAssumption, ProfilesAssumption, NextIsSafe
<1> QED BY <1>1, <1>2, PTL DEF PackageSpec

-----------------------------------------------------------------------------
(* The properties.                                                         *)

LEMMA SafeIsKept ==
    ASSUME SafeInv
    PROVE  CurrentObjectKept
<1>1. now \in Nat /\ hold \in Nat /\ row.expires \in Nat /\ TypeOK
  BY DEF SafeInv, PackageTypeOK, TypeOK, Rows
<1>2. Readable => Alive /\ ("package" \in tasks => row.expires > now)
  BY <1>1 DEF SafeInv, RowsSound, CondemnedInv, Readable, PackageReadable, EvidenceReadable, Live, Alive
<1> QED BY <1>1, <1>2 DEF CurrentObjectKept, SafeInv, RowsSound, KeptInv, Stored

\* What readEvidenceBytes or readAssessorPackage would serve can be read: the
\* row names an object that is there, encrypted under the key the row says,
\* unless its own storeEvidence undid the upload.
THEOREM CurrentCorrect == PackageSpec => []CurrentObjectKept
<1>1. SafeInv => CurrentObjectKept
  BY SafeIsKept
<1> QED BY <1>1, SafeCorrect, PTL

\* purgeExpiredEvidence deletes the row's object only when no hold is in force,
\* though the hold is checked long before the delete.
THEOREM HeldCorrect == PackageSpec => HeldKept
<1>1. SafeInv /\ [PackageNext]_pvars =>
          [row.r2 \in DOMAIN objects /\ row.r2 \notin DOMAIN objects' /\ (\E w \in Worker : Shred(w)) => hold <= now]_vars
  <2> SUFFICES ASSUME SafeInv, row.r2 \in DOMAIN objects, NEW w \in Worker, Shred(w) PROVE hold <= now
    OBVIOUS
  <2>1. local[w].pc = "shred" /\ row.r2 # None
    BY DEF Shred, DeleteNext, At, SafeInv, PackageTypeOK, TypeOK, Keys, None
  <2>2. "purge" \in tasks /\ row.status \in {"expired", "purged"}
    BY <2>1 DEF SafeInv, Sound, TaskSound, PurgeSound, Purging
  <2>3. row.status = "expired"
    BY <2>1, <2>2 DEF SafeInv, RowsSound, RowInv
  <2> QED BY <2>2, <2>3 DEF SafeInv, RowsSound, CondemnedInv
<1> QED BY <1>1, SafeCorrect, PTL DEF PackageSpec, HeldKept

-----------------------------------------------------------------------------
(* Nothing is left behind.                                                 *)

Aiming == {"claim", "read", "copy", "bind", "switch"}
Fresh == {"claim", "read", "release"}
Emptied == {"reconciled", "purged", "retire"}

\* The row names no previous object when it is switched.
AimSound(w) == local[w].pc \in Aiming /\ row.r2 = local[w].seen => row.previous = None

\* What is about to be dropped from the row is gone, or is stray.
ClearSound(w) ==
    /\ local[w].pc = "clear" => local[w].seen \notin DOMAIN objects
    /\ local[w].pc \in {"collect", "reconciled"} =>
          \A k \in {local[w].pending, local[w].previous} \ ({local[w].seen} \union local[w].doomed) :
             k \in DOMAIN objects => k \in stray
    /\ local[w].pc \in Purging \union Retiring =>
          /\ \A k \in Referenced : k \in DOMAIN objects => k \in local[w].doomed \union stray
          /\ \A v \in Worker, k \in Keys : row.lease = <<v, k>> => row.until <= now
    /\ local[w].pc \in Emptied => local[w].doomed = {}

\* Without a failure, an object is written once its key is claimed, and nothing
\* is left to its writer alone.
NewSound(w) ==
    /\ local[w].pc # "abandon"
    /\ local[w].pc \in Fresh => local[w].key \notin DOMAIN objects
    /\ local[w].pc \in Building /\ late # NoLate => local[w].key = late.key

Shed(w) == AimSound(w) /\ ClearSound(w) /\ NewSound(w)

\* A worker that will put the object's key into the row, or delete the object.
Covers(w, k) ==
    /\ local[w].key = k
    /\ \/ local[w].pc \in {"insert", "undo", "publish"}
       \/ local[w].pc = "fail" /\ row.status = "building"
       \/ local[w].pc \in {"settle", "prove", "discard"} /\ row.status = "failed"

Covered == \A k \in DOMAIN objects : k \in Referenced \union stray \/ \E w \in Worker : Covers(w, k)
Tidy == Covered /\ \A w \in Worker : Shed(w)
OrphanInv == faults = 0 /\ crashes = 0 => Tidy

\* What a step of w does, as far as the others are concerned.
Clean(w) ==
    /\ Moves(w) /\ stray \subseteq stray' /\ now' = now
    /\ late' = late \/ local[w].pc \in Building
    /\ \A j \in DOMAIN objects' : j \in DOMAIN objects \/
          (j = local[w].key /\ ~Current(j) /\ row' = row
           /\ (~Named(j) \/ j \in stray' \/ (row.lease = <<w, j>> /\ row.until > now)))
    /\ \/ row'.r2 = row.r2 /\ row'.previous \in {row.previous, None}
       \/ row'.r2 = None /\ row'.previous = None
       \/ ~Current(row'.r2)
    /\ \/ row.status \in {"absent", "building"} \/ row.expires > now
       \/ /\ Referenced' \subseteq Referenced \union {None}
          /\ \A v \in Worker, k \in Keys : row'.lease = <<v, k>> => row.lease = <<v, k>> /\ row'.until = row.until
    /\ row.status = "building" /\ local[w].pc \notin Building => row'.status = "building"
    /\ row.status = "failed" => row'.status = "failed"
    /\ \A k \in DOMAIN objects' : \/ k \in Referenced' \union stray' \/ Covers(w, k)'
                                  \/ k \in DOMAIN objects /\ k \notin Referenced /\ ~Covers(w, k)

\* A clean step of w leaves what is said of the others true, and nothing uncovered.
LEMMA CleanIsTidy ==
    ASSUME VaultAssumption, SafeInv, SafeInv', Tidy, NEW w \in Worker, Clean(w), Shed(w)'
    PROVE  Tidy'
<1>1. ASSUME NEW v \in Worker \ {w} PROVE Shed(v)'
  <2>1. local'[v] = local[v] /\ Shed(v) /\ Sound(v) /\ v \in Worker
    BY DEF Clean, Moves, Tidy, SafeInv
  <2>2. local[v].seen \in MaybeKey /\ local[v].key \in MaybeKey /\ DOMAIN objects \subseteq Keys /\ DOMAIN objects' \subseteq Keys
    BY LocalsOf DEF SafeInv, PackageTypeOK, TypeOK
  <2>3. AimSound(v)'
    <3>1. ~Current(row'.r2) => row'.r2 # local[v].seen
      BY DEF Current
    <3> QED BY <2>1, <3>1 DEF Clean, Shed, AimSound
  <2>4. ASSUME NEW k \in {local[v].seen, local[v].previous, local[v].pending} \union local[v].doomed,
               k \in DOMAIN objects', k \notin DOMAIN objects
        PROVE  /\ k \notin {local[v].seen, local[v].previous} /\ row' = row
               /\ k \in stray' \/ (row.lease = <<w, k>> /\ row.until > now)
    BY <2>4 DEF Clean, Named, Current
  <2>5. ClearSound(v)'
    <3>1. local[v].pc = "clear" => local[v].seen \notin DOMAIN objects'
      BY <2>1, <2>4 DEF Shed, ClearSound
    <3>2. ASSUME local[v].pc \in {"collect", "reconciled"},
                 NEW k \in {local[v].pending, local[v].previous} \ ({local[v].seen} \union local[v].doomed),
                 k \in DOMAIN objects'
          PROVE  k \in stray'
      <4>1. CASE k \in DOMAIN objects
        BY <2>1, <3>2, <4>1 DEF Shed, ClearSound, Clean
      <4>2. CASE k \notin DOMAIN objects
        <5>1. k = local[v].pending /\ k # None
          BY <2>2, <2>4, <3>2, <4>2 DEF Keys, None
        <5>2. LeaseFree(k)
          BY <2>1, <3>2, <5>1 DEF Sound, CleanSound
        <5> QED BY <2>4, <3>2, <4>2, <5>2 DEF LeaseFree
      <4> QED BY <4>1, <4>2
    <3>3. ASSUME local[v].pc \in Purging \union Retiring
          PROVE  /\ \A k \in Referenced' : k \in DOMAIN objects' => k \in local[v].doomed \union stray'
                 /\ \A u \in Worker, k \in Keys : row'.lease = <<u, k>> => row'.until <= now'
      <4>1. row.status \notin {"absent", "building"} /\ row.expires <= now
        <5>1. /\ row.status \notin {"absent", "building"}
              /\ row.expires <= local[v].t /\ local[v].t <= now
          BY <2>1, <3>3 DEF Sound, PurgeSound, WriteSound
        <5> QED BY <5>1, LocalsOf, FieldsOf DEF SafeInv, PackageTypeOK
      <4>2. /\ Referenced' \subseteq Referenced \union {None} /\ now' = now
            /\ \A u \in Worker, k \in Keys : row'.lease = <<u, k>> => row.lease = <<u, k>> /\ row'.until = row.until
        <5>1. ~(row.expires > now)
          BY <4>1, FieldsOf
        <5> QED BY <4>1, <5>1 DEF Clean
      <4>3. /\ \A k \in Referenced : k \in DOMAIN objects => k \in local[v].doomed \union stray
            /\ \A u \in Worker, k \in Keys : row.lease = <<u, k>> => row.until <= now
        BY <2>1, <3>3 DEF Shed, ClearSound
      <4>4. ASSUME NEW k \in Referenced', k \in DOMAIN objects' PROVE k \in local[v].doomed \union stray'
        <5>1. k \in Referenced /\ k \in Keys
          BY <2>2, <4>2, <4>4 DEF Keys, None
        <5>2. CASE k \in DOMAIN objects
          BY <4>3, <5>1, <5>2 DEF Clean
        <5>3. CASE k \notin DOMAIN objects
          <6>1. Named(k)
            BY <5>1 DEF Named
          <6>2. k \in stray' \/ (row.lease = <<w, k>> /\ row.until > now)
            BY <4>4, <5>3, <6>1 DEF Clean
          <6>3. row.lease = <<w, k>> => ~(row.until > now)
            BY <4>3, <5>1, FieldsOf
          <6> QED BY <6>2, <6>3
        <5> QED BY <5>2, <5>3
      <4>5. ASSUME NEW u \in Worker, NEW k \in Keys, row'.lease = <<u, k>> PROVE row'.until <= now'
        BY <4>2, <4>3, <4>5
      <4> QED BY <4>4, <4>5
    <3>4. local[v].pc \in Emptied => local[v].doomed = {}
      BY <2>1 DEF Shed, ClearSound
    <3> QED BY <2>1, <3>1, <3>2, <3>3, <3>4 DEF ClearSound
  <2>6. NewSound(v)'
    <3>1. local[v].pc \in Fresh => local[v].key \notin DOMAIN objects'
      <4> SUFFICES ASSUME local[v].pc \in Fresh, local[v].key \in DOMAIN objects' PROVE FALSE
        OBVIOUS
      <4>1. local[v].key \notin DOMAIN objects
        BY <2>1 DEF Shed, NewSound
      <4>2. local[v].key = local[w].key
        BY <4>1 DEF Clean
      <4> QED BY <2>2, <4>2 DEF SafeInv, UsedInv, Keys, None
    <3>2. local[v].pc \in Building /\ late' # NoLate => local[v].key = late'.key
      <4>1. local[v].pc \in Building => local[w].pc \notin Building
        BY <2>1 DEF Sound, BuildSound
      <4> QED BY <2>1, <4>1 DEF Clean, Shed, NewSound
    <3> QED BY <2>1, <3>1, <3>2 DEF NewSound, Shed
  <2> QED BY <2>3, <2>5, <2>6 DEF Shed
<1>2. ASSUME NEW k \in DOMAIN objects'
      PROVE  k \in Referenced' \union stray' \/ \E v \in Worker : Covers(v, k)'
  <2> SUFFICES ASSUME k \in DOMAIN objects, k \notin Referenced, ~Covers(w, k)
               PROVE  k \in Referenced' \union stray' \/ \E v \in Worker : Covers(v, k)'
    BY <1>2 DEF Clean
  <2>1. CASE k \in stray
    BY <2>1 DEF Clean
  <2>2. CASE k \notin stray
    <3>1. PICK v \in Worker : Covers(v, k)
      BY <2>2 DEF Tidy, Covered
    <3>2. v # w /\ local'[v] = local[v]
      BY <3>1 DEF Clean, Moves
    <3>3. local[v].pc \in Building => local[w].pc \notin Building
      BY <3>2 DEF SafeInv, Sound, BuildSound
    <3>4. Covers(v, k)'
      BY <3>1, <3>2, <3>3 DEF Covers, Clean, Building
    <3> QED BY <3>4
  <2> QED BY <2>1, <2>2
<1> QED BY <1>1, <1>2 DEF Tidy, Covered

\* The row names what it named, and is leased as it was.
SameNames ==
    /\ row'.r2 = row.r2 /\ row'.pending = row.pending /\ row'.previous = row.previous
    /\ row'.lease = row.lease /\ row'.until = row.until

\* A step that leaves the names in the row is clean.
LEMMA QuietIsClean ==
    ASSUME VaultAssumption, SafeInv, NEW w \in Worker, Moves(w), SameNames, UNCHANGED now, stray \subseteq stray',
           late' = late \/ local[w].pc \in Building,
           DOMAIN objects' \subseteq DOMAIN objects,
           row.status = "building" /\ local[w].pc \notin Building => row'.status = "building",
           row.status = "failed" => row'.status = "failed",
           \A k \in DOMAIN objects' : Covers(w, k) => Covers(w, k)'
    PROVE  Clean(w)
<1>1. Referenced' = Referenced
  BY DEF Referenced, SameNames
<1> QED BY <1>1 DEF Clean, SameNames

\* An invocation that has ended leaves nothing to do.
LEMMA IdleShed ==
    ASSUME VaultAssumption, SafeInv, NEW w \in Worker, Done(w)
    PROVE  Moves(w) /\ Shed(w)' /\ \A k : ~Covers(w, k)'
<1>1. Moves(w) /\ local'[w].pc = "idle"
  BY DoneIs, IdleIs DEF SafeInv, PackageTypeOK
<1> QED BY <1>1 DEF Shed, AimSound, ClearSound, NewSound, Aiming, Fresh, Emptied, Purging, Retiring, Building, Covers

\* Work ends that covered nothing.
LEMMA QuietDone ==
    ASSUME VaultAssumption, SafeInv, SafeInv', Tidy, NEW w \in Worker, Done(w), UNCHANGED <<row, late, now>>, stray \subseteq stray',
           DOMAIN objects' \subseteq DOMAIN objects,
           \A k \in DOMAIN objects' : ~Covers(w, k)
    PROVE  Tidy'
<1>1. Clean(w)
  BY IdleShed, QuietIsClean DEF SameNames
<1> QED BY <1>1, IdleShed, CleanIsTidy

\* A worker that moves on, with what it was working on.
LEMMA ShedMoves ==
    ASSUME Tidy, NEW w \in Worker, SameNames, UNCHANGED now, stray \subseteq stray',
           DOMAIN objects' \subseteq DOMAIN objects,
           local'[w].seen = local[w].seen, local'[w].key = local[w].key,
           local'[w].pending = local[w].pending, local'[w].previous = local[w].previous,
           \A k \in local[w].doomed : k \in local'[w].doomed \/ k \notin DOMAIN objects',
           local'[w].pc \in Aiming => local[w].pc \in Aiming,
           local'[w].pc = "clear" => local[w].seen \notin DOMAIN objects',
           local'[w].pc \in {"collect", "reconciled"} => local[w].pc \in {"collect", "reconciled"},
           local'[w].pc \in Purging \union Retiring => local[w].pc \in Purging \union Retiring,
           local'[w].pc \in Emptied => local'[w].doomed = {},
           local'[w].pc # "abandon",
           local'[w].pc \in Fresh => local[w].pc \in Fresh,
           local'[w].pc \in Building => local[w].pc \in Building /\ (late' = late \/ late'.key = local[w].key)
    PROVE  Shed(w)'
<1>1. Shed(w)
  BY DEF Tidy
<1>2. AimSound(w)'
  BY <1>1 DEF Shed, AimSound, SameNames
<1>3. NewSound(w)'
  BY <1>1 DEF Shed, NewSound
<1>4. local'[w].pc \in {"collect", "reconciled"} =>
          \A k \in {local[w].pending, local[w].previous} \ ({local[w].seen} \union local'[w].doomed) :
             k \in DOMAIN objects' => k \in stray'
  BY <1>1 DEF Shed, ClearSound
<1>5. local'[w].pc \in Purging \union Retiring =>
          /\ \A k \in Referenced' : k \in DOMAIN objects' => k \in local'[w].doomed \union stray'
          /\ \A v \in Worker, k \in Keys : row'.lease = <<v, k>> => row'.until <= now'
  <2>1. Referenced' = Referenced
    BY DEF Referenced, SameNames
  <2> QED BY <1>1, <2>1 DEF Shed, ClearSound, SameNames
<1>6. ClearSound(w)'
  BY <1>4, <1>5 DEF ClearSound
<1> QED BY <1>2, <1>3, <1>6 DEF Shed

\* A place that asks for nothing.
Careless == {"lookup", "put", "insert", "undo", "renew", "stale", "review", "hold", "classify", "lose", "drop", "reclaim"}
LEMMA PlainShed ==
    ASSUME NEW w \in Worker, local'[w].pc \in Careless
    PROVE  Shed(w)'
BY DEF Careless, Shed, AimSound, ClearSound, NewSound, Aiming, Fresh, Emptied, Purging, Retiring, Building

\* Steps that end nothing.
Covering == {"insert", "undo", "publish", "fail", "settle", "prove", "discard"}
LEMMA PlainCovers ==
    ASSUME NEW w \in Worker, local[w].pc \notin Covering
    PROVE  \A k : ~Covers(w, k)
BY DEF Covers, Covering

LEMMA PutMoves ==
    ASSUME SafeInv, SafeInv', NEW w \in Worker, NEW l, local' = [local EXCEPT ![w] = l]
    PROVE  Moves(w) /\ local'[w] = l
BY DEF SafeInv, PackageTypeOK, TypeOK, Moves

LEMMA GotoMoves ==
    ASSUME SafeInv, SafeInv', NEW w \in Worker, NEW place, Goto(w, place)
    PROVE  /\ Moves(w)
           /\ local'[w].pc = place /\ local'[w].key = local[w].key /\ local'[w].seen = local[w].seen
           /\ local'[w].pending = local[w].pending /\ local'[w].previous = local[w].previous
           /\ local'[w].doomed = local[w].doomed
BY DEF SafeInv, PackageTypeOK, TypeOK, Moves, Goto, Locals

\* A step that only reads, and whose worker does not put its work down.
LEMMA QuietStep ==
    ASSUME VaultAssumption, SafeInv, SafeInv', Tidy, NEW w \in Worker, Moves(w), Shed(w)',
           UNCHANGED <<row, late, now>>, stray \subseteq stray', DOMAIN objects' \subseteq DOMAIN objects,
           \A k \in DOMAIN objects' : Covers(w, k) => Covers(w, k)'
    PROVE  Tidy'
<1>1. Clean(w)
  BY QuietIsClean DEF SameNames
<1> QED BY <1>1, CleanIsTidy

LEMMA StartTidy ==
    ASSUME VaultAssumption, SafeInv, SafeInv', Tidy, NEW w \in Worker, UNCHANGED <<late, faults>>,
           CheckAssessment(w) \/ LookUp(w) \/ BeginReview(w) \/ BeginHold(w) \/ SelectGarbage(w)
    PROVE  Tidy'
<1>1. UNCHANGED <<row, late, now, stray, objects>> /\ local[w].pc \in {"idle", "lookup"}
  BY DEF CheckAssessment, LookUp, BeginReview, BeginHold, SelectGarbage, Data, Setting, At
<1>2. Moves(w) /\ local'[w].pc \in Careless
  <2>1. ASSUME NEW l, local' = [local EXCEPT ![w] = l], l.pc \in Careless
        PROVE  Moves(w) /\ local'[w].pc \in Careless
    BY <2>1, PutMoves
  <2>2. CASE CheckAssessment(w)
    BY <2>2, GotoMoves DEF CheckAssessment, Careless
  <2>3. CASE LookUp(w)
    <3>1. /\ [Idle EXCEPT !.pc = "renew", !.t = now].pc = "renew" /\ [Idle EXCEPT !.pc = "stale", !.t = now].pc = "stale"
          /\ [Idle EXCEPT !.pc = "put", !.t = now, !.key = nextKey].pc = "put"
      BY DEF Idle
    <3>2. \/ local' = [local EXCEPT ![w] = [Idle EXCEPT !.pc = "renew", !.t = now]]
          \/ local' = [local EXCEPT ![w] = [Idle EXCEPT !.pc = "stale", !.t = now]]
          \/ local' = [local EXCEPT ![w] = [Idle EXCEPT !.pc = "put", !.t = now, !.key = nextKey]]
      BY <2>3 DEF LookUp
    <3>3. {"renew", "stale", "put"} \subseteq Careless
      BY DEF Careless
    <3> QED BY <2>1, <3>1, <3>2, <3>3
  <2>4. CASE BeginReview(w) \/ BeginHold(w) \/ SelectGarbage(w)
    <3> DEFINE garbage == [Idle EXCEPT !.pc = "reclaim", !.t = now, !.seen = row.r2, !.pending = row.pending, !.previous = row.previous]
               review == [Idle EXCEPT !.pc = "review", !.t = now, !.received = latest]
               keep == [Idle EXCEPT !.pc = "hold", !.t = now]
    <3>1. garbage.pc = "reclaim" /\ review.pc = "review" /\ keep.pc = "hold"
      BY DEF Idle
    <3>2. \/ local' = [local EXCEPT ![w] = garbage] \/ local' = [local EXCEPT ![w] = review]
          \/ local' = [local EXCEPT ![w] = keep]
      BY <2>4 DEF BeginReview, BeginHold, SelectGarbage
    <3>3. {"reclaim", "review", "hold"} \subseteq Careless
      BY DEF Careless
    <3> HIDE DEF garbage, review, keep
    <3> QED BY <2>1, <3>1, <3>2, <3>3
  <2> QED BY <2>2, <2>3, <2>4
<1>3. \A k : ~Covers(w, k)
  BY <1>1, PlainCovers DEF Covering
<1> QED BY <1>1, <1>2, <1>3, PlainShed, QuietStep

\* A rotation starts: its key is fresh, and nothing is left of an earlier one.
LEMMA SelectRotationTidy ==
    ASSUME VaultAssumption, SafeInv, SafeInv', Tidy, NEW w \in Worker, SelectRotation(w), UNCHANGED <<late, faults>>
    PROVE  Tidy'
<1> DEFINE l == [Idle EXCEPT !.pc = "claim", !.key = nextKey, !.seen = row.r2, !.epoch = row.epoch]
<1>1. UNCHANGED <<row, late, now, stray, objects>> /\ local[w].pc = "idle" /\ local' = [local EXCEPT ![w] = l] /\ KeyLeft
      /\ row.previous = None
  BY DEF SelectRotation, Data, At
<1>2. l.pc = "claim" /\ l.key = nextKey /\ l.doomed = {}
  BY DEF Idle
<1> HIDE DEF l
<1>3. Moves(w) /\ local'[w].pc = "claim" /\ local'[w].key = nextKey /\ local'[w].doomed = {}
  BY <1>1, <1>2, PutMoves
<1>4. Shed(w)'
  <2>1. AimSound(w)'
    BY <1>1 DEF AimSound
  <2>2. ClearSound(w)'
    BY <1>3 DEF ClearSound, Purging, Retiring
  <2>3. NewSound(w)'
    BY <1>1, <1>3, FreshKey DEF NewSound, Building
  <2> QED BY <2>1, <2>2, <2>3 DEF Shed
<1>5. \A k : ~Covers(w, k)
  BY <1>1, PlainCovers DEF Covering
<1> QED BY <1>1, <1>3, <1>4, <1>5, QuietStep

\* The builder's place before anything is written.
LEMMA StarterShed ==
    ASSUME SafeInv', NEW w \in Worker, local'[w].pc \in {"select", "putPackage", "publish"}
    PROVE  Shed(w)'
<1>1. late' = NoLate
  BY DEF SafeInv, Sound, BuildSound, Building, Discarding
<1> QED BY <1>1 DEF Shed, AimSound, ClearSound, NewSound, Aiming, Fresh, Emptied, Purging, Retiring

LEMMA SelectEvidenceTidy ==
    ASSUME VaultAssumption, SafeInv, SafeInv', Tidy, NEW w \in Worker, SelectEvidence(w)
    PROVE  Tidy'
<1>1. /\ UNCHANGED <<row, late, now, stray, objects>> /\ local[w].pc = "select"
      /\ (\E l : local' = [local EXCEPT ![w] = l] /\ l.pc = "putPackage") \/ Goto(w, "fail")
  <2>1. [Idle EXCEPT !.pc = "putPackage", !.key = nextKey].pc = "putPackage"
    BY DEF Idle
  <2> QED BY <2>1 DEF SelectEvidence, Data, Unrelated, At
<1>2. \A k : ~Covers(w, k)
  BY <1>1, PlainCovers DEF Covering
<1>3. CASE \E l : local' = [local EXCEPT ![w] = l] /\ l.pc = "putPackage"
  <2>1. Moves(w) /\ local'[w].pc = "putPackage"
    BY <1>3, PutMoves
  <2> QED BY <1>1, <1>2, <2>1, StarterShed, QuietStep
<1>4. CASE Goto(w, "fail")
  <2>1. Moves(w) /\ Shed(w)'
    BY <1>1, <1>4, GotoMoves, ShedMoves DEF SameNames, Aiming, Fresh, Emptied, Purging, Retiring, Building
  <2> QED BY <1>1, <1>2, <2>1, QuietStep
<1> QED BY <1>1, <1>3, <1>4

\* A purge selects the row with all it names.
LEMMA DoomsTidy ==
    ASSUME VaultAssumption, SafeInv, SafeInv', Tidy, NEW w \in Worker, SelectExpired(w) \/ SelectExpiredPackage(w),
           UNCHANGED <<late, faults>>
    PROVE  Tidy'
<1> DEFINE all == {row.r2, row.pending, row.previous} \ {None}
           evidence == [Idle EXCEPT !.pc = "condemn", !.t = now, !.doomed = all]
           package == [Idle EXCEPT !.pc = "claimPurge", !.t = now, !.doomed = all]
<1>0. evidence.pc = "condemn" /\ package.pc = "claimPurge" /\ evidence.doomed = all /\ package.doomed = all
  BY DEF Idle
<1>1. /\ UNCHANGED <<row, late, now, stray, objects>> /\ local[w].pc = "idle" /\ Unleased(now)
      /\ local' = [local EXCEPT ![w] = evidence] \/ local' = [local EXCEPT ![w] = package]
  BY DEF SelectExpired, SelectExpiredPackage, Releasable, Purgeable, Data, Setting, At
<1> HIDE DEF evidence, package
<1>2. /\ Moves(w) /\ local'[w].pc \in {"condemn", "claimPurge"}
      /\ local'[w].doomed = {row.r2, row.pending, row.previous} \ {None}
  BY <1>0, <1>1, PutMoves
<1>3. \A k \in DOMAIN objects : k # None
  BY DEF SafeInv, PackageTypeOK, TypeOK, Keys, None
<1>4. Shed(w)'
  <2>1. \A k \in Referenced' : k \in DOMAIN objects' => k \in local'[w].doomed \union stray'
    BY <1>1, <1>2, <1>3 DEF Referenced
  <2>2. \A v \in Worker, k \in Keys : row'.lease = <<v, k>> => row'.until <= now'
    BY <1>1 DEF Unleased, Free
  <2>3. ClearSound(w)'
    BY <1>2, <2>1, <2>2 DEF ClearSound, Emptied
  <2> QED BY <1>2, <2>3 DEF Shed, AimSound, NewSound, Aiming, Fresh, Building
<1>5. \A k : ~Covers(w, k)
  BY <1>1, PlainCovers DEF Covering
<1> QED BY <1>1, <1>2, <1>4, <1>5, QuietStep

LEMMA ReadTidy ==
    ASSUME VaultAssumption, SafeInv, SafeInv', Tidy, NEW w \in Worker,
           ReadObject(w) \/ BindSwitch(w) \/ Classify(w) \/ Confirm(w), UNCHANGED <<late, faults>>
    PROVE  Tidy'
<1>1. /\ UNCHANGED <<row, late, now, stray, objects>> /\ local[w].pc \notin Covering
      /\ \/ Done(w) \/ BindSwitch(w)
         \/ \E place : /\ Goto(w, place)
                       /\ \/ local[w].pc = "read" /\ place \in {"copy", "release"}
                          \/ local[w].pc = "classify" /\ place \in {"drop", "lose"}
                          \/ local[w].pc = "confirm" /\ place = "shred"
  BY DEF ReadObject, BindSwitch, Classify, Confirm, Data, Setting, At, Covering
<1>2. \A k : ~Covers(w, k)
  BY <1>1, PlainCovers
<1>3. CASE Done(w)
  BY <1>1, <1>2, <1>3, QuietDone
<1>4. CASE BindSwitch(w)
  <2> DEFINE l == [local[w] EXCEPT !.pc = "switch", !.t = now]
  <2>0. local[w] \in Locals
    BY LocalsOf DEF SafeInv, PackageTypeOK
  <2>1. local[w].pc = "bind" /\ local' = [local EXCEPT ![w] = l]
    BY <1>4 DEF BindSwitch, At
  <2>4. /\ l.pc = "switch" /\ l.key = local[w].key /\ l.seen = local[w].seen
        /\ l.pending = local[w].pending /\ l.previous = local[w].previous /\ l.doomed = local[w].doomed
    BY <2>0 DEF Locals
  <2> HIDE DEF l
  <2>2. /\ Moves(w) /\ local'[w].pc = "switch" /\ local'[w].key = local[w].key /\ local'[w].seen = local[w].seen
        /\ local'[w].pending = local[w].pending /\ local'[w].previous = local[w].previous /\ local'[w].doomed = local[w].doomed
    BY <2>1, <2>4, PutMoves
  <2>3. Shed(w)'
    BY <1>1, <2>1, <2>2, ShedMoves DEF SameNames, Aiming, Fresh, Emptied, Purging, Retiring, Building
  <2> QED BY <1>1, <1>2, <2>2, <2>3, QuietStep
<1>5. ASSUME NEW place, Goto(w, place),
             \/ local[w].pc = "read" /\ place \in {"copy", "release"}
             \/ local[w].pc = "classify" /\ place \in {"drop", "lose"}
             \/ local[w].pc = "confirm" /\ place = "shred"
      PROVE  Tidy'
  <2>1. Moves(w) /\ Shed(w)'
    BY <1>1, <1>5, GotoMoves, ShedMoves DEF SameNames, Aiming, Fresh, Emptied, Purging, Retiring, Building
  <2> QED BY <1>1, <1>2, <2>1, QuietStep
<1> QED BY <1>1, <1>3, <1>4, <1>5

\* A build that settles its publication gives its object up only when the row names it.
LEMMA SettleTidy ==
    ASSUME VaultAssumption, SafeInv, SafeInv', Tidy, NEW w \in Worker, SettlePublication(w) \/ ProveLoser(w), UNCHANGED faults
    PROVE  Tidy'
<1>1. faults \in Nat
  BY DEF SafeInv, PackageTypeOK, TypeOK
<1>2. /\ UNCHANGED <<row, late, now, stray, objects>>
      /\ \/ local[w].pc = "settle" /\ (Goto(w, "prove") \/ (~Unreferenced(w) /\ Done(w)))
         \/ local[w].pc = "prove" /\ (Goto(w, "discard") \/ (~(row.status = "failed" /\ row.r2 # local[w].key) /\ Done(w)))
  BY <1>1 DEF SettlePublication, ProveLoser, Data, Unrelated, At, Fault
<1>3. ASSUME NEW k \in DOMAIN objects, Covers(w, k)
      PROVE  row.status = "failed" /\ row.r2 # local[w].key /\ Unreferenced(w)
  <2>1. row.status = "failed" /\ row.r2 = None /\ local[w].key = k /\ k # None
    BY <1>2, <1>3 DEF Covers, SafeInv, RowsSound, RowInv, PackageTypeOK, TypeOK, Keys, None
  <2> QED BY <2>1 DEF Unreferenced, Published, Live
<1>4. ASSUME Done(w), ~Unreferenced(w) \/ ~(row.status = "failed" /\ row.r2 # local[w].key) PROVE Tidy'
  BY <1>2, <1>3, <1>4, QuietDone
<1>5. ASSUME NEW place \in {"prove", "discard"}, Goto(w, place), local[w].pc \in {"settle", "prove"} PROVE Tidy'
  <2>1. Moves(w) /\ Shed(w)' /\ local'[w].pc = place /\ local'[w].key = local[w].key
    BY <1>2, <1>5, GotoMoves, ShedMoves DEF SameNames, Aiming, Fresh, Emptied, Purging, Retiring, Building
  <2>2. \A k \in DOMAIN objects' : Covers(w, k) => Covers(w, k)'
    BY <1>2, <1>5, <2>1 DEF Covers
  <2> QED BY <1>2, <2>1, <2>2, QuietStep
<1> QED BY <1>2, <1>4, <1>5

-----------------------------------------------------------------------------
(* Objects                                                                 *)

\* A worker writes the object of its key.
LEMMA WriteIsClean ==
    ASSUME VaultAssumption, SafeInv, NEW w \in Worker, Moves(w), objects' = With(local[w].key, active),
           UNCHANGED <<row, late, now>>, stray \subseteq stray', ~Current(local[w].key), local[w].pc \notin Covering,
           \/ ~Named(local[w].key) /\ \E j : j = local[w].key /\ Covers(w, j)'
           \/ local[w].key \in stray'
           \/ row.lease = <<w, local[w].key>> /\ row.until > now /\ row.pending = local[w].key
    PROVE  Clean(w)
<1>1. Referenced' = Referenced /\ \A k : ~Covers(w, k)
  BY PlainCovers DEF Referenced
<1>2. DOMAIN objects' = DOMAIN objects \union {local[w].key}
  BY DEF With
<1>3. PICK j : j = local[w].key /\ (j \in Referenced' \union stray' \/ Covers(w, j)')
  <2>1. CASE \E j : j = local[w].key /\ Covers(w, j)'
    BY <2>1
  <2>2. CASE local[w].key \in Referenced' \union stray'
    BY <2>2
  <2>3. CASE row.pending = local[w].key
    <3>1. local[w].key \in Referenced
      BY <2>3 DEF Referenced
    <3> QED BY <1>1, <2>2, <3>1
  <2> QED BY <2>1, <2>2, <2>3
<1>5. \A k \in DOMAIN objects' : \/ k \in Referenced' \union stray' \/ Covers(w, k)'
                                 \/ k \in DOMAIN objects /\ k \notin Referenced /\ ~Covers(w, k)
  BY <1>1, <1>2, <1>3
<1> QED BY <1>1, <1>2, <1>5 DEF Clean

LEMMA PutTidy ==
    ASSUME VaultAssumption, SafeInv, SafeInv', Tidy, NEW w \in Worker, PutEvidence(w) \/ PutPackage(w), UNCHANGED <<late, faults>>
    PROVE  Tidy'
<1>1. faults \in Nat /\ local[w] \in Locals
  BY LocalsOf DEF SafeInv, PackageTypeOK, TypeOK
<1>2. /\ UNCHANGED <<row, late, now, stray>> /\ objects' = With(local[w].key, active)
      /\ \/ local[w].pc = "put" /\ local' = [local EXCEPT ![w] = [local[w] EXCEPT !.pc = "insert", !.to = active]]
         \/ local[w].pc = "putPackage" /\ local' = [local EXCEPT ![w] = [local[w] EXCEPT !.pc = "publish", !.to = active, !.t = now]]
  BY <1>1 DEF PutEvidence, PutPackage, Setting, Unrelated, At, Fault
<1>3. Moves(w) /\ local'[w].pc \in {"insert", "publish"} /\ local'[w].key = local[w].key
  <2>1. ASSUME local' = [local EXCEPT ![w] = [local[w] EXCEPT !.pc = "insert", !.to = active]]
        PROVE  Moves(w) /\ local'[w].pc \in {"insert", "publish"} /\ local'[w].key = local[w].key
    <3> DEFINE l == [local[w] EXCEPT !.pc = "insert", !.to = active]
    <3>1. l.pc = "insert" /\ l.key = local[w].key
      BY <1>1 DEF Locals
    <3>2. local' = [local EXCEPT ![w] = l]
      BY <2>1
    <3> HIDE DEF l
    <3> QED BY <3>1, <3>2, PutMoves
  <2>2. ASSUME local' = [local EXCEPT ![w] = [local[w] EXCEPT !.pc = "publish", !.to = active, !.t = now]]
        PROVE  Moves(w) /\ local'[w].pc \in {"insert", "publish"} /\ local'[w].key = local[w].key
    <3> DEFINE l == [local[w] EXCEPT !.pc = "publish", !.to = active, !.t = now]
    <3>1. l.pc = "publish" /\ l.key = local[w].key
      BY <1>1 DEF Locals
    <3>2. local' = [local EXCEPT ![w] = l]
      BY <2>2
    <3> HIDE DEF l
    <3> QED BY <3>1, <3>2, PutMoves
  <2> QED BY <1>2, <2>1, <2>2
<1>4. ~Named(local[w].key) /\ ~Current(local[w].key) /\ local[w].pc \notin Covering
  BY <1>2 DEF SafeInv, Sound, NameSound, Unsaid, Named, Current, Referenced, Covering
<1>5. PICK j : j = local[w].key
  OBVIOUS
<1>6. Covers(w, j)'
  BY <1>3, <1>5 DEF Covers
<1>7. Clean(w)
  BY <1>2, <1>3, <1>4, <1>5, <1>6, WriteIsClean
<1>8. Shed(w)'
  BY <1>3, PlainShed, StarterShed DEF Careless
<1> QED BY <1>7, <1>8, CleanIsTidy

LEMMA CopyTidy ==
    ASSUME VaultAssumption, SafeInv, SafeInv', Tidy, NEW w \in Worker, CopyObject(w), UNCHANGED <<late, faults>>
    PROVE  Tidy'
<1>1. faults \in Nat /\ local[w] \in Locals
  BY LocalsOf DEF SafeInv, PackageTypeOK, TypeOK
<1>2. /\ UNCHANGED <<row, late, now>> /\ objects' = With(local[w].key, active) /\ local[w].pc = "copy"
      /\ local' = [local EXCEPT ![w] = [local[w] EXCEPT !.pc = "bind", !.to = active]]
      /\ stray' = IF Mine(w) /\ row.until > now THEN stray ELSE stray \union {local[w].key}
  BY <1>1 DEF CopyObject, At, Fault
<1>3. /\ Moves(w) /\ local'[w].pc = "bind" /\ local'[w].key = local[w].key /\ local'[w].seen = local[w].seen
      /\ local'[w].doomed = local[w].doomed
  <2> DEFINE l == [local[w] EXCEPT !.pc = "bind", !.to = active]
  <2>1. l.pc = "bind" /\ l.key = local[w].key /\ l.seen = local[w].seen /\ l.doomed = local[w].doomed
    BY <1>1 DEF Locals
  <2>2. local' = [local EXCEPT ![w] = l]
    BY <1>2
  <2> HIDE DEF l
  <2> QED BY <2>1, <2>2, PutMoves
<1>4. ~Current(local[w].key) /\ local[w].pc \notin Covering
  BY <1>2 DEF SafeInv, Sound, NameSound, Copying, Covering
<1>5. Clean(w)
  BY <1>2, <1>3, <1>4, WriteIsClean DEF Mine
<1>6. Shed(w)'
  <2>1. AimSound(w)'
    BY <1>2, <1>3 DEF Tidy, Shed, AimSound, Aiming
  <2> QED BY <1>3, <2>1 DEF Shed, ClearSound, NewSound, Emptied, Purging, Retiring, Fresh, Building
<1> QED BY <1>5, <1>6, CleanIsTidy

\* An object is deleted, and the work ends.
LEMMA DeleteTidy ==
    ASSUME VaultAssumption, SafeInv, SafeInv', Tidy, NEW w \in Worker,
           UndoPut(w) \/ DeleteLoser(w) \/ DiscardCandidate(w), UNCHANGED <<late, faults>>
    PROVE  Tidy'
<1>1. faults \in Nat
  BY DEF SafeInv, PackageTypeOK, TypeOK
<1>2. UNCHANGED <<row, late, now, stray>> /\ objects' = Without({local[w].key}) /\ Done(w)
  BY <1>1 DEF UndoPut, DeleteLoser, DiscardCandidate, Setting, Unrelated, Fault
<1>3. DOMAIN objects' = DOMAIN objects \ {local[w].key}
  BY <1>2 DEF Without
<1>4. \A k \in DOMAIN objects' : ~Covers(w, k)
  BY <1>3 DEF Covers
<1> QED BY <1>2, <1>3, <1>4, QuietDone

LEMMA DropTidy ==
    ASSUME VaultAssumption, SafeInv, SafeInv', Tidy, NEW w \in Worker, DropPrevious(w), UNCHANGED <<late, faults>>
    PROVE  Tidy'
<1>1. faults \in Nat
  BY DEF SafeInv, PackageTypeOK, TypeOK
<1>2. UNCHANGED <<row, late, now, stray>> /\ objects' = Without({local[w].seen}) /\ Goto(w, "clear") /\ local[w].pc = "drop"
  BY <1>1 DEF DropPrevious, Setting, Fault, At
<1>3. DOMAIN objects' = DOMAIN objects \ {local[w].seen}
  BY <1>2 DEF Without
<1>4. Moves(w) /\ Shed(w)'
  <2>1. /\ Moves(w) /\ local'[w].pc = "clear" /\ local'[w].key = local[w].key /\ local'[w].seen = local[w].seen
        /\ local'[w].pending = local[w].pending /\ local'[w].previous = local[w].previous
        /\ local'[w].doomed = local[w].doomed
    BY <1>2, GotoMoves
  <2> QED BY <1>2, <1>3, <2>1, ShedMoves DEF SameNames, Aiming, Fresh, Emptied, Purging, Retiring, Building
<1>5. \A k : ~Covers(w, k)
  BY <1>2, PlainCovers DEF Covering
<1> QED BY <1>2, <1>3, <1>4, <1>5, QuietStep

LEMMA DeletingTidy ==
    ASSUME VaultAssumption, SafeInv, SafeInv', Tidy, NEW w \in Worker, Collect(w) \/ Shred(w) \/ ShredPackage(w),
           UNCHANGED <<late, faults>>
    PROVE  Tidy'
<1>1. faults \in Nat /\ local[w] \in Locals
  BY LocalsOf DEF SafeInv, PackageTypeOK, TypeOK
<1>0. ~Fault
  BY <1>1 DEF Fault
<1>2. /\ UNCHANGED <<row, late, now, stray>>
      /\ \/ /\ local[w].pc \in {"collect", "shred", "shredPackage"}
            /\ \E k \in local[w].doomed :
                  /\ objects' = Without({k})
                  /\ local' = [local EXCEPT ![w] = [local[w] EXCEPT !.doomed = local[w].doomed \ {k}]]
         \/ /\ UNCHANGED objects /\ local[w].doomed = {}
            /\ \/ local[w].pc = "collect" /\ Goto(w, "reconciled")
               \/ local[w].pc = "shred" /\ Goto(w, "purged")
               \/ local[w].pc = "shredPackage" /\ Goto(w, "retire")
  <2>1. CASE Collect(w)
    BY <1>0, <2>1 DEF Collect, DeleteNext, At, Setting
  <2>2. CASE Shred(w)
    BY <1>0, <2>2 DEF Shred, DeleteNext, At, Setting
  <2>3. CASE ShredPackage(w)
    BY <1>0, <2>3 DEF ShredPackage, At, Setting
  <2> QED BY <2>1, <2>2, <2>3
<1>3. \A k : ~Covers(w, k)
  BY <1>2, PlainCovers DEF Covering
<1>4. ASSUME NEW k \in local[w].doomed, objects' = Without({k}), local[w].pc \in {"collect", "shred", "shredPackage"},
             local' = [local EXCEPT ![w] = [local[w] EXCEPT !.doomed = local[w].doomed \ {k}]]
      PROVE  Tidy'
  <2>1. /\ Moves(w) /\ local'[w].pc = local[w].pc /\ local'[w].key = local[w].key /\ local'[w].seen = local[w].seen
        /\ local'[w].pending = local[w].pending /\ local'[w].previous = local[w].previous
        /\ local'[w].doomed = local[w].doomed \ {k}
    <3> DEFINE l == [local[w] EXCEPT !.doomed = local[w].doomed \ {k}]
    <3>1. /\ l.pc = local[w].pc /\ l.key = local[w].key /\ l.seen = local[w].seen
          /\ l.pending = local[w].pending /\ l.previous = local[w].previous
          /\ l.doomed = local[w].doomed \ {k}
      BY <1>1 DEF Locals
    <3>2. local' = [local EXCEPT ![w] = l]
      BY <1>4
    <3> HIDE DEF l
    <3> QED BY <3>1, <3>2, PutMoves
  <2>2. DOMAIN objects' = DOMAIN objects \ {k}
    BY <1>4 DEF Without
  <2>3. Shed(w)'
    BY <1>2, <1>4, <2>1, <2>2, ShedMoves DEF SameNames, Aiming, Fresh, Emptied, Purging, Retiring, Building
  <2> QED BY <1>2, <1>3, <2>1, <2>2, <2>3, QuietStep
<1>5. ASSUME NEW place, Goto(w, place), UNCHANGED objects, local[w].doomed = {},
             \/ local[w].pc = "collect" /\ place = "reconciled"
             \/ local[w].pc = "shred" /\ place = "purged"
             \/ local[w].pc = "shredPackage" /\ place = "retire"
      PROVE  Tidy'
  <2>1. Moves(w) /\ Shed(w)'
    BY <1>2, <1>5, GotoMoves, ShedMoves DEF SameNames, Aiming, Fresh, Emptied, Purging, Retiring, Building
  <2> QED BY <1>2, <1>3, <1>5, <2>1, QuietStep
<1> QED BY <1>2, <1>4, <1>5

-----------------------------------------------------------------------------
(* The row                                                                 *)

\* The row names what it named, and the work ends.
LEMMA NamesTidy ==
    ASSUME VaultAssumption, SafeInv, SafeInv', Tidy, NEW w \in Worker, Done(w), SameNames,
           UNCHANGED <<late, now, objects, stray>>, local[w].pc \notin Covering,
           row.status \in {"building", "failed"} => row'.status = row.status
    PROVE  Tidy'
<1>1. Moves(w) /\ Shed(w)' /\ \A k : ~Covers(w, k)
  BY IdleShed, PlainCovers
<1>2. Clean(w)
  BY <1>1, QuietIsClean
<1> QED BY <1>1, <1>2, CleanIsTidy

\* No lease on a key is given, and none made longer.
NoNewLease == \A v \in Worker, k \in Keys : row'.lease = <<v, k>> => row.lease = <<v, k>> /\ row'.until = row.until
LEMMA LeaseGoes ==
    ASSUME NEW w, \/ row'.lease = Free \/ row'.lease = <<w, None>>
                  \/ row'.lease = row.lease /\ row'.until = row.until
    PROVE  NoNewLease
BY DEF NoNewLease, Free, Keys, None

\* References are dropped of which no object is left, or the lease changes.
LEMMA RowIsClean ==
    ASSUME VaultAssumption, SafeInv, NEW w \in Worker, Moves(w), UNCHANGED <<late, now, objects, stray>>,
           local[w].pc \notin Covering, NoNewLease,
           \/ row'.r2 = row.r2 /\ row'.previous \in {row.previous, None}
           \/ row'.r2 = None /\ row'.previous = None,
           row'.pending \in {row.pending, None},
           row.status \in {"building", "failed"} => row'.status = row.status,
           \A k \in DOMAIN objects : k \in Referenced => k \in Referenced' \union stray
    PROVE  Clean(w)
<1>1. \A k : ~Covers(w, k)
  BY PlainCovers
<1>2. Referenced' \subseteq Referenced \union {None}
  BY DEF Referenced
<1> QED BY <1>1, <1>2 DEF Clean, NoNewLease

\* The same, and the work ends.
LEMMA RowDoneTidy ==
    ASSUME VaultAssumption, SafeInv, SafeInv', Tidy, NEW w \in Worker, Done(w), UNCHANGED <<late, now, objects, stray>>,
           local[w].pc \notin Covering, NoNewLease,
           \/ row'.r2 = row.r2 /\ row'.previous \in {row.previous, None}
           \/ row'.r2 = None /\ row'.previous = None,
           row'.pending \in {row.pending, None},
           row.status \in {"building", "failed"} => row'.status = row.status,
           \A k \in DOMAIN objects : k \in Referenced => k \in Referenced' \union stray
    PROVE  Tidy'
BY IdleShed, RowIsClean, CleanIsTidy

\* The upload names its object, or goes on to delete it.
LEMMA InsertTidy ==
    ASSUME VaultAssumption, SafeInv, SafeInv', Tidy, NEW w \in Worker, InsertEvidence(w), UNCHANGED <<late, faults>>
    PROVE  Tidy'
<1>0. ~Fault
  BY DEF Fault, SafeInv, PackageTypeOK, TypeOK
<1>1. /\ UNCHANGED <<late, now, objects, stray>> /\ local[w].pc = "insert"
      /\ \/ row.status = "absent" /\ InsertRow(w) /\ Done(w)
         \/ UNCHANGED row /\ Goto(w, "undo")
  BY <1>0 DEF InsertEvidence, At
<1>2. CASE row.status = "absent" /\ InsertRow(w) /\ Done(w)
  <2>1. PICK j : j = local[w].key
    OBVIOUS
  <2>2. ~Current(j)
    BY <1>1, <2>1 DEF SafeInv, Sound, NameSound, Unsaid, Named, Current, Referenced
  <2>3. row'.r2 = j /\ row'.status = "live"
    BY <1>2, <2>1, FieldsOf DEF InsertRow, Rows
  <2>4. Referenced = {None} /\ None \notin DOMAIN objects
    BY <1>2 DEF SafeInv, RowsSound, RowInv, Referenced, PackageTypeOK, TypeOK, Keys, None
  <2>5. j \in Referenced'
    BY <2>3 DEF Referenced
  <2>6. \A k \in DOMAIN objects' : \/ k \in Referenced' \union stray' \/ Covers(w, k)'
                                   \/ k \in DOMAIN objects /\ k \notin Referenced /\ ~Covers(w, k)
    BY <1>1, <2>1, <2>4, <2>5 DEF Covers
  <2>7. Moves(w) /\ Shed(w)'
    BY <1>2, IdleShed
  <2>8. Clean(w)
    BY <1>1, <1>2, <2>2, <2>3, <2>6, <2>7 DEF Clean
  <2> QED BY <2>7, <2>8, CleanIsTidy
<1>3. CASE UNCHANGED row /\ Goto(w, "undo")
  <2>1. Moves(w) /\ local'[w].pc = "undo" /\ local'[w].key = local[w].key
    BY <1>3, GotoMoves
  <2>2. Shed(w)'
    BY <2>1, PlainShed DEF Careless
  <2>3. \A k \in DOMAIN objects' : Covers(w, k) => Covers(w, k)'
    BY <2>1 DEF Covers
  <2> QED BY <1>1, <1>3, <2>1, <2>2, <2>3, QuietStep
<1> QED BY <1>1, <1>2, <1>3

LEMMA StatusTidy ==
    ASSUME VaultAssumption, SafeInv, SafeInv', Tidy, NEW w \in Worker, RenewEvidence(w) \/ MarkStale(w) \/ Review(w),
           UNCHANGED <<late, faults>>
    PROVE  Tidy'
<1>1. /\ UNCHANGED <<late, now, objects, stray>> /\ Done(w) /\ local[w].pc \in {"renew", "stale", "review"}
      /\ row' # row => /\ row.status \in {"live", "expired"}
                       /\ \/ \E x : row' = [row EXCEPT !.expires = x]
                          \/ \E s : row' = [row EXCEPT !.status = s]
  BY DEF RenewEvidence, MarkStale, Review, Live, At, Setting, SafeInv, Sound, WriteSound
<1>2. SameNames
  BY <1>1, FieldsOf DEF SameNames, Rows
<1> QED BY <1>1, <1>2, NamesTidy DEF Covering

LEMMA ClaimTidy ==
    ASSUME VaultAssumption, SafeInv, SafeInv', Tidy, NEW w \in Worker, ClaimRotation(w), UNCHANGED <<late, faults>>
    PROVE  Tidy'
<1>0. ~Fault
  BY DEF Fault, SafeInv, PackageTypeOK, TypeOK
<1>1. /\ UNCHANGED <<late, now, objects, stray>> /\ local[w].pc = "claim"
      /\ \/ /\ Rotatable(now) /\ Goto(w, "read")
            /\ row' = [row EXCEPT !.lease = <<w, local[w].key>>, !.until = now + LeaseTime, !.pending = local[w].key]
         \/ UNCHANGED row /\ Done(w)
  BY <1>0 DEF ClaimRotation, Setting, At
<1>2. \A k : ~Covers(w, k)
  BY <1>1, PlainCovers DEF Covering
<1>3. CASE UNCHANGED row /\ Done(w)
  BY <1>1, <1>2, <1>3, QuietDone
<1>4. ASSUME Rotatable(now), Goto(w, "read"),
             row' = [row EXCEPT !.lease = <<w, local[w].key>>, !.until = now + LeaseTime, !.pending = local[w].key]
      PROVE  Tidy'
  <2>1. /\ row'.r2 = row.r2 /\ row'.previous = row.previous /\ row'.status = row.status
        /\ row.expires > now /\ row.pending = None /\ row.status = "live"
    BY <1>4, FieldsOf DEF Rows, Rotatable, Live
  <2>2. \A k \in DOMAIN objects : k \in Referenced => k \in Referenced'
    <3>1. None \notin DOMAIN objects
      BY DEF SafeInv, PackageTypeOK, TypeOK, Keys, None
    <3> QED BY <2>1, <3>1 DEF Referenced
  <2>3. Moves(w) /\ local'[w].pc = "read" /\ local'[w].key = local[w].key /\ local'[w].seen = local[w].seen
    BY <1>4, GotoMoves
  <2>4. Clean(w)
    BY <1>1, <1>2, <2>1, <2>2, <2>3 DEF Clean
  <2>5. Shed(w)
    BY DEF Tidy
  <2>6. AimSound(w)' /\ NewSound(w)'
    BY <1>1, <2>1, <2>3, <2>5 DEF Shed, AimSound, NewSound, Aiming, Fresh, Building
  <2>7. ClearSound(w)'
    BY <2>3 DEF ClearSound, Purging, Retiring, Emptied
  <2> QED BY <2>4, <2>6, <2>7, CleanIsTidy DEF Shed
<1> QED BY <1>1, <1>3, <1>4

LEMMA ReleaseTidy ==
    ASSUME VaultAssumption, SafeInv, SafeInv', Tidy, NEW w \in Worker, ReleaseClaim(w), UNCHANGED <<late, faults>>
    PROVE  Tidy'
<1>0. ~Fault
  BY DEF Fault, SafeInv, PackageTypeOK, TypeOK
<1>1. /\ UNCHANGED <<late, now, objects, stray>> /\ local[w].pc = "release" /\ Done(w)
      /\ \/ Mine(w) /\ row' = [row EXCEPT !.lease = Free, !.until = 0, !.pending = None]
         \/ UNCHANGED row
  BY <1>0 DEF ReleaseClaim, Setting, At
<1>2. CASE UNCHANGED row
  BY <1>1, <1>2, NamesTidy DEF SameNames, Covering
<1>3. CASE Mine(w) /\ row' = [row EXCEPT !.lease = Free, !.until = 0, !.pending = None]
  <2>1. /\ row'.r2 = row.r2 /\ row'.previous = row.previous /\ row'.status = row.status /\ row'.pending = None
        /\ row'.lease = Free /\ row.pending = local[w].key
    BY <1>3, FieldsOf DEF Rows, Mine
  <2>2. local[w].key \notin DOMAIN objects
    BY <1>1 DEF Tidy, Shed, NewSound, Fresh
  <2>3. \A k \in DOMAIN objects : k \in Referenced => k \in Referenced' \union stray
    BY <2>1, <2>2 DEF Referenced
  <2>4. NoNewLease
    BY <2>1, LeaseGoes
  <2> QED BY <1>1, <2>1, <2>3, <2>4, RowDoneTidy DEF Covering
<1> QED BY <1>1, <1>2, <1>3

LEMMA AbandonTidy ==
    ASSUME Tidy, NEW w \in Worker, AbandonCopy(w)
    PROVE  Tidy'
BY DEF Tidy, Shed, NewSound, AbandonCopy, At

\* A switch keeps the old object named until it is deleted.
LEMMA SwitchTidy ==
    ASSUME VaultAssumption, SafeInv, SafeInv', Tidy, NEW w \in Worker, SwitchObject(w), UNCHANGED <<late, faults>>
    PROVE  Tidy'
<1>0. ~Fault
  BY DEF Fault, SafeInv, PackageTypeOK, TypeOK
<1>1. /\ UNCHANGED <<late, now, objects, stray>> /\ local[w].pc = "switch"
      /\ \/ SwitchHits(w) /\ SwitchRow(w) /\ Goto(w, "drop")
         \/ UNCHANGED row /\ Goto(w, "classify")
  BY <1>0 DEF SwitchObject, Setting, At
<1>2. \A k : ~Covers(w, k)
  BY <1>1, PlainCovers DEF Covering
<1>3. Moves(w) /\ local'[w].pc \in {"drop", "classify"}
  BY <1>1, GotoMoves
<1>4. Shed(w)'
  BY <1>3, PlainShed DEF Careless
<1>5. CASE UNCHANGED row
  BY <1>1, <1>2, <1>3, <1>4, <1>5, QuietStep
<1>6. CASE SwitchHits(w) /\ SwitchRow(w)
  <2>1. /\ row'.r2 = local[w].key /\ row'.previous = local[w].seen /\ row'.pending = None /\ row'.lease = Free
        /\ row'.status = row.status
    BY <1>6, FieldsOf DEF Rows, SwitchRow
  <2>2. row.r2 = local[w].seen /\ row.pending = local[w].key
    BY <1>6 DEF SwitchHits, SameObject, Mine
  <2>3. row.previous = None
    BY <1>1, <2>2 DEF Tidy, Shed, AimSound, Aiming
  <2>4. Referenced' \subseteq Referenced \union {None} /\ Referenced \subseteq Referenced'
    BY <2>1, <2>2, <2>3 DEF Referenced
  <2>5. NoNewLease
    BY <2>1, LeaseGoes
  <2>6. ~Current(row'.r2)
    <3>1. PICK j : j = local[w].key
      OBVIOUS
    <3>2. ~Current(j)
      BY <1>1, <3>1 DEF SafeInv, Sound, NameSound, Copying
    <3> QED BY <2>1, <3>1, <3>2
  <2>7. Clean(w)
    BY <1>1, <1>2, <1>3, <2>1, <2>4, <2>5, <2>6 DEF Clean, NoNewLease
  <2> QED BY <1>4, <2>7, CleanIsTidy
<1> QED BY <1>1, <1>5, <1>6

LEMMA ClearTidy ==
    ASSUME VaultAssumption, SafeInv, SafeInv', Tidy, NEW w \in Worker, ClearPrevious(w), UNCHANGED <<late, faults>>
    PROVE  Tidy'
<1>0. ~Fault
  BY DEF Fault, SafeInv, PackageTypeOK, TypeOK
<1>1. /\ UNCHANGED <<late, now, objects, stray>> /\ local[w].pc = "clear" /\ Done(w)
      /\ \/ row.previous = local[w].seen /\ row' = [row EXCEPT !.previous = None]
         \/ UNCHANGED row
  BY <1>0 DEF ClearPrevious, Setting, At
<1>2. CASE UNCHANGED row
  BY <1>1, <1>2, NamesTidy DEF SameNames, Covering
<1>3. CASE row.previous = local[w].seen /\ row' = [row EXCEPT !.previous = None]
  <2>1. /\ row'.r2 = row.r2 /\ row'.previous = None /\ row'.status = row.status /\ row'.pending = row.pending
        /\ row'.lease = row.lease /\ row'.until = row.until
    BY <1>3, FieldsOf DEF Rows
  <2>2. local[w].seen \notin DOMAIN objects
    BY <1>1 DEF Tidy, Shed, ClearSound
  <2>3. \A k \in DOMAIN objects : k \in Referenced => k \in Referenced' \union stray
    BY <1>3, <2>1, <2>2 DEF Referenced
  <2>4. NoNewLease
    BY <2>1, LeaseGoes
  <2> QED BY <1>1, <2>1, <2>3, <2>4, RowDoneTidy DEF Covering
<1> QED BY <1>1, <1>2, <1>3

\* A reconciler takes on all that it will drop from the row.
LEMMA ReclaimTidy ==
    ASSUME VaultAssumption, SafeInv, SafeInv', Tidy, NEW w \in Worker, Reclaim(w), UNCHANGED <<late, faults>>
    PROVE  Tidy'
<1> DEFINE all == {local[w].pending, local[w].previous} \ {None, local[w].seen}
           l == [local[w] EXCEPT !.pc = "collect", !.doomed = all]
<1>0. ~Fault /\ local[w] \in Locals
  BY LocalsOf DEF Fault, SafeInv, PackageTypeOK, TypeOK
<1>1. /\ UNCHANGED <<late, now, objects, stray>> /\ local[w].pc = "reclaim"
      /\ \/ /\ row' = [row EXCEPT !.lease = <<w, None>>, !.until = local[w].t + LeaseTime]
            /\ local' = [local EXCEPT ![w] = l]
         \/ UNCHANGED row /\ Done(w)
  BY <1>0 DEF Reclaim, Setting, At
<1>2. l.pc = "collect" /\ l.doomed = all /\ l.seen = local[w].seen /\ l.pending = local[w].pending /\ l.previous = local[w].previous
  BY <1>0 DEF Locals
<1> HIDE DEF l
<1>3. CASE UNCHANGED row /\ Done(w)
  BY <1>1, <1>3, NamesTidy DEF SameNames, Covering
<1>4. CASE /\ row' = [row EXCEPT !.lease = <<w, None>>, !.until = local[w].t + LeaseTime]
           /\ local' = [local EXCEPT ![w] = l]
  <2>1. /\ row'.r2 = row.r2 /\ row'.previous = row.previous /\ row'.status = row.status /\ row'.pending = row.pending
        /\ row'.lease = <<w, None>>
    BY <1>4, FieldsOf DEF Rows
  <2>2. NoNewLease
    BY <2>1, LeaseGoes
  <2>3. /\ Moves(w) /\ local'[w].pc = "collect" /\ local'[w].doomed = all /\ local'[w].seen = local[w].seen
        /\ local'[w].pending = local[w].pending /\ local'[w].previous = local[w].previous
    BY <1>2, <1>4, PutMoves
  <2>4. Clean(w)
    BY <1>1, <2>1, <2>2, <2>3, RowIsClean DEF Covering, Referenced
  <2>5. None \notin DOMAIN objects
    BY DEF SafeInv, PackageTypeOK, TypeOK, Keys, None
  <2>6. ClearSound(w)'
    BY <1>1, <2>3, <2>5 DEF ClearSound, Purging, Retiring, Emptied
  <2>7. AimSound(w)' /\ NewSound(w)'
    BY <2>3 DEF AimSound, NewSound, Aiming, Fresh, Building
  <2> QED BY <2>4, <2>6, <2>7, CleanIsTidy DEF Shed
<1> QED BY <1>1, <1>3, <1>4

LEMMA ReconcileTidy ==
    ASSUME VaultAssumption, SafeInv, SafeInv', Tidy, NEW w \in Worker, Reconcile(w), UNCHANGED <<late, faults>>
    PROVE  Tidy'
<1>0. ~Fault
  BY DEF Fault, SafeInv, PackageTypeOK, TypeOK
<1>1. /\ UNCHANGED <<late, now, objects, stray>> /\ local[w].pc = "reconciled" /\ Done(w)
      /\ \/ /\ SameReferences(w)
            /\ row' = [row EXCEPT !.pending = None, !.previous = None, !.lease = Free, !.until = 0]
         \/ UNCHANGED row
  BY <1>0 DEF Reconcile, Setting, At
<1>2. CASE UNCHANGED row
  BY <1>1, <1>2, NamesTidy DEF SameNames, Covering
<1>3. CASE SameReferences(w) /\ row' = [row EXCEPT !.pending = None, !.previous = None, !.lease = Free, !.until = 0]
  <2>1. /\ row'.r2 = row.r2 /\ row'.previous = None /\ row'.status = row.status /\ row'.pending = None
        /\ row'.lease = Free
    BY <1>3, FieldsOf DEF Rows
  <2>2. NoNewLease
    BY <2>1, LeaseGoes
  <2>3. /\ local[w].doomed = {}
        /\ \A k \in {local[w].pending, local[w].previous} \ ({local[w].seen} \union local[w].doomed) :
              k \in DOMAIN objects => k \in stray
    BY <1>1 DEF Tidy, Shed, ClearSound, Emptied
  <2>4. \A k \in DOMAIN objects : k \in Referenced => k \in Referenced' \union stray
    BY <1>3, <2>1, <2>3 DEF Referenced, SameReferences
  <2> QED BY <1>1, <2>1, <2>2, <2>4, RowDoneTidy DEF Covering
<1> QED BY <1>1, <1>2, <1>3

LEMMA CondemnTidy ==
    ASSUME VaultAssumption, SafeInv, SafeInv', Tidy, NEW w \in Worker, Condemn(w), UNCHANGED <<late, faults>>
    PROVE  Tidy'
<1>0. ~Fault
  BY DEF Fault, SafeInv, PackageTypeOK, TypeOK
<1>1. /\ UNCHANGED <<late, now, objects, stray>> /\ local[w].pc = "condemn"
      /\ \/ row.status = "live" /\ row' = [row EXCEPT !.status = "expired"] /\ Goto(w, "shred")
         \/ UNCHANGED row /\ Goto(w, "confirm")
  BY <1>0 DEF Condemn, Setting, At, Live
<1>2. SameNames /\ (row.status \in {"building", "failed"} => row'.status = row.status)
  BY <1>1, FieldsOf DEF Rows, SameNames
<1>3. /\ Moves(w) /\ local'[w].pc \in {"shred", "confirm"} /\ local'[w].key = local[w].key /\ local'[w].seen = local[w].seen
      /\ local'[w].pending = local[w].pending /\ local'[w].previous = local[w].previous
      /\ local'[w].doomed = local[w].doomed
  BY <1>1, GotoMoves
<1>4. Shed(w)'
  BY <1>1, <1>2, <1>3, ShedMoves DEF Aiming, Fresh, Emptied, Purging, Retiring, Building
<1>5. \A k : ~Covers(w, k)
  BY <1>1, PlainCovers DEF Covering
<1>6. Clean(w)
  BY <1>1, <1>2, <1>3, <1>5, QuietIsClean
<1> QED BY <1>4, <1>6, CleanIsTidy

\* The purge of a row all of whose objects are deleted.
LEMMA EmptyTidy ==
    ASSUME VaultAssumption, SafeInv, SafeInv', Tidy, NEW w \in Worker, MarkPurged(w) \/ RetirePackage(w), UNCHANGED <<late, faults>>
    PROVE  Tidy'
<1>0. ~Fault
  BY DEF Fault, SafeInv, PackageTypeOK, TypeOK
<1>1. /\ UNCHANGED <<late, now, objects, stray>> /\ local[w].pc \in {"purged", "retire"} /\ Done(w)
      /\ \/ \E s : /\ row' = [row EXCEPT !.status = s, !.r2 = None, !.pending = None, !.previous = None, !.lease = Free, !.until = 0]
                   /\ row.status \notin {"building", "failed"}
         \/ UNCHANGED row
  <2>1. CASE MarkPurged(w)
    <3>1. row.status \notin {"building", "failed"}
      BY <2>1 DEF MarkPurged, At, SafeInv, Sound, PurgeSound, Purging
    <3> QED BY <1>0, <2>1, <3>1 DEF MarkPurged, Setting, At
  <2>2. CASE RetirePackage(w)
    BY <1>0, <2>2 DEF RetirePackage, Setting, At, PurgeLeased, Live
  <2> QED BY <2>1, <2>2
<1>2. CASE UNCHANGED row
  BY <1>1, <1>2, NamesTidy DEF SameNames, Covering
<1>3. ASSUME NEW s, row' = [row EXCEPT !.status = s, !.r2 = None, !.pending = None, !.previous = None, !.lease = Free, !.until = 0],
             row.status \notin {"building", "failed"}
      PROVE  Tidy'
  <2>1. row'.r2 = None /\ row'.previous = None /\ row'.pending = None /\ row'.lease = Free
    BY <1>3, FieldsOf DEF Rows
  <2>2. NoNewLease
    BY <2>1, LeaseGoes
  <2>3. \A k \in Referenced : k \in DOMAIN objects => k \in stray
    BY <1>1 DEF Tidy, Shed, ClearSound, Emptied, Purging, Retiring
  <2> QED BY <1>1, <1>3, <2>1, <2>2, <2>3, RowDoneTidy DEF Covering
<1> QED BY <1>1, <1>2, <1>3

LEMMA RequestTidy ==
    ASSUME VaultAssumption, SafeInv, SafeInv', Tidy, NEW w \in Worker, RequestPackage(w), UNCHANGED faults
    PROVE  Tidy'
<1>0. ~Fault
  BY DEF Fault, SafeInv, PackageTypeOK, TypeOK
<1>1. /\ UNCHANGED <<late, now, objects, stray>> /\ local[w].pc = "idle" /\ row.status = "absent"
      /\ row' = [row EXCEPT !.status = "building"] /\ Goto(w, "select")
  BY <1>0 DEF RequestPackage, Unrelated, At
<1>2. SameNames
  BY <1>1, FieldsOf DEF Rows, SameNames
<1>3. Moves(w) /\ local'[w].pc = "select"
  BY <1>1, GotoMoves
<1>4. \A k : ~Covers(w, k)
  BY <1>1, PlainCovers DEF Covering
<1>5. Clean(w)
  BY <1>1, <1>2, <1>3, <1>4, QuietIsClean
<1> QED BY <1>3, <1>5, StarterShed, CleanIsTidy

\* A publication names the package, or leaves it to be settled.
LEMMA PublishTidy ==
    ASSUME VaultAssumption, SafeInv, SafeInv', Tidy, NEW w \in Worker, Publish(w), UNCHANGED faults
    PROVE  Tidy'
<1>0. ~Fault
  BY DEF Fault, SafeInv, PackageTypeOK, TypeOK
<1> DEFINE request == [key |-> local[w].key, epoch |-> local[w].to, t |-> local[w].t]
<1>1. /\ UNCHANGED <<now, objects, stray>> /\ local[w].pc = "publish"
      /\ \/ row.status = "building" /\ PublishRow(local[w].key, local[w].to, local[w].t) /\ Done(w) /\ UNCHANGED late
         \/ UNCHANGED row /\ Goto(w, "fail") /\ late' \in {late, request}
  BY <1>0 DEF Publish, Publishable, Unrelated, At
<1>2. row.status = "building" /\ late = NoLate
  BY <1>1 DEF SafeInv, Sound, BuildSound, Building, Discarding
<1>3. CASE PublishRow(local[w].key, local[w].to, local[w].t) /\ Done(w) /\ UNCHANGED late
  <2>1. PICK j : j = local[w].key
    OBVIOUS
  <2>2. ~Current(j)
    BY <1>1, <2>1 DEF SafeInv, Sound, NameSound, Unsaid, Named, Current, Referenced
  <2>3. row'.r2 = j
    BY <1>3, <2>1, FieldsOf DEF PublishRow, Rows
  <2>4. Referenced = {None} /\ None \notin DOMAIN objects
    BY <1>2 DEF SafeInv, RowsSound, RowInv, Referenced, PackageTypeOK, TypeOK, Keys, None
  <2>5. j \in Referenced'
    BY <2>3 DEF Referenced
  <2>6. \A k \in DOMAIN objects' : \/ k \in Referenced' \union stray' \/ Covers(w, k)'
                                   \/ k \in DOMAIN objects /\ k \notin Referenced /\ ~Covers(w, k)
    BY <1>1, <2>1, <2>4, <2>5 DEF Covers
  <2>7. Moves(w) /\ Shed(w)'
    BY <1>3, IdleShed
  <2>8. Clean(w)
    BY <1>1, <1>2, <1>3, <2>2, <2>3, <2>6, <2>7 DEF Clean, Building
  <2> QED BY <2>7, <2>8, CleanIsTidy
<1>4. CASE UNCHANGED row /\ Goto(w, "fail") /\ late' \in {late, request}
  <2>1. /\ Moves(w) /\ local'[w].pc = "fail" /\ local'[w].key = local[w].key /\ local'[w].seen = local[w].seen
        /\ local'[w].pending = local[w].pending /\ local'[w].previous = local[w].previous
        /\ local'[w].doomed = local[w].doomed
    BY <1>4, GotoMoves
  <2>2. late' = late \/ late'.key = local[w].key
    BY <1>4
  <2>3. SameNames
    BY <1>4 DEF SameNames
  <2>4. Shed(w)'
    BY <1>1, <2>1, <2>2, <2>3, ShedMoves DEF Aiming, Fresh, Emptied, Purging, Retiring, Building
  <2>5. \A k \in DOMAIN objects' : Covers(w, k) => Covers(w, k)'
    BY <1>2, <1>4, <2>1 DEF Covers
  <2>6. Clean(w)
    BY <1>1, <1>4, <2>1, <2>3, <2>5, QuietIsClean DEF Building
  <2> QED BY <2>4, <2>6, CleanIsTidy
<1> QED BY <1>1, <1>3, <1>4

LEMMA FailTidy ==
    ASSUME VaultAssumption, SafeInv, SafeInv', Tidy, NEW w \in Worker, FailPackage(w), UNCHANGED faults
    PROVE  Tidy'
<1>0. ~Fault
  BY DEF Fault, SafeInv, PackageTypeOK, TypeOK
<1>1. /\ UNCHANGED <<late, now, objects, stray>> /\ local[w].pc = "fail"
      /\ row' = IF row.status = "building" THEN [row EXCEPT !.status = "failed"] ELSE row
      /\ IF local[w].key = None THEN Done(w) ELSE Goto(w, "settle")
  BY <1>0 DEF FailPackage, Unrelated, At
<1>2. /\ SameNames /\ (row.status # "building" => row'.status = row.status)
      /\ (row.status = "building" => row'.status = "failed")
  BY <1>1, FieldsOf DEF Rows, SameNames
<1>3. None \notin DOMAIN objects
  BY DEF SafeInv, PackageTypeOK, TypeOK, Keys, None
<1>4. CASE local[w].key = None
  <2>1. Moves(w) /\ Shed(w)'
    BY <1>1, <1>4, IdleShed
  <2>2. \A k \in DOMAIN objects' : ~Covers(w, k)
    BY <1>1, <1>3, <1>4 DEF Covers
  <2>3. Clean(w)
    BY <1>1, <1>2, <2>1, <2>2, QuietIsClean DEF Building
  <2> QED BY <2>1, <2>3, CleanIsTidy
<1>5. CASE local[w].key # None
  <2>1. /\ Moves(w) /\ local'[w].pc = "settle" /\ local'[w].key = local[w].key /\ local'[w].seen = local[w].seen
        /\ local'[w].pending = local[w].pending /\ local'[w].previous = local[w].previous
        /\ local'[w].doomed = local[w].doomed
    BY <1>1, <1>5, GotoMoves
  <2>2. Shed(w)'
    BY <1>1, <1>2, <2>1, ShedMoves DEF Aiming, Fresh, Emptied, Purging, Retiring, Building
  <2>3. \A k \in DOMAIN objects' : Covers(w, k) => Covers(w, k)'
    BY <1>1, <1>2, <2>1 DEF Covers
  <2>4. Clean(w)
    BY <1>1, <1>2, <2>1, <2>3, QuietIsClean DEF Building
  <2> QED BY <2>2, <2>4, CleanIsTidy
<1> QED BY <1>4, <1>5

LEMMA ClaimPurgeTidy ==
    ASSUME VaultAssumption, SafeInv, SafeInv', Tidy, NEW w \in Worker, ClaimPurge(w), UNCHANGED faults
    PROVE  Tidy'
<1>0. ~Fault
  BY DEF Fault, SafeInv, PackageTypeOK, TypeOK
<1>1. /\ UNCHANGED <<late, now, objects, stray>> /\ local[w].pc = "claimPurge"
      /\ \/ row' = [row EXCEPT !.lease = <<w, None>>, !.until = local[w].t + LeaseTime] /\ Goto(w, "shredPackage")
         \/ UNCHANGED row /\ Done(w)
  BY <1>0 DEF ClaimPurge, Setting, At
<1>2. CASE UNCHANGED row /\ Done(w)
  BY <1>1, <1>2, NamesTidy DEF SameNames, Covering
<1>3. CASE row' = [row EXCEPT !.lease = <<w, None>>, !.until = local[w].t + LeaseTime] /\ Goto(w, "shredPackage")
  <2>1. /\ row'.r2 = row.r2 /\ row'.previous = row.previous /\ row'.status = row.status /\ row'.pending = row.pending
        /\ row'.lease = <<w, None>>
    BY <1>3, FieldsOf DEF Rows
  <2>2. NoNewLease
    BY <2>1, LeaseGoes
  <2>3. Moves(w) /\ local'[w].pc = "shredPackage" /\ local'[w].doomed = local[w].doomed
    BY <1>3, GotoMoves
  <2>4. Referenced' = Referenced
    BY <2>1 DEF Referenced
  <2>5. Clean(w)
    BY <1>1, <2>1, <2>2, <2>3, <2>4, RowIsClean DEF Covering
  <2>6. \A k \in Referenced' : k \in DOMAIN objects' => k \in local'[w].doomed \union stray'
    BY <1>1, <2>3, <2>4 DEF Tidy, Shed, ClearSound, Retiring
  <2>7. \A v \in Worker, k \in Keys : row'.lease # <<v, k>>
    BY <2>1 DEF Keys, None
  <2>8. ClearSound(w)'
    BY <2>3, <2>6, <2>7 DEF ClearSound, Emptied
  <2>9. AimSound(w)' /\ NewSound(w)'
    BY <2>3 DEF AimSound, NewSound, Aiming, Fresh, Building
  <2> QED BY <2>5, <2>8, <2>9, CleanIsTidy DEF Shed
<1> QED BY <1>1, <1>2, <1>3

LEMMA UnlockTidy ==
    ASSUME VaultAssumption, SafeInv, SafeInv', Tidy, NEW w \in Worker, UnlockPackage(w), UNCHANGED faults
    PROVE  Tidy'
<1>1. /\ UNCHANGED <<late, now, objects, stray>> /\ local[w].pc = "unlock" /\ Done(w)
      /\ row' \in {row, [row EXCEPT !.lease = Free, !.until = 0]}
  BY DEF UnlockPackage, Setting, At
<1>2. /\ row'.r2 = row.r2 /\ row'.previous = row.previous /\ row'.status = row.status /\ row'.pending = row.pending
      /\ row'.lease = Free \/ (row'.lease = row.lease /\ row'.until = row.until)
  BY <1>1, FieldsOf DEF Rows
<1>3. NoNewLease
  BY <1>2, LeaseGoes
<1> QED BY <1>1, <1>2, <1>3, RowDoneTidy DEF Covering, Referenced

LEMMA SetHoldTidy ==
    ASSUME VaultAssumption, SafeInv, SafeInv', Tidy, NEW w \in Worker, SetHold(w), UNCHANGED late
    PROVE  Tidy'
<1>1. UNCHANGED <<row, late, now, objects, stray>> /\ local[w].pc = "hold" /\ Done(w)
  BY DEF SetHold, Data, At
<1> QED BY <1>1, NamesTidy DEF SameNames, Covering

\* Time passes, and what else goes on around the workers.
LEMMA StillTidy ==
    ASSUME SafeInv, Tidy, UNCHANGED <<row, late, objects, stray, local>>, now' \in Nat, now <= now'
    PROVE  Tidy'
<1>1. now \in Nat /\ row.until \in Nat
  BY FieldsOf DEF SafeInv, PackageTypeOK, TypeOK
<1>2. Covered'
  BY DEF Tidy, Covered, Covers, Referenced
<1>3. ASSUME NEW w \in Worker PROVE Shed(w)'
  <2>1. Shed(w)
    BY DEF Tidy
  <2>2. AimSound(w)' /\ NewSound(w)'
    BY <2>1 DEF Shed, AimSound, NewSound
  <2>3. ClearSound(w)'
    BY <1>1, <2>1 DEF Shed, ClearSound, Referenced
  <2> QED BY <2>2, <2>3 DEF Shed
<1> QED BY <1>2, <1>3 DEF Tidy

LEMMA WorldTidy ==
    ASSUME VaultAssumption, SafeInv, Tidy, UNCHANGED crashes,
           (World /\ UNCHANGED late) \/ SelectionChanges
    PROVE  Tidy'
<1>1. now \in Nat /\ crashes \in Nat
  BY DEF SafeInv, PackageTypeOK, TypeOK
<1>2. UNCHANGED <<row, late, objects, stray, local>> /\ now' \in {now, now + 1}
  BY <1>1 DEF World, ReleaseHold, Tick, CloseAssessment, NewKey, Crash, SelectionChanges, Data, Setting
<1> QED BY <1>1, <1>2, StillTidy

\* A publication that arrives late is of the object its builder still holds.
LEMMA LatePublicationTidy ==
    ASSUME VaultAssumption, SafeInv, SafeInv', Tidy, LatePublication
    PROVE  Tidy'
<1>1. /\ UNCHANGED <<now, objects, stray, local>> /\ late # NoLate /\ late' = NoLate
      /\ \/ UNCHANGED row
         \/ row.status = "building" /\ PublishRow(late.key, late.epoch, late.t)
  BY DEF LatePublication, Publishable, Unrelated
<1>2. CASE UNCHANGED row
  <2>1. Covered'
    BY <1>1, <1>2 DEF Tidy, Covered, Covers, Referenced
  <2>2. ASSUME NEW w \in Worker PROVE Shed(w)'
    BY <1>1, <1>2 DEF Tidy, Shed, AimSound, NewSound, ClearSound, Referenced
  <2> QED BY <2>1, <2>2 DEF Tidy
<1>3. CASE row.status = "building" /\ PublishRow(late.key, late.epoch, late.t)
  <2>1. /\ row'.r2 = late.key /\ row'.previous = row.previous /\ row'.pending = row.pending
        /\ row'.lease = row.lease /\ row'.until = row.until
    BY <1>3, FieldsOf DEF PublishRow, Rows
  <2>2. Referenced = {None} /\ row.previous = None /\ None \notin DOMAIN objects
    BY <1>3 DEF SafeInv, RowsSound, RowInv, Referenced, PackageTypeOK, TypeOK, Keys, None
  <2>3. ASSUME NEW w \in Worker PROVE Shed(w)'
    <3>1. Shed(w) /\ local[w].pc \notin Purging \union Retiring
      BY <1>3 DEF Tidy, SafeInv, Sound, PurgeSound
    <3>2. AimSound(w)' /\ NewSound(w)'
      BY <1>1, <2>1, <2>2, <3>1 DEF Shed, AimSound, NewSound
    <3>3. ClearSound(w)'
      BY <1>1, <3>1 DEF Shed, ClearSound, Emptied, Purging, Retiring
    <3> QED BY <3>2, <3>3 DEF Shed
  <2>4. ASSUME NEW k \in DOMAIN objects, k \notin stray
        PROVE  k \in Referenced' \/ \E w \in Worker : Covers(w, k)'
    <3>1. PICK w \in Worker : Covers(w, k)
      BY <2>2, <2>4 DEF Tidy, Covered
    <3>2. CASE local[w].pc = "fail"
      <4>1. local[w].key = late.key
        BY <1>1, <3>2 DEF Tidy, Shed, NewSound, Building
      <4> QED BY <2>1, <3>1, <4>1 DEF Covers, Referenced
    <3>3. CASE local[w].pc # "fail"
      <4>1. local[w].key = k /\ local[w].pc \in {"insert", "undo", "publish"}
        BY <1>3, <3>1, <3>3 DEF Covers
      <4> QED BY <1>1, <4>1 DEF Covers
    <3> QED BY <3>2, <3>3
  <2> QED BY <1>1, <2>3, <2>4 DEF Tidy, Covered
<1> QED BY <1>1, <1>2, <1>3

LEMMA SharedStepTidy ==
    ASSUME VaultAssumption, SafeInv, SafeInv', Tidy, NEW w \in Worker, Rotate(w) \/ CleanUp(w), UNCHANGED <<late, faults>>
    PROVE  Tidy'
BY SelectRotationTidy, ClaimTidy, ReadTidy, CopyTidy, AbandonTidy, ReleaseTidy, SwitchTidy, DeleteTidy, DropTidy,
   ClearTidy, StartTidy, ReclaimTidy, DeletingTidy, ReconcileTidy
   DEF Rotate, CleanUp

LEMMA EvidenceStepTidy ==
    ASSUME VaultAssumption, SafeInv, SafeInv', Tidy, NEW w \in Worker, Step(w), UNCHANGED <<late, faults>>
    PROVE  Tidy'
<1>1. CASE Store(w) \/ Reviewing(w)
  BY <1>1, StartTidy, PutTidy, InsertTidy, DeleteTidy, StatusTidy DEF Store, Reviewing
<1>2. CASE Rotate(w) \/ CleanUp(w)
  BY <1>2, SharedStepTidy
<1>3. CASE Purge(w) \/ Hold(w)
  BY <1>3, DoomsTidy, CondemnTidy, ReadTidy, DeletingTidy, EmptyTidy, StartTidy, SetHoldTidy DEF Purge, Hold
<1> QED BY <1>1, <1>2, <1>3 DEF Step

LEMMA PackageStepTidy ==
    ASSUME VaultAssumption, SafeInv, SafeInv', Tidy, NEW w \in Worker, PackageStep(w), UNCHANGED faults
    PROVE  Tidy'
<1>1. CASE Build(w)
  <2>1. PutPackage(w) \/ DiscardCandidate(w) => UNCHANGED late
    BY DEF PutPackage, DiscardCandidate
  <2> QED BY <1>1, <2>1, RequestTidy, SelectEvidenceTidy, PutTidy, PublishTidy, FailTidy, SettleTidy, DeleteTidy DEF Build
<1>2. CASE RotatePackage(w) \/ CleanUpPackage(w)
  BY <1>2, SharedStepTidy DEF RotatePackage, CleanUpPackage
<1>3. CASE Retire(w)
  <2>1. SelectExpiredPackage(w) \/ ShredPackage(w) \/ RetirePackage(w) => UNCHANGED late
    BY DEF SelectExpiredPackage, ShredPackage, RetirePackage
  <2> QED BY <1>3, <2>1, DoomsTidy, ClaimPurgeTidy, DeletingTidy, UnlockTidy, EmptyTidy DEF Retire
<1> QED BY <1>1, <1>2, <1>3 DEF PackageStep

\* Faults and crashes are counted and never forgotten.
LEMMA EvidenceCounts ==
    ASSUME NEW w, Step(w)
    PROVE  (faults' = faults \/ faults' = faults + 1) /\ crashes' = crashes
<1>1. CASE Store(w) \/ Reviewing(w)
  BY <1>1 DEF Store, Reviewing, CheckAssessment, LookUp, PutEvidence, InsertEvidence, UndoPut, RenewEvidence, MarkStale,
              BeginReview, Review, Fault, NoFault, Setting
<1>2. CASE Rotate(w)
  BY <1>2 DEF Rotate, SelectRotation, ClaimRotation, ReadObject, CopyObject, AbandonCopy, ReleaseClaim, BindSwitch,
              SwitchObject, Classify, DeleteLoser, DropPrevious, ClearPrevious, Fault, NoFault, Setting
<1>3. CASE CleanUp(w) \/ Purge(w) \/ Hold(w)
  BY <1>3 DEF CleanUp, Purge, Hold, SelectGarbage, Reclaim, Collect, Reconcile, SelectExpired, Condemn, Confirm, Shred,
              DeleteNext, MarkPurged, BeginHold, SetHold, Fault, NoFault, Setting
<1> QED BY <1>1, <1>2, <1>3 DEF Step

LEMMA PackageCounts ==
    ASSUME NEW w, PackageStep(w)
    PROVE  (faults' = faults \/ faults' = faults + 1) /\ crashes' = crashes
<1>1. CASE Build(w)
  BY <1>1 DEF Build, RequestPackage, SelectEvidence, PutPackage, Publish, FailPackage, SettlePublication, ProveLoser,
              DiscardCandidate, Fault, NoFault, Unrelated
<1>2. CASE RotatePackage(w) \/ CleanUpPackage(w)
  BY <1>2, EvidenceCounts DEF RotatePackage, CleanUpPackage, Step
<1>3. CASE Retire(w)
  BY <1>3 DEF Retire, SelectExpiredPackage, ClaimPurge, ShredPackage, UnlockPackage, RetirePackage, Fault, NoFault, Setting
<1> QED BY <1>1, <1>2, <1>3 DEF PackageStep

LEMMA WorldCounts ==
    ASSUME World \/ SelectionChanges \/ LatePublication
    PROVE  faults' = faults /\ (crashes' = crashes \/ crashes' = crashes + 1)
BY DEF World, ReleaseHold, Tick, CloseAssessment, NewKey, Crash, SelectionChanges, LatePublication, Setting, Unrelated

\* Every step in which nothing fails keeps what is said of the objects.
LEMMA NextIsTidy ==
    ASSUME VaultAssumption, SafeInv, SafeInv', OrphanInv, [PackageNext]_pvars
    PROVE  OrphanInv'
<1> SUFFICES ASSUME faults' = 0, crashes' = 0 PROVE Tidy'
  BY DEF OrphanInv
<1>1. faults \in Nat /\ crashes \in Nat
  BY DEF SafeInv, PackageTypeOK, TypeOK
<1>2. CASE UNCHANGED pvars
  <2>1. UNCHANGED <<row, late, objects, stray, local, now, faults, crashes>> /\ now' \in Nat /\ now <= now'
    BY <1>2 DEF pvars, vars, SafeInv, PackageTypeOK, TypeOK
  <2>2. Tidy
    BY <2>1 DEF OrphanInv
  <2> QED BY <2>1, <2>2, StillTidy
<1>3. CASE UNCHANGED late /\ \E w \in Worker : Step(w)
  <2>1. PICK w \in Worker : Step(w)
    BY <1>3
  <2>2. (faults' = faults \/ faults' = faults + 1) /\ crashes' = crashes
    BY <2>1, EvidenceCounts
  <2>3. UNCHANGED faults /\ Tidy
    BY <1>1, <2>2 DEF OrphanInv
  <2> QED BY <1>3, <2>1, <2>3, EvidenceStepTidy
<1>4. CASE \E w \in Worker : PackageStep(w)
  <2>1. PICK w \in Worker : PackageStep(w)
    BY <1>4
  <2>2. (faults' = faults \/ faults' = faults + 1) /\ crashes' = crashes
    BY <2>1, PackageCounts
  <2>3. UNCHANGED faults /\ Tidy
    BY <1>1, <2>2 DEF OrphanInv
  <2> QED BY <2>1, <2>3, PackageStepTidy
<1>5. CASE (World /\ UNCHANGED late) \/ SelectionChanges \/ LatePublication
  <2>1. faults' = faults /\ (crashes' = crashes \/ crashes' = crashes + 1)
    BY <1>5, WorldCounts
  <2>2. UNCHANGED crashes /\ Tidy
    BY <1>1, <2>1 DEF OrphanInv
  <2> QED BY <1>5, <2>2, WorldTidy, LatePublicationTidy
<1> QED BY <1>2, <1>3, <1>4, <1>5 DEF PackageNext, Next

LEMMA InitIsTidy ==
    ASSUME VaultAssumption, PackageInit
    PROVE  OrphanInv
<1>1. objects = <<>> /\ local = [w \in Worker |-> Idle]
  BY DEF PackageInit, Init
<1>2. DOMAIN objects = {} /\ \A w \in Worker : local[w].pc = "idle"
  BY <1>1, IdleIs
<1>3. \A w \in Worker : Shed(w)
  BY <1>2 DEF Shed, AimSound, ClearSound, NewSound, Aiming, Fresh, Emptied, Purging, Retiring, Building
<1> QED BY <1>2, <1>3 DEF OrphanInv, Tidy, Covered

LEMMA TidyIsKept ==
    ASSUME OrphanInv
    PROVE  NoOrphan
<1> SUFFICES ASSUME \A w \in Worker : At(w, "idle"), faults = 0, crashes = 0
             PROVE  DOMAIN objects \subseteq Referenced \union stray
  BY DEF NoOrphan
<1>1. \A w \in Worker, k \in DOMAIN objects : ~Covers(w, k)
  BY DEF At, Covers
<1> QED BY <1>1 DEF OrphanInv, Tidy, Covered

\* As long as no call fails and no worker dies, no interleaving of storeEvidence,
\* rotateEvidenceObject, reconcileRotationGarbage, the purges and
\* buildAssessorPackage leaves an object that the row does not name, but those
\* written by a rotation that outlived its lease.
THEOREM OrphanCorrect == PackageSpec => []NoOrphan
<1>1. PackageInit => OrphanInv
  BY VaultAssumption, InitIsTidy
<1>2. SafeInv /\ SafeInv' /\ OrphanInv /\ [PackageNext]_pvars => OrphanInv'
  BY VaultAssumption, NextIsTidy
<1>3. OrphanInv => NoOrphan
  BY TidyIsKept
<1> QED BY <1>1, <1>2, <1>3, SafeCorrect, PTL DEF PackageSpec
=============================================================================
