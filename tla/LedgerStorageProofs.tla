------------------------ MODULE LedgerStorageProofs ------------------------
(***************************************************************************)
(* Proofs that the snapshot files of the permission ledger (LedgerStorage) *)
(* are good for a load at every moment: whatever leases the browser        *)
(* offers, whichever file operations fail, wherever a process dies, and    *)
(* however often a file is damaged or the clock set back.                  *)
(***************************************************************************)
EXTENDS LedgerStorage, SequenceTheorems, WellFoundedInduction, TLAPS

----------------------------------------------------------------------------
(* What is left of a sequence                                              *)

\* A set of natural numbers that is not empty has a least one.
LEMMA LeastOf ==
  ASSUME NEW U, U \subseteq Nat, U # {}
  PROVE  \E m \in U : \A k \in U : m <= k
  <1> DEFINE R == {ss \in Nat \X Nat : ss[1] < ss[2]}
  <1>1. IsWellFoundedOn(R, Nat)
    BY NatLessThanWellFounded DEF OpToRel
  <1>2. PICK m \in U : \A k \in U : ~(<<k, m>> \in R)
    <2> HIDE DEF R
    <2> QED
      BY <1>1, WFMin
  <1>3. ASSUME NEW k \in U PROVE m <= k
    <2>1. <<k, m>> \in Nat \X Nat /\ k \in Nat /\ m \in Nat
      OBVIOUS
    <2>2. ~(k < m)
      BY <1>2, <2>1
    <2> QED
      BY <2>1, <2>2
  <1> QED
    BY <1>3

\* Induction along a sequence: G[n] is where what is left of the first n elements
\* lies.
LEMMA FilteredLies ==
  ASSUME NEW s, Len(s) \in Nat, NEW T, NEW A, NEW G \in [0..Len(s) -> SUBSET A],
         <<>> \in G[0],
         \A i \in 1..Len(s) : \A r \in G[i - 1] :
           (IF s[i] \in T THEN Append(r, s[i]) ELSE r) \in G[i]
  PROVE  Filtered(s, T) \in G[Len(s)]
  <1> DEFINE n == Len(s)
             Step(g, i) == IF i = 0 THEN <<>>
                           ELSE IF s[i] \in T THEN Append(g[i - 1], s[i]) ELSE g[i - 1]
             Runs(k) == {g \in [0..k -> A] : \A i \in 0..k : g[i] = Step(g, i) /\ g[i] \in G[i]}
             U == {k \in 0..n : Runs(k) = {}}
  <1>1. n \in Nat
    OBVIOUS
  <1>2. U = {}
    <2> SUFFICES ASSUME U # {} PROVE FALSE
      OBVIOUS
    <2>1. U \subseteq Nat
      BY <1>1
    <2> HIDE DEF U
    <2>2. PICK m \in U : \A k \in U : m <= k
      BY <2>1, LeastOf
    <2> USE DEF U
    <2>3. m \in 0..n /\ Runs(m) = {}
      OBVIOUS
    <2>4. CASE m = 0
      <3> DEFINE g == [i \in 0..0 |-> <<>>]
      <3>1. g \in [0..0 -> A]
        BY <1>1
      <3>2. \A i \in 0..0 : g[i] = Step(g, i) /\ g[i] \in G[i]
        OBVIOUS
      <3>3. g \in Runs(0)
        BY <3>1, <3>2
      <3> QED
        BY <2>3, <2>4, <3>3
    <2>5. CASE m # 0
      <3>1. m - 1 \in 0..n /\ m - 1 \notin U /\ m \in 1..n
        <4>1. m \in Nat /\ m - 1 \in 0..n /\ m \in 1..n /\ ~(m <= m - 1)
          BY <1>1, <2>3, <2>5
        <4> HIDE DEF U
        <4> QED
          BY <2>2, <4>1
      <3>2. PICK g \in Runs(m - 1) : TRUE
        BY <3>1
      <3>3. /\ g \in [0..(m - 1) -> A]
            /\ \A i \in 0..(m - 1) : g[i] = Step(g, i) /\ g[i] \in G[i]
        BY <3>2
      <3> DEFINE h == [i \in 0..m |-> IF i = m THEN Step(g, m) ELSE g[i]]
      <3>4. Step(g, m) \in G[m] /\ Step(g, m) \in A
        <4>1. g[m - 1] \in G[m - 1] /\ m \in 1..Len(s) /\ m \in 0..Len(s)
          BY <3>1, <3>3
        <4>2. Step(g, m) \in G[m]
          BY <2>5, <4>1
        <4> QED
          BY <4>1, <4>2
      <3>5. h \in [0..m -> A]
        <4> HIDE DEF Step
        <4> QED
          BY <3>1, <3>3, <3>4
      <3>6. ASSUME NEW i \in 0..m PROVE h[i] = Step(h, i) /\ h[i] \in G[i]
        <4>1. CASE i = 0
          BY <2>5, <3>1, <3>3, <4>1
        <4>2. CASE i # 0
          <5>1. i - 1 \in 0..(m - 1) /\ i - 1 # m
            BY <3>1, <4>2
          <5>2. h[i - 1] = g[i - 1]
            BY <3>1, <5>1
          <5>3. h[i] = IF i = m THEN Step(g, m) ELSE g[i]
            BY <3>1
          <5>4. i # m => g[i] = Step(g, i) /\ g[i] \in G[i]
            <6>1. i # m => i \in 0..(m - 1)
              BY <3>1
            <6> HIDE DEF Step
            <6> QED
              BY <3>3, <6>1
          <5>5. h[i] = Step(g, i) /\ h[i] \in G[i]
            <6> HIDE DEF Step, h
            <6> QED
              BY <3>4, <5>3, <5>4
          <5> HIDE DEF h
          <5> QED
            BY <4>2, <5>2, <5>5
        <4> QED
          BY <4>1, <4>2
      <3>7. h \in Runs(m)
        <4> HIDE DEF h, Step
        <4> QED
          BY <3>5, <3>6
      <3> QED
        BY <2>3, <3>7
    <2> QED
      BY <2>4, <2>5
  <1>3. PICK g \in [0..n -> A] : \A i \in 0..n : g[i] = Step(g, i)
    <2>1. n \in 0..n
      BY <1>1
    <2>2. Runs(n) # {}
      <3> HIDE DEF Runs
      <3> QED
        BY <1>2, <2>1
    <2> HIDE DEF Step
    <2> QED
      BY <2>2
  <1> DEFINE Def(f) == [i \in 0..Len(s) |->
                         IF i = 0 THEN <<>>
                         ELSE IF s[i] \in T THEN Append(f[i - 1], s[i]) ELSE f[i - 1]]
             kept_ == CHOOSE f : f = Def(f)
  <1>4. g = Def(g)
    BY <1>3
  <1>5. kept_ = Def(kept_)
    <2> HIDE DEF Def
    <2> QED
      BY <1>4, Zenon
  <1>6. Filtered(s, T) = kept_[n]
    BY Zenon DEF Filtered
  <1> HIDE DEF kept_
  <1>7. \A i \in 0..n : kept_[i] = Step(kept_, i)
    BY <1>5
  <1> DEFINE V == {k \in 0..n : kept_[k] \notin G[k]}
  <1>8. V = {}
    <2> SUFFICES ASSUME V # {} PROVE FALSE
      OBVIOUS
    <2>1. V \subseteq Nat
      BY <1>1
    <2> HIDE DEF V
    <2>2. PICK m \in V : \A k \in V : m <= k
      BY <2>1, LeastOf
    <2> USE DEF V
    <2>3. m \in 0..n /\ kept_[m] \notin G[m] /\ kept_[m] = Step(kept_, m)
      BY <1>7
    <2>4. m # 0
      BY <2>3
    <2>5. m \in 1..n /\ m - 1 \in 0..n /\ ~(m <= m - 1)
      BY <1>1, <2>3, <2>4
    <2>6. m - 1 \notin V
      <3> HIDE DEF V
      <3> QED
        BY <2>2, <2>5
    <2>7. kept_[m - 1] \in G[m - 1]
      BY <2>5, <2>6
    <2> QED
      BY <2>3, <2>4, <2>5, <2>7
  <1>9. n \in 0..n
    BY <1>1
  <1> QED
    BY <1>6, <1>8, <1>9

DistinctIds(s) == \A i, j \in 1..Len(s) : s[i].id = s[j].id => i = j

\* What is left of leases are some of them, each once.
LEMMA FilteredLeases ==
  ASSUME NEW S, NEW s \in Seq(S), NEW T
  PROVE  /\ Filtered(s, T) \in Seq(S)
         /\ \A i \in 1..Len(Filtered(s, T)) :
              Filtered(s, T)[i] \in T /\ \E k \in 1..Len(s) : Filtered(s, T)[i] = s[k]
         /\ DistinctIds(s) => DistinctIds(Filtered(s, T))
  <1> DEFINE Lies(r, n) ==
               /\ r \in Seq(S)
               /\ \A i \in 1..Len(r) : r[i] \in T /\ \E k \in 1..n : r[i] = s[k]
               /\ DistinctIds(s) => DistinctIds(r)
             G == [n \in 0..Len(s) |-> {r \in Seq(S) : Lies(r, n)}]
  <1>1. Len(s) \in Nat /\ \A i \in 1..Len(s) : s[i] \in S
    OBVIOUS
  <1>2. Lies(<<>>, 0)
    BY DEF DistinctIds
  <1>3. ASSUME NEW n \in 1..Len(s), NEW r, Lies(r, n - 1)
        PROVE  Lies(IF s[n] \in T THEN Append(r, s[n]) ELSE r, n)
    <2>1. /\ r \in Seq(S) /\ Len(r) \in Nat
          /\ \A i \in 1..Len(r) : r[i] \in T /\ \E k \in 1..(n - 1) : r[i] = s[k]
          /\ DistinctIds(s) => DistinctIds(r)
      BY <1>3
    <2>2. \A i \in 1..Len(r) : r[i] \in T /\ \E k \in 1..n : r[i] = s[k]
      <3>1. 1..(n - 1) \subseteq 1..n
        BY <1>1
      <3> QED
        BY <2>1, <3>1
    <2>3. CASE s[n] \notin T
      BY <2>1, <2>2, <2>3
    <2>4. CASE s[n] \in T
      <3> DEFINE t == Append(r, s[n])
      <3>1. /\ t \in Seq(S) /\ Len(t) = Len(r) + 1
            /\ \A i \in 1..(Len(r) + 1) : t[i] = IF i = Len(r) + 1 THEN s[n] ELSE r[i]
        <4>1. r \in Seq(S) /\ s[n] \in S
          BY <1>1, <2>1
        <4> QED
          BY <4>1
      <3> HIDE DEF t
      <3>2. \A i \in 1..Len(t) : t[i] \in T /\ \E k \in 1..n : t[i] = s[k]
        <4>1. ASSUME NEW i \in 1..Len(t) PROVE t[i] \in T /\ \E k \in 1..n : t[i] = s[k]
          <5>1. CASE i = Len(r) + 1
            <6>1. t[i] = s[n] /\ n \in 1..n
              BY <1>1, <2>1, <3>1, <5>1
            <6> QED
              BY <2>4, <6>1
          <5>2. CASE i # Len(r) + 1
            <6>1. i \in 1..Len(r) /\ t[i] = r[i]
              BY <2>1, <3>1, <5>2
            <6> QED
              BY <2>2, <6>1
          <5> QED
            BY <5>1, <5>2
        <4> QED
          BY <4>1
      <3>3. ASSUME DistinctIds(s) PROVE DistinctIds(t)
        <4>1. ASSUME NEW i \in 1..Len(r) PROVE r[i].id # s[n].id
          <5>1. PICK k \in 1..(n - 1) : r[i] = s[k]
            BY <2>1
          <5>2. k \in 1..Len(s) /\ k # n
            BY <1>1
          <5> QED
            BY <3>3, <5>1, <5>2 DEF DistinctIds
        <4>2. ASSUME NEW i \in 1..Len(t), NEW j \in 1..Len(t), t[i].id = t[j].id PROVE i = j
          <5>1. CASE i = Len(r) + 1 /\ j \in 1..Len(r)
            BY <2>1, <3>1, <4>1, <4>2, <5>1
          <5>2. CASE j = Len(r) + 1 /\ i \in 1..Len(r)
            BY <2>1, <3>1, <4>1, <4>2, <5>2
          <5>3. CASE i \in 1..Len(r) /\ j \in 1..Len(r)
            <6>1. t[i] = r[i] /\ t[j] = r[j]
              BY <2>1, <3>1, <5>3
            <6> QED
              BY <2>1, <3>3, <4>2, <5>3, <6>1 DEF DistinctIds
          <5> QED
            BY <2>1, <3>1, <5>1, <5>2, <5>3
        <4> QED
          BY <4>2 DEF DistinctIds
      <3>4. Lies(t, n)
        BY <3>1, <3>2, <3>3
      <3> QED
        BY <2>4, <3>4 DEF t
    <2> QED
      BY <2>3, <2>4
  <1> HIDE DEF Lies
  <1>4. G \in [0..Len(s) -> SUBSET Seq(S)]
    OBVIOUS
  <1>5. <<>> \in G[0]
    BY <1>1, <1>2
  <1>6. ASSUME NEW n \in 1..Len(s), NEW r \in G[n - 1]
        PROVE  (IF s[n] \in T THEN Append(r, s[n]) ELSE r) \in G[n]
    <2>1. n - 1 \in 0..Len(s) /\ n \in 0..Len(s)
      BY <1>1
    <2>2. r \in Seq(S) /\ Lies(r, n - 1)
      BY <2>1
    <2>3. (IF s[n] \in T THEN Append(r, s[n]) ELSE r) \in Seq(S)
      BY <1>1, <2>2
    <2> QED
      BY <1>3, <2>1, <2>2, <2>3
  <1>7. Filtered(s, T) \in G[Len(s)]
    <2> HIDE DEF G
    <2> QED
      BY <1>1, <1>4, <1>5, <1>6, FilteredLies, Zenon
  <1>8. Len(s) \in 0..Len(s)
    BY <1>1
  <1>9. Lies(Filtered(s, T), Len(s))
    BY <1>7, <1>8
  <1> QED
    BY <1>9 DEF Lies

----------------------------------------------------------------------------
(***************************************************************************)
(* The inductive invariant.                                                *)
(*                                                                         *)
(* A file is one that a load accepts as long as it is intact and the clock *)
(* was not set back, so that what a save finds unfit was damaged or met a  *)
(* clock set back.  The primary is the last snapshot saved, if there is a  *)
(* primary; the backup may have missed as many saves as there were damages,*)
(* setbacks and misreads, and one more while the primary is fit for a load *)
(* and not about to go.                                                    *)
(***************************************************************************)

\* What of an issued lease is as it was offered.
Issued(l) == \E offer \in Offers :
  \A f \in {"id", "permission", "profile", "scope", "lifetime", "websites"} : l[f] = offer[f]

\* The hour of the lease l has begun, unless the clock was set back (back times).
Begun(l, now, back) == back = 0 /\ l.lifetime = "one_hour" => l.issued <= now

LedgerFine(s, now, back) ==
  /\ s \in Seq(AnyLease) /\ DistinctIds(s)
  /\ \A i \in 1..Len(s) : /\ Issued(s[i]) /\ Begun(s[i], now, back)
                          /\ ~s[i].revoked => ValidLease(s[i])

FileFine(file, now, back, damaged) == file # None =>
  /\ file \in [no : 1..MaxSaves, profile : {Profile}, leases : Seq(AnyLease), intact : BOOLEAN]
  /\ Len(file.leases) <= MaxLeases /\ DistinctIds(file.leases)
  /\ \A i \in 1..Len(file.leases) :
       /\ Issued(file.leases[i]) /\ Begun(file.leases[i], now, back)
       /\ ValidLease(file.leases[i]) /\ Durable(file.leases[i], 0)
  /\ ~file.intact => damaged > 0

CountersOK ==
  /\ clock \in 1..MaxClock /\ completed \in 0..MaxSaves /\ kept \in BOOLEAN
  /\ step \in {"down", "idle", "inspect", "backup", "remove", "discard", "rename"}
  /\ crashes \in 0..MaxCrashes /\ damages \in 0..MaxDamages
  /\ setbacks \in 0..MaxSetbacks /\ misreads \in 0..MaxMisreads

LedgerOK == LedgerFine(ledger, clock, setbacks)

FilesOK == /\ FileFine(primary, clock, setbacks, damages)
           /\ FileFine(backup, clock, setbacks, damages)
           /\ FileFine(temp, clock, setbacks, damages)

SaveOK ==
  /\ step \in {"inspect", "backup", "remove", "discard", "rename"} =>
       temp # None /\ temp.no = completed + 1 /\ Restorable(temp, clock)
  /\ kept => step \in {"backup", "rename"}
  /\ step = "backup" => kept /\ Restorable(primary, clock)
  /\ step = "remove" => primary # None /\ (primary.intact => setbacks > 0)
  /\ step = "discard" => primary # None /\ damages + setbacks + misreads > 0
  /\ step = "rename" /\ kept => primary = None /\ backup # None /\ backup.no = completed

RecentOK ==
  /\ primary # None => primary.no = completed
  /\ completed > 0 /\ damages + setbacks + misreads = 0 => primary # None \/ backup # None
  /\ backup # None =>
       /\ backup.no + damages + setbacks + misreads + 1 >= completed
       /\ ~Restorable(primary, clock) \/ step \in {"remove", "discard", "rename"} =>
            backup.no + damages + setbacks + misreads >= completed

StorageInv == CountersOK /\ LedgerOK /\ FilesOK /\ SaveOK /\ RecentOK

----------------------------------------------------------------------------
(* Leases and files                                                        *)

LEMMA Bounds ==
  /\ MaxLeases \in Nat /\ MaxClock \in Nat /\ MaxSaves \in Nat
  /\ MaxCrashes \in Nat /\ MaxDamages \in Nat /\ MaxSetbacks \in Nat /\ MaxMisreads \in Nat
  /\ Hour \in Nat /\ Hour > 0
  <1>1. {MaxLeases, MaxWebsites, MaxClock, MaxSaves, MaxCrashes,
         MaxDamages, MaxSetbacks, MaxMisreads} \subseteq Nat
    BY StorageAssumption, Zenon
  <1>2. /\ MaxLeases \in Nat /\ MaxClock \in Nat /\ MaxSaves \in Nat
        /\ MaxCrashes \in Nat /\ MaxDamages \in Nat /\ MaxSetbacks \in Nat /\ MaxMisreads \in Nat
    BY <1>1
  <1>3. Hour \in Nat /\ Hour > 0
    <2>1. Hour \in Nat \ {0}
      BY LedgerAssumption, Zenon
    <2> QED
      BY <2>1
  <1> QED
    BY <1>2, <1>3

LEMMA LeaseTimes == \A l \in AnyLease : l.issued \in Nat /\ l.expires \in Nat
  BY DEF AnyLease, Leases

\* None is no snapshot.
LEMMA SnapshotIsFile ==
  ASSUME NEW leases \in Seq(AnyLease), NEW no \in Nat
  PROVE  Snapshot(leases, no) # None
  <1>1. Profile \in STRING
    BY StorageAssumption, Zenon
  <1>2. Snapshot(leases, no) \in
          [no : Nat, profile : STRING, leases : Seq(AnyLease), intact : BOOLEAN]
    BY <1>1 DEF Snapshot
  <1>3. None \notin [no : Nat, profile : STRING, leases : Seq(AnyLease), intact : BOOLEAN]
    BY StorageAssumption, Zenon
  <1> QED
    BY <1>2, <1>3

\* What a file is fit for it stays fit for, as the clock goes on or is no longer to be
\* relied on.
LEMMA FileStaysFine ==
  ASSUME NEW f, NEW now \in Nat, NEW back \in Nat, NEW damaged \in Nat,
         FileFine(f, now, back, damaged),
         NEW later \in Nat, NEW back2 \in Nat, NEW damaged2 \in Nat,
         damaged <= damaged2, back2 = 0 => back = 0 /\ now <= later
  PROVE  FileFine(f, later, back2, damaged2)
  <1> SUFFICES ASSUME f # None PROVE FileFine(f, later, back2, damaged2)
    BY DEF FileFine
  <1>1. /\ f \in [no : 1..MaxSaves, profile : {Profile}, leases : Seq(AnyLease), intact : BOOLEAN]
        /\ Len(f.leases) <= MaxLeases /\ DistinctIds(f.leases)
        /\ \A i \in 1..Len(f.leases) :
             /\ Issued(f.leases[i]) /\ Begun(f.leases[i], now, back)
             /\ ValidLease(f.leases[i]) /\ Durable(f.leases[i], 0)
        /\ ~f.intact => damaged > 0
    BY DEF FileFine
  <1>2. f.leases \in Seq(AnyLease)
    BY <1>1
  <1>3. ASSUME NEW i \in 1..Len(f.leases) PROVE Begun(f.leases[i], later, back2)
    <2>1. f.leases[i] \in AnyLease /\ Begun(f.leases[i], now, back)
      BY <1>1, <1>2
    <2>2. f.leases[i].issued \in Nat
      BY <2>1, LeaseTimes
    <2> QED
      BY <2>1, <2>2 DEF Begun
  <1>4. ~f.intact => damaged2 > 0
    BY <1>1
  <1> QED
    BY <1>1, <1>3, <1>4 DEF FileFine

LEMMA RestorableStays ==
  ASSUME NEW f, NEW now \in Nat, NEW back, NEW damaged, FileFine(f, now, back, damaged),
         Restorable(f, now), NEW later \in Nat, now <= later
  PROVE  Restorable(f, later)
  <1>1. f # None /\ f.leases \in Seq(AnyLease) /\ DOMAIN f.leases = 1..Len(f.leases)
    BY DEF Restorable, Readable, FileFine
  <1>2. \A i \in 1..Len(f.leases) : f.leases[i].issued \in Nat
    <2>1. \A i \in 1..Len(f.leases) : f.leases[i] \in AnyLease
      BY <1>1
    <2> QED
      BY <2>1, LeaseTimes
  <1>3. ASSUME NEW i \in DOMAIN f.leases, f.leases[i].lifetime = "one_hour"
        PROVE  f.leases[i].issued <= later
    <2>1. f.leases[i].issued <= now /\ f.leases[i].issued \in Nat
      BY <1>1, <1>2, <1>3 DEF Restorable
    <2> QED
      BY <2>1
  <1> QED
    BY <1>3 DEF Restorable

\* A load accepts every file that is intact, while the clock only went on.
LEMMA IntactIsRestorable ==
  ASSUME NEW f, NEW now, NEW damaged, FileFine(f, now, 0, damaged), f # None, f.intact
  PROVE  Restorable(f, now)
  <1>1. f.leases \in Seq(AnyLease) /\ DOMAIN f.leases = 1..Len(f.leases) /\ f.profile = Profile
    BY DEF FileFine
  <1> QED
    BY <1>1 DEF FileFine, Restorable, Readable, Begun, DistinctIds

LEMMA LedgerStaysFine ==
  ASSUME NEW s, NEW now \in Nat, NEW back \in Nat, LedgerFine(s, now, back),
         NEW later \in Nat, NEW back2 \in Nat, back2 = 0 => back = 0 /\ now <= later
  PROVE  LedgerFine(s, later, back2)
  <1>1. s \in Seq(AnyLease) /\ \A i \in 1..Len(s) : Begun(s[i], now, back)
    BY DEF LedgerFine
  <1>2. ASSUME NEW i \in 1..Len(s) PROVE Begun(s[i], later, back2)
    <2>1. s[i] \in AnyLease /\ Begun(s[i], now, back)
      BY <1>1
    <2>2. s[i].issued \in Nat
      BY <2>1, LeaseTimes
    <2> QED
      BY <2>1, <2>2 DEF Begun
  <1> QED
    BY <1>2 DEF LedgerFine

\* A ledger that is empty, or that a load made of a file.
LEMMA EmptyLedgerFine == \A now, back : LedgerFine(<<>>, now, back)
  BY DEF LedgerFine, DistinctIds

LEMMA RestoredLedgerFine ==
  ASSUME NEW f, NEW now, NEW back, NEW damaged, FileFine(f, now, back, damaged), f # None
  PROVE  LedgerFine(Restored(f, now), now, back)
  <1> DEFINE T == {l \in Range(f.leases) : l.lifetime = "one_hour" => now < l.expires}
             r == Filtered(f.leases, T)
  <1>1. f.leases \in Seq(AnyLease) /\ DistinctIds(f.leases)
    BY DEF FileFine
  <1>2. /\ r \in Seq(AnyLease) /\ DistinctIds(r)
        /\ \A i \in 1..Len(r) : \E k \in 1..Len(f.leases) : r[i] = f.leases[k]
    <2> HIDE DEF T
    <2> QED
      BY <1>1, FilteredLeases
  <1>3. Restored(f, now) = r
    BY DEF Restored
  <1> HIDE DEF r
  <1>4. \A i \in 1..Len(r) : Issued(r[i]) /\ Begun(r[i], now, back) /\ ValidLease(r[i])
    BY <1>2 DEF FileFine
  <1> QED
    BY <1>2, <1>3, <1>4 DEF LedgerFine

\* What a save writes is fit for a load at once.
LEMMA SnapshotFine ==
  ASSUME LedgerFine(ledger, clock, setbacks), Encodable(Durables(clock), clock),
         completed \in 0..MaxSaves, completed < MaxSaves, clock \in Nat
  PROVE  /\ FileFine(Snapshot(Durables(clock), completed + 1), clock, setbacks, damages)
         /\ Restorable(Snapshot(Durables(clock), completed + 1), clock)
  <1> DEFINE T == {l \in Range(ledger) : Durable(l, clock)}
             r == Filtered(ledger, T)
             f == Snapshot(r, completed + 1)
  <1>1. ledger \in Seq(AnyLease) /\ DistinctIds(ledger)
    BY DEF LedgerFine
  <1>2. /\ r \in Seq(AnyLease) /\ DistinctIds(r)
        /\ \A i \in 1..Len(r) : r[i] \in T /\ \E k \in 1..Len(ledger) : r[i] = ledger[k]
    <2> HIDE DEF T
    <2> QED
      BY <1>1, FilteredLeases
  <1>3. Durables(clock) = r
    BY DEF Durables
  <1> HIDE DEF r
  <1>4. \A i \in 1..Len(r) : Durable(r[i], clock)
    BY <1>2
  <1> HIDE DEF T
  <1>5. DOMAIN r = 1..Len(r) /\ Len(r) \in Nat
    BY <1>2
  <1>6. /\ Len(r) <= MaxLeases
        /\ \A i \in 1..Len(r) : /\ ValidLease(r[i])
                                /\ r[i].lifetime = "one_hour" => r[i].issued <= clock
    BY <1>3, <1>5 DEF Encodable
  <1>7. \A i \in 1..Len(r) : Issued(r[i]) /\ Begun(r[i], clock, setbacks)
    BY <1>2 DEF LedgerFine
  <1>8. ASSUME NEW i \in 1..Len(r) PROVE Durable(r[i], 0)
    <2>1. r[i].lifetime = "one_hour" => clock < r[i].expires
      BY <1>4 DEF Durable
    <2>2. r[i].expires \in Nat
      <3>1. r[i] \in AnyLease
        BY <1>2
      <3> QED
        BY <3>1, LeaseTimes
    <2> QED
      BY <1>4, <2>1, <2>2 DEF Durable
  <1>9. completed + 1 \in 1..MaxSaves /\ completed + 1 \in Nat
    BY Bounds
  <1>10. /\ f \in [no : 1..MaxSaves, profile : {Profile}, leases : Seq(AnyLease), intact : BOOLEAN]
         /\ f.leases = r /\ f.profile = Profile /\ f.intact /\ f # None
    BY <1>2, <1>9, SnapshotIsFile DEF Snapshot
  <1> HIDE DEF f
  <1>11. FileFine(f, clock, setbacks, damages)
    BY <1>2, <1>6, <1>7, <1>8, <1>10 DEF FileFine
  <1>12. Restorable(f, clock)
    BY <1>2, <1>5, <1>6, <1>10 DEF Restorable, Readable, DistinctIds
  <1> QED
    BY <1>3, <1>11, <1>12 DEF f

----------------------------------------------------------------------------
(* The ledger in memory                                                    *)

\* A lease that is revoked keeps all else.
LEMMA RevokedStaysLease ==
  ASSUME NEW l \in AnyLease
  PROVE  /\ RevokedLease(l) \in AnyLease /\ RevokedLease(l).revoked
         /\ \A f \in {"id", "permission", "profile", "scope", "lifetime", "websites", "issued"} :
              RevokedLease(l)[f] = l[f]
  <1> DEFINE g == [l EXCEPT !.revoked = TRUE]
             h == [g EXCEPT !.active = FALSE]
  <1>1. /\ g \in AnyLease /\ g.revoked
        /\ \A f \in {"id", "permission", "profile", "scope", "lifetime", "websites", "issued"} :
             g[f] = l[f]
    BY DEF AnyLease, Leases
  <1>2. RevokedLease(l) = h
    BY DEF RevokedLease
  <1> HIDE DEF g
  <1>3. /\ h \in AnyLease /\ h.revoked
        /\ \A f \in {"id", "permission", "profile", "scope", "lifetime", "websites", "issued"} :
             h[f] = g[f]
    BY <1>1 DEF AnyLease, Leases
  <1> HIDE DEF h
  <1> QED
    BY <1>1, <1>2, <1>3

\* The leases at the places S are revoked.
LEMMA RevokingStaysFine ==
  ASSUME NEW s, NEW now, NEW back, LedgerFine(s, now, back), NEW S
  PROVE  LedgerFine([i \in DOMAIN s |-> IF i \in S THEN RevokedLease(s[i]) ELSE s[i]], now, back)
  <1> DEFINE t == [i \in DOMAIN s |-> IF i \in S THEN RevokedLease(s[i]) ELSE s[i]]
  <1>1. /\ s \in Seq(AnyLease) /\ Len(s) \in Nat /\ DOMAIN s = 1..Len(s)
        /\ \A i \in 1..Len(s) : s[i] \in AnyLease
    BY DEF LedgerFine
  <1>2. ASSUME NEW i \in 1..Len(s)
        PROVE  /\ t[i] \in AnyLease /\ (t[i] = s[i] \/ t[i].revoked)
               /\ \A f \in {"id", "permission", "profile", "scope", "lifetime", "websites", "issued"} :
                    t[i][f] = s[i][f]
    <2>1. s[i] \in AnyLease /\ t[i] = IF i \in S THEN RevokedLease(s[i]) ELSE s[i]
      BY <1>1
    <2> HIDE DEF t
    <2> QED
      BY <2>1, RevokedStaysLease
  <1>3. t \in Seq(AnyLease) /\ Len(t) = Len(s)
    <2>1. t \in [1..Len(s) -> AnyLease]
      BY <1>1, <1>2
    <2> HIDE DEF t
    <2> QED
      BY <1>1, <2>1
  <1> HIDE DEF t
  <1>4. DistinctIds(t)
    <2>1. \A i \in 1..Len(s) : t[i].id = s[i].id
      BY <1>2
    <2> QED
      BY <1>3, <2>1 DEF LedgerFine, DistinctIds
  <1>5. ASSUME NEW i \in 1..Len(s)
        PROVE  /\ Issued(t[i]) /\ Begun(t[i], now, back)
               /\ ~t[i].revoked => ValidLease(t[i])
    <2>1. Issued(s[i]) /\ Begun(s[i], now, back) /\ (~s[i].revoked => ValidLease(s[i]))
      BY DEF LedgerFine
    <2>2. Issued(t[i])
      BY <1>2, <2>1 DEF Issued
    <2>3. t[i].lifetime = s[i].lifetime /\ t[i].issued = s[i].issued
      BY <1>2
    <2>4. Begun(t[i], now, back)
      BY <2>1, <2>3 DEF Begun
    <2> QED
      BY <1>2, <2>1, <2>2, <2>4
  <1>6. LedgerFine(t, now, back)
    BY <1>3, <1>4, <1>5 DEF LedgerFine
  <1> QED
    BY <1>6 DEF t

\* A lease that is added is a valid issue of an offer.
LEMMA GrantStaysFine ==
  ASSUME LedgerOK, clock \in Nat, Grant
  PROVE  LedgerFine(ledger', clock, setbacks)
  <1>1. PICK offer \in Offers :
          LET lease == IF offer.lifetime = "one_hour"
                         THEN [offer EXCEPT !.issued = clock, !.expires = clock + Hour]
                         ELSE offer
          IN  CanAdd(ledger, lease) /\ ledger' = Added(ledger, lease)
    BY Zenon DEF Grant
  <1> DEFINE g == [offer EXCEPT !.issued = clock]
             h == [g EXCEPT !.expires = clock + Hour]
             lease == IF offer.lifetime = "one_hour" THEN h ELSE offer
  <1>2. CanAdd(ledger, lease) /\ ledger' = Append(ledger, lease)
    <2>1. CanAdd(ledger, lease) /\ ledger' = Added(ledger, lease)
      BY <1>1
    <2> HIDE DEF lease
    <2> QED
      BY <2>1 DEF Added
  <1>3. offer \in AnyLease
    BY OffersAssumption, Zenon
  <1>4. /\ g \in AnyLease /\ g.issued = clock
        /\ \A f \in {"id", "permission", "profile", "scope", "lifetime", "websites"} :
             g[f] = offer[f]
    BY <1>3 DEF AnyLease, Leases
  <1>5. /\ h \in AnyLease /\ h.issued = clock
        /\ \A f \in {"id", "permission", "profile", "scope", "lifetime", "websites"} :
             h[f] = offer[f]
    <2> HIDE DEF g
    <2>1. clock + Hour \in Nat
      BY Bounds
    <2>2. /\ h \in AnyLease /\ h.issued = g.issued
          /\ \A f \in {"id", "permission", "profile", "scope", "lifetime", "websites"} :
               h[f] = g[f]
      BY <1>4, <2>1 DEF AnyLease, Leases
    <2> HIDE DEF h
    <2> QED
      BY <1>4, <2>2
  <1> HIDE DEF h
  <1>6. /\ lease \in AnyLease
        /\ lease.lifetime = "one_hour" => lease.issued = clock
        /\ \A f \in {"id", "permission", "profile", "scope", "lifetime", "websites"} :
             lease[f] = offer[f]
    BY <1>3, <1>5
  <1> HIDE DEF lease
  <1>7. Issued(lease) /\ Begun(lease, clock, setbacks) /\ ValidLease(lease)
    <2>1. Begun(lease, clock, setbacks)
      BY <1>6 DEF Begun
    <2> QED
      BY <1>2, <1>6, <2>1 DEF Issued, CanAdd
  <1>8. /\ ledger \in Seq(AnyLease) /\ Len(ledger) \in Nat /\ DOMAIN ledger = 1..Len(ledger)
        /\ DistinctIds(ledger)
    BY DEF LedgerOK, LedgerFine
  <1>9. /\ ledger' \in Seq(AnyLease) /\ Len(ledger') = Len(ledger) + 1
        /\ \A i \in 1..(Len(ledger) + 1) :
             ledger'[i] = IF i = Len(ledger) + 1 THEN lease ELSE ledger[i]
    BY <1>2, <1>6, <1>8
  <1>10. \A i \in 1..Len(ledger) : ledger[i].id # lease.id
    BY <1>2, <1>8 DEF CanAdd
  <1>11. ASSUME NEW i \in 1..Len(ledger'), NEW j \in 1..Len(ledger'), ledger'[i].id = ledger'[j].id
         PROVE  i = j
    <2>1. CASE i = Len(ledger) + 1 /\ j \in 1..Len(ledger)
      BY <1>8, <1>9, <1>10, <1>11, <2>1
    <2>2. CASE j = Len(ledger) + 1 /\ i \in 1..Len(ledger)
      BY <1>8, <1>9, <1>10, <1>11, <2>2
    <2>3. CASE i \in 1..Len(ledger) /\ j \in 1..Len(ledger)
      <3>1. ledger'[i] = ledger[i] /\ ledger'[j] = ledger[j]
        BY <1>8, <1>9, <2>3
      <3> QED
        BY <1>8, <1>11, <2>3, <3>1 DEF DistinctIds
    <2> QED
      BY <1>8, <1>9, <2>1, <2>2, <2>3
  <1>12. ASSUME NEW i \in 1..Len(ledger')
         PROVE  /\ Issued(ledger'[i]) /\ Begun(ledger'[i], clock, setbacks)
                /\ ~ledger'[i].revoked => ValidLease(ledger'[i])
    <2>1. CASE i = Len(ledger) + 1
      <3>1. ledger'[i] = lease
        BY <1>8, <1>9, <2>1
      <3> QED
        BY <1>7, <3>1
    <2>2. CASE i # Len(ledger) + 1
      <3>1. i \in 1..Len(ledger) /\ ledger'[i] = ledger[i]
        BY <1>8, <1>9, <2>2
      <3> QED
        BY <3>1 DEF LedgerOK, LedgerFine
    <2> QED
      BY <2>1, <2>2
  <1>13. DistinctIds(ledger')
    BY <1>11 DEF DistinctIds
  <1> QED
    BY <1>9, <1>12, <1>13 DEF LedgerFine

LEMMA RevokeStaysFine ==
  ASSUME LedgerOK, Revoke \/ RevokeProfile
  PROVE  LedgerFine(ledger', clock, setbacks)
  <1> DEFINE t(S) == [i \in DOMAIN ledger |->
                        IF i \in S THEN RevokedLease(ledger[i]) ELSE ledger[i]]
  <1>1. \A S : LedgerFine(t(S), clock, setbacks)
    BY RevokingStaysFine DEF LedgerOK
  <1>2. \E S : ledger' = t(S)
    <2>1. CASE Revoke
      <3>1. PICK k \in DOMAIN ledger : ledger' = Revoked(ledger, ledger[k].id)
        BY <2>1 DEF Revoke
      <3>2. ledger' = t({i \in DOMAIN ledger : ledger[i].id = ledger[k].id /\ ~ledger[i].revoked})
        BY <3>1 DEF Revoked
      <3> QED
        BY <3>2
    <2>2. CASE RevokeProfile
      <3>1. ledger' = t({i \in DOMAIN ledger : /\ ledger[i].active /\ ~ledger[i].revoked
                                               /\ ledger[i].profile = Profile})
        BY <2>2 DEF RevokeProfile, ProfileRevoked
      <3> QED
        BY <3>1
    <2> QED
      BY <2>1, <2>2
  <1> QED
    BY <1>1, <1>2

----------------------------------------------------------------------------
(* The initial state and the steps                                         *)

\* The properties read the invariant so.
LEMMA CountersAreNat ==
  ASSUME CountersOK
  PROVE  /\ clock \in Nat /\ clock > 0 /\ completed \in Nat /\ crashes \in Nat /\ damages \in Nat
         /\ setbacks \in Nat /\ misreads \in Nat /\ kept \in BOOLEAN
  BY Bounds DEF CountersOK

LEMMA StorageInit ==
  ASSUME Init
  PROVE  StorageInv
  <1>1. CountersOK
    <2>1. MaxClock # 0
      BY StorageAssumption, Zenon
    <2>2. 1 \in 1..MaxClock /\ 0 \in 0..MaxSaves
      BY <2>1, Bounds
    <2>3. 0 \in 0..MaxCrashes /\ 0 \in 0..MaxDamages /\ 0 \in 0..MaxSetbacks
          /\ 0 \in 0..MaxMisreads
      BY Bounds
    <2> QED
      BY <2>2, <2>3 DEF Init, CountersOK
  <1>2. LedgerOK /\ FilesOK
    BY EmptyLedgerFine DEF Init, LedgerOK, FilesOK, FileFine
  <1>3. SaveOK /\ RecentOK
    BY DEF Init, SaveOK, RecentOK
  <1> QED
    BY <1>1, <1>2, <1>3 DEF StorageInv

LEMMA LedgerSteps ==
  ASSUME StorageInv, Grant \/ Revoke \/ RevokeProfile
  PROVE  StorageInv'
  <1>1. LedgerFine(ledger', clock, setbacks)
    BY CountersAreNat, GrantStaysFine, RevokeStaysFine DEF StorageInv
  <1>2. UNCHANGED <<clock, primary, backup, temp, step, kept, completed, crashes, damages,
                    setbacks, misreads>>
    BY DEF Grant, Revoke, RevokeProfile, Storing
  <1>3. LedgerOK'
    BY <1>1, <1>2 DEF LedgerOK
  <1>4. CountersOK'
    BY <1>2 DEF StorageInv, CountersOK
  <1>5. FilesOK'
    BY <1>2 DEF StorageInv, FilesOK
  <1>6. SaveOK' /\ RecentOK'
    BY <1>2 DEF StorageInv, SaveOK, RecentOK, Restorable, Readable
  <1> QED
    BY <1>3, <1>4, <1>5, <1>6 DEF StorageInv

\* A save leaves the ledger alone.
LEMMA SavingLedger ==
  ASSUME LedgerOK, SaveFrame, setbacks' = setbacks
  PROVE  LedgerOK'
  BY DEF LedgerOK, SaveFrame

LEMMA SaveWriteStep ==
  ASSUME StorageInv, SaveWrite
  PROVE  StorageInv'
  <1>1. CountersOK /\ LedgerOK /\ FilesOK /\ SaveOK /\ RecentOK
    BY DEF StorageInv
  <1>2. /\ step = "idle" /\ completed < MaxSaves /\ Encodable(Durables(clock), clock)
        /\ temp' = Snapshot(Durables(clock), completed + 1) /\ step' = "inspect"
        /\ UNCHANGED <<primary, backup, kept, completed, damages, setbacks, misreads, ledger,
                       clock, crashes>>
    BY DEF SaveWrite, SaveFrame
  <1>3. FileFine(temp', clock, setbacks, damages) /\ Restorable(temp', clock)
    BY <1>1, <1>2, CountersAreNat, SnapshotFine DEF CountersOK, LedgerOK
  <1>4. temp' # None /\ temp'.no = completed + 1
    BY <1>2, <1>3 DEF Restorable, Readable, Snapshot
  <1>5. CountersOK'
    BY <1>1, <1>2 DEF CountersOK
  <1>6. FilesOK'
    BY <1>1, <1>2, <1>3 DEF FilesOK
  <1>7. SaveOK'
    BY <1>1, <1>2, <1>3, <1>4 DEF SaveOK
  <1>8. RecentOK'
    BY <1>1, <1>2 DEF RecentOK
  <1>9. LedgerOK'
    BY <1>1, <1>2 DEF LedgerOK
  <1> QED
    BY <1>5, <1>6, <1>7, <1>8, <1>9 DEF StorageInv

\* A file operation fails, and the save returns with the primary and the backup
\* as they were.
LEMMA SaveGivesUp ==
  ASSUME StorageInv, temp' = None, step' = "idle", kept' = FALSE,
         UNCHANGED <<primary, backup, completed, damages, setbacks, misreads, ledger, clock,
                     crashes>>
  PROVE  StorageInv'
  <1>1. CountersOK /\ LedgerOK /\ FilesOK /\ SaveOK /\ RecentOK
    BY DEF StorageInv
  <1>2. CountersOK'
    BY <1>1 DEF CountersOK
  <1>3. LedgerOK'
    BY <1>1 DEF LedgerOK
  <1>4. FilesOK'
    BY <1>1 DEF FilesOK, FileFine
  <1>5. SaveOK'
    BY DEF SaveOK
  <1>6. RecentOK'
    BY <1>1 DEF RecentOK
  <1> QED
    BY <1>2, <1>3, <1>4, <1>5, <1>6 DEF StorageInv

LEMMA SaveFailureSteps ==
  ASSUME StorageInv, SaveWriteFails \/ SaveBackupFails \/ SaveRemoveFails
  PROVE  StorageInv'
  <1>1. /\ temp' = None /\ step' = "idle" /\ kept' = FALSE
        /\ UNCHANGED <<primary, backup, completed, damages, setbacks, misreads, ledger,
                       clock, crashes>>
    <2>1. CASE SaveWriteFails
      <3>1. step = "idle"
        BY <2>1 DEF SaveWriteFails
      <3>2. ~kept /\ kept \in BOOLEAN
        BY <3>1 DEF StorageInv, SaveOK, CountersOK
      <3> QED
        BY <2>1, <3>1, <3>2 DEF SaveWriteFails, SaveFrame
    <2>2. CASE SaveBackupFails
      BY <2>2 DEF SaveBackupFails, SaveFrame, Return
    <2>3. CASE SaveRemoveFails
      BY <2>3 DEF SaveRemoveFails, SaveFrame, Return
    <2> QED
      BY <2>1, <2>2, <2>3
  <1> QED
    BY <1>1, SaveGivesUp

LEMMA SaveInspectStep ==
  ASSUME StorageInv, SaveInspect
  PROVE  StorageInv'
  <1>1. CountersOK /\ LedgerOK /\ FilesOK /\ SaveOK /\ RecentOK
    BY DEF StorageInv
  <1>2. /\ step = "inspect" /\ kept' = Restorable(primary, clock)
        /\ step' = IF kept' THEN "backup" ELSE IF primary # None THEN "remove" ELSE "rename"
        /\ (backup' = IF kept' THEN None ELSE backup) \/ backup' = backup
        /\ UNCHANGED <<primary, temp, completed, damages, setbacks, misreads, ledger, clock,
                       crashes>>
    BY DEF SaveInspect, SaveFrame
  <1>3. kept' \in BOOLEAN
    BY <1>2 DEF Restorable
  <1>4. kept' => primary # None
    BY <1>2 DEF Restorable, Readable
  <1>5. /\ clock \in Nat /\ damages \in Nat /\ setbacks \in Nat
        /\ misreads \in Nat /\ completed \in Nat
    BY <1>1, CountersAreNat
  <1>6. ~kept' /\ primary # None => (primary.intact => setbacks > 0)
    <2>1. setbacks = 0 => FileFine(primary, clock, 0, damages)
      BY <1>1 DEF FilesOK
    <2> QED
      BY <1>2, <1>5, <2>1, IntactIsRestorable
  <1>7. temp # None /\ temp.no = completed + 1 /\ Restorable(temp, clock)
    BY <1>1, <1>2 DEF SaveOK
  <1>8. CountersOK'
    BY <1>1, <1>2, <1>3 DEF CountersOK
  <1>9. LedgerOK'
    BY <1>1, <1>2 DEF LedgerOK
  <1>10. FilesOK'
    BY <1>1, <1>2 DEF FilesOK, FileFine
  <1>11. SaveOK'
    BY <1>2, <1>3, <1>4, <1>6, <1>7 DEF SaveOK
  <1>12. RecentOK'
    BY <1>1, <1>2, <1>3, <1>4, <1>5 DEF RecentOK
  <1> QED
    BY <1>8, <1>9, <1>10, <1>11, <1>12 DEF StorageInv

LEMMA SaveInspectFailsStep ==
  ASSUME StorageInv, SaveInspectFails
  PROVE  StorageInv'
  <1>1. CountersOK /\ LedgerOK /\ FilesOK /\ SaveOK /\ RecentOK
    BY DEF StorageInv
  <1>2. /\ step = "inspect" /\ kept' = FALSE
        /\ step' = "rename" \/ (primary # None /\ step' = "discard")
        /\ misreads' = IF Restorable(primary, clock) THEN misreads + 1 ELSE misreads
        /\ misreads' <= MaxMisreads
        /\ UNCHANGED <<primary, backup, temp, completed, damages, setbacks, ledger, clock,
                       crashes>>
    BY DEF SaveInspectFails, SaveFrame
  <1>3. /\ clock \in Nat /\ damages \in Nat /\ setbacks \in Nat /\ misreads \in Nat
        /\ completed \in Nat
    BY <1>1, CountersAreNat
  <1>4. misreads' \in 0..MaxMisreads /\ misreads' \in Nat
    <2>1. misreads' = misreads + 1 \/ misreads' = misreads
      BY <1>2
    <2> QED
      BY <1>2, <1>3, <2>1, Bounds
  <1>5. Restorable(primary, clock) => misreads' = misreads + 1
    BY <1>2
  <1>6. ~Restorable(primary, clock) => misreads' = misreads
    BY <1>2
  <1>7. primary # None => damages + setbacks + misreads' > 0
    <2>1. CASE Restorable(primary, clock)
      BY <1>3, <1>5, <2>1
    <2>2. CASE ~Restorable(primary, clock) /\ primary # None
      <3>1. setbacks = 0 => ~primary.intact
        <4>1. setbacks = 0 => FileFine(primary, clock, 0, damages)
          BY <1>1 DEF FilesOK
        <4> QED
          BY <2>2, <4>1, IntactIsRestorable
      <3>2. ~primary.intact => damages > 0
        BY <1>1, <2>2 DEF FilesOK, FileFine
      <3>3. setbacks > 0 \/ damages > 0
        BY <1>3, <3>1, <3>2
      <3>4. \A a, b, c \in Nat : a > 0 \/ b > 0 => b + a + c > 0
        OBVIOUS
      <3> QED
        BY <1>3, <1>4, <3>3, <3>4
    <2> QED
      BY <2>1, <2>2
  <1>8. temp # None /\ temp.no = completed + 1 /\ Restorable(temp, clock)
    BY <1>1, <1>2 DEF SaveOK
  <1>9. CountersOK'
    BY <1>1, <1>2, <1>4 DEF CountersOK
  <1>10. LedgerOK'
    BY <1>1, <1>2 DEF LedgerOK
  <1>11. FilesOK'
    BY <1>1, <1>2 DEF FilesOK
  <1>12. SaveOK'
    BY <1>2, <1>7, <1>8 DEF SaveOK
  <1>13. backup # None =>
           /\ backup.no + damages + setbacks + misreads' >= completed
           /\ backup.no + damages + setbacks + misreads' + 1 >= completed
    <2> SUFFICES ASSUME backup # None
                 PROVE  backup.no + damages + setbacks + misreads' >= completed
      <3>1. backup # None => backup.no \in Nat
        BY <1>1 DEF FilesOK, FileFine
      <3> QED
        BY <1>3, <1>4, <3>1
    <2>1. backup.no \in Nat
      BY <1>1 DEF FilesOK, FileFine
    <2>2. /\ backup.no + damages + setbacks + misreads + 1 >= completed
          /\ ~Restorable(primary, clock) =>
               backup.no + damages + setbacks + misreads >= completed
      BY <1>1 DEF RecentOK
    <2> QED
      BY <1>3, <1>5, <1>6, <2>1, <2>2
  <1>14. completed > 0 /\ damages + setbacks + misreads' = 0 => primary # None \/ backup # None
    <2>1. damages + setbacks + misreads' = 0 => damages + setbacks + misreads = 0
      BY <1>2, <1>3, <1>4
    <2> QED
      BY <1>1, <2>1 DEF RecentOK
  <1>15. RecentOK'
    BY <1>1, <1>2, <1>13, <1>14 DEF RecentOK
  <1> QED
    BY <1>9, <1>10, <1>11, <1>12, <1>15 DEF StorageInv

LEMMA SaveBackupStep ==
  ASSUME StorageInv, SaveBackup
  PROVE  StorageInv'
  <1>1. CountersOK /\ LedgerOK /\ FilesOK /\ SaveOK /\ RecentOK
    BY DEF StorageInv
  <1>2. /\ step = "backup" /\ backup' = primary /\ primary' = None /\ step' = "rename"
        /\ UNCHANGED <<temp, kept, completed, damages, setbacks, misreads, ledger, clock,
                       crashes>>
    BY DEF SaveBackup, SaveFrame
  <1>3. primary # None /\ primary.no = completed
    BY <1>1, <1>2 DEF SaveOK, RecentOK, Restorable, Readable
  <1>4. temp # None /\ temp.no = completed + 1 /\ Restorable(temp, clock)
    BY <1>1, <1>2 DEF SaveOK
  <1>5. CountersOK'
    BY <1>1, <1>2 DEF CountersOK
  <1>6. LedgerOK'
    BY <1>1, <1>2 DEF LedgerOK
  <1>7. FilesOK'
    BY <1>1, <1>2 DEF FilesOK, FileFine
  <1>8. SaveOK'
    BY <1>2, <1>3, <1>4 DEF SaveOK
  <1>9. RecentOK'
    <2>1. damages \in Nat /\ setbacks \in Nat /\ misreads \in Nat /\ completed \in Nat
      BY <1>1, CountersAreNat
    <2> QED
      BY <1>2, <1>3, <2>1 DEF RecentOK
  <1> QED
    BY <1>5, <1>6, <1>7, <1>8, <1>9 DEF StorageInv

LEMMA SaveRemoveStep ==
  ASSUME StorageInv, SaveRemove
  PROVE  StorageInv'
  <1>1. CountersOK /\ LedgerOK /\ FilesOK /\ SaveOK /\ RecentOK
    BY DEF StorageInv
  <1>2. /\ step \in {"remove", "discard"} /\ primary' = None /\ step' = "rename"
        /\ UNCHANGED <<backup, temp, kept, completed, damages, setbacks, misreads, ledger,
                       clock, crashes>>
    BY DEF SaveRemove, SaveFrame
  <1>3. /\ damages \in Nat /\ setbacks \in Nat /\ misreads \in Nat /\ completed \in Nat
        /\ kept \in BOOLEAN
    BY <1>1, CountersAreNat
  <1>4. ~kept /\ temp # None /\ temp.no = completed + 1 /\ Restorable(temp, clock)
    BY <1>1, <1>2 DEF SaveOK
  <1>5. damages + setbacks + misreads > 0
    <2>1. CASE step = "discard"
      BY <1>1, <2>1 DEF SaveOK
    <2>2. CASE step = "remove"
      <3>1. primary # None /\ (primary.intact => setbacks > 0)
        BY <1>1, <2>2 DEF SaveOK
      <3>2. ~primary.intact => damages > 0
        BY <1>1, <3>1 DEF FilesOK, FileFine
      <3> QED
        BY <1>3, <3>1, <3>2
    <2> QED
      BY <1>2, <2>1, <2>2
  <1>6. CountersOK'
    BY <1>1, <1>2 DEF CountersOK
  <1>7. LedgerOK'
    BY <1>1, <1>2 DEF LedgerOK
  <1>8. FilesOK'
    BY <1>1, <1>2 DEF FilesOK, FileFine
  <1>9. SaveOK'
    BY <1>2, <1>4 DEF SaveOK
  <1>10. RecentOK'
    <2>1. backup # None => /\ backup.no + damages + setbacks + misreads >= completed
                           /\ backup.no + damages + setbacks + misreads + 1 >= completed
      BY <1>1, <1>2 DEF RecentOK
    <2> QED
      BY <1>2, <1>3, <1>5, <2>1 DEF RecentOK
  <1> QED
    BY <1>6, <1>7, <1>8, <1>9, <1>10 DEF StorageInv

LEMMA SaveRenameStep ==
  ASSUME StorageInv, SaveRename
  PROVE  StorageInv'
  <1>1. CountersOK /\ LedgerOK /\ FilesOK /\ SaveOK /\ RecentOK
    BY DEF StorageInv
  <1>2. /\ step = "rename" /\ primary' = temp /\ temp' = None
        /\ step' = "idle" /\ kept' = FALSE /\ completed' = temp.no
        /\ UNCHANGED <<backup, damages, setbacks, misreads, ledger, clock, crashes>>
    BY DEF SaveRename, SaveFrame, Return
  <1>3. damages \in Nat /\ setbacks \in Nat /\ misreads \in Nat /\ completed \in Nat
    BY <1>1, CountersAreNat
  <1>4. temp # None /\ temp.no = completed + 1 /\ Restorable(temp, clock)
    BY <1>1, <1>2 DEF SaveOK
  <1>5. temp.no \in 1..MaxSaves
    BY <1>1, <1>4 DEF FilesOK, FileFine
  <1>6. CountersOK'
    <2>1. temp.no \in 0..MaxSaves
      BY <1>5, Bounds
    <2> QED
      BY <1>1, <1>2, <2>1 DEF CountersOK
  <1>7. LedgerOK'
    BY <1>1, <1>2 DEF LedgerOK
  <1>8. FilesOK'
    BY <1>1, <1>2 DEF FilesOK, FileFine
  <1>9. SaveOK'
    BY <1>2 DEF SaveOK
  <1>10. RecentOK'
    <2>1. backup # None => backup.no + damages + setbacks + misreads >= completed
      BY <1>1, <1>2 DEF RecentOK
    <2>2. backup # None => backup.no \in Nat
      BY <1>1 DEF FilesOK, FileFine
    <2>3. backup # None => backup.no + damages + setbacks + misreads + 1 >= completed + 1
      BY <1>3, <2>1, <2>2
    <2> QED
      BY <1>2, <1>4, <2>3 DEF RecentOK
  <1> QED
    BY <1>6, <1>7, <1>8, <1>9, <1>10 DEF StorageInv

LEMMA SaveRenameFailsStep ==
  ASSUME StorageInv, SaveRenameFails
  PROVE  StorageInv'
  <1>1. CountersOK /\ LedgerOK /\ FilesOK /\ SaveOK /\ RecentOK
    BY DEF StorageInv
  <1>2. /\ step = "rename" /\ temp' = None
        /\ step' = "idle" /\ kept' = FALSE /\ completed' = completed
        /\ UNCHANGED <<damages, setbacks, misreads, ledger, clock, crashes>>
        /\ \/ kept /\ primary' = backup /\ backup' = None
           \/ UNCHANGED <<primary, backup>>
    BY DEF SaveRenameFails, SaveFrame, Return
  <1>3. CASE UNCHANGED <<primary, backup>>
    BY <1>2, <1>3, SaveGivesUp
  <1>4. CASE kept /\ primary' = backup /\ backup' = None
    <2>1. backup # None /\ backup.no = completed
      BY <1>1, <1>2, <1>4 DEF SaveOK
    <2>2. CountersOK'
      BY <1>1, <1>2 DEF CountersOK
    <2>3. LedgerOK'
      BY <1>1, <1>2 DEF LedgerOK
    <2>4. FilesOK'
      BY <1>1, <1>2, <1>4 DEF FilesOK, FileFine
    <2>5. SaveOK'
      BY <1>2 DEF SaveOK
    <2>6. RecentOK'
      BY <1>2, <1>4, <2>1 DEF RecentOK
    <2> QED
      BY <2>2, <2>3, <2>4, <2>5, <2>6 DEF StorageInv
  <1> QED
    BY <1>2, <1>3, <1>4

LEMMA CrashStep ==
  ASSUME StorageInv, Crash
  PROVE  StorageInv'
  <1>1. CountersOK /\ LedgerOK /\ FilesOK /\ SaveOK /\ RecentOK
    BY DEF StorageInv
  <1>2. /\ crashes < MaxCrashes /\ step' = "down" /\ ledger' = <<>> /\ kept' = FALSE
        /\ crashes' = crashes + 1
        /\ UNCHANGED <<clock, primary, backup, temp, completed, damages, setbacks, misreads>>
    BY DEF Crash, files
  <1>3. CountersOK'
    <2>1. crashes + 1 \in 0..MaxCrashes
      BY <1>1, <1>2, Bounds DEF CountersOK
    <2> QED
      BY <1>1, <1>2, <2>1 DEF CountersOK
  <1>4. LedgerOK'
    BY <1>2, EmptyLedgerFine DEF LedgerOK
  <1>5. FilesOK'
    BY <1>1, <1>2 DEF FilesOK
  <1>6. SaveOK' /\ RecentOK'
    BY <1>1, <1>2 DEF SaveOK, RecentOK
  <1> QED
    BY <1>3, <1>4, <1>5, <1>6 DEF StorageInv

LEMMA LoadStep ==
  ASSUME StorageInv, Load
  PROVE  StorageInv'
  <1>1. CountersOK /\ LedgerOK /\ FilesOK /\ SaveOK /\ RecentOK
    BY DEF StorageInv
  <1>2. /\ step = "down" /\ step' = "idle"
        /\ UNCHANGED <<clock, primary, backup, temp, kept, completed, crashes, damages,
                       setbacks, misreads>>
    BY DEF Load, files
  <1>3. LedgerFine(ledger', clock, setbacks)
    <2>1. PICK f \in {primary, backup, None} :
            ledger' = IF f = None THEN <<>> ELSE Restored(f, clock)
      BY DEF Load, Found
    <2>2. CASE f = None
      BY <2>1, <2>2, EmptyLedgerFine
    <2>3. CASE f # None
      <3>1. FileFine(f, clock, setbacks, damages)
        BY <1>1, <2>3 DEF FilesOK
      <3> QED
        BY <2>1, <2>3, <3>1, RestoredLedgerFine
    <2> QED
      BY <2>2, <2>3
  <1>4. CountersOK'
    BY <1>1, <1>2 DEF CountersOK
  <1>5. LedgerOK'
    BY <1>2, <1>3 DEF LedgerOK
  <1>6. FilesOK'
    BY <1>1, <1>2 DEF FilesOK
  <1>7. SaveOK' /\ RecentOK'
    BY <1>1, <1>2 DEF SaveOK, RecentOK
  <1> QED
    BY <1>4, <1>5, <1>6, <1>7 DEF StorageInv

LEMMA TickStep ==
  ASSUME StorageInv, Tick
  PROVE  StorageInv'
  <1>1. CountersOK /\ LedgerOK /\ FilesOK /\ SaveOK /\ RecentOK
    BY DEF StorageInv
  <1>2. /\ clock < MaxClock /\ clock' = clock + 1
        /\ UNCHANGED <<ledger, primary, backup, temp, step, kept, completed, crashes, damages,
                       setbacks, misreads>>
    BY DEF Tick, Storing
  <1>3. /\ clock \in Nat /\ damages \in Nat /\ setbacks \in Nat
        /\ misreads \in Nat /\ completed \in Nat
        /\ clock + 1 \in Nat /\ clock <= clock + 1 /\ damages <= damages
    BY <1>1, CountersAreNat
  <1>4. CountersOK'
    BY <1>1, <1>2, Bounds DEF CountersOK
  <1>5. LedgerOK'
    BY <1>1, <1>2, <1>3, LedgerStaysFine DEF LedgerOK
  <1>6. \A f : FileFine(f, clock, setbacks, damages) => FileFine(f, clock + 1, setbacks, damages)
    BY <1>3, FileStaysFine
  <1>7. FilesOK'
    BY <1>1, <1>2, <1>6 DEF FilesOK
  <1>8. \A f \in {primary, temp} : Restorable(f, clock) => Restorable(f, clock + 1)
    <2>1. \A f \in {primary, temp} : FileFine(f, clock, setbacks, damages)
      BY <1>1 DEF FilesOK
    <2> QED
      BY <1>3, <2>1, RestorableStays
  <1>9. SaveOK'
    BY <1>1, <1>2, <1>8 DEF SaveOK
  <1>10. RecentOK'
    BY <1>1, <1>2, <1>8 DEF RecentOK
  <1> QED
    BY <1>4, <1>5, <1>7, <1>9, <1>10 DEF StorageInv

LEMMA ClockBackStep ==
  ASSUME StorageInv, ClockBack
  PROVE  StorageInv'
  <1>1. CountersOK /\ LedgerOK /\ FilesOK /\ SaveOK /\ RecentOK
    BY DEF StorageInv
  <1>2. /\ step = "down" /\ setbacks < MaxSetbacks /\ clock > 1
        /\ clock' = clock - 1 /\ setbacks' = setbacks + 1
        /\ UNCHANGED <<ledger, primary, backup, temp, step, kept, completed, crashes,
                       damages, misreads>>
    BY DEF ClockBack, files
  <1>3. /\ clock \in Nat /\ damages \in Nat /\ setbacks \in Nat
        /\ misreads \in Nat /\ completed \in Nat
        /\ clock - 1 \in Nat /\ setbacks + 1 \in Nat /\ setbacks + 1 # 0 /\ damages <= damages
    BY <1>1, <1>2, CountersAreNat
  <1>4. CountersOK'
    BY <1>1, <1>2, Bounds DEF CountersOK
  <1>5. LedgerOK'
    BY <1>1, <1>2, <1>3, LedgerStaysFine DEF LedgerOK
  <1>6. \A f : FileFine(f, clock, setbacks, damages) =>
                 FileFine(f, clock - 1, setbacks + 1, damages)
    BY <1>3, FileStaysFine
  <1>7. FilesOK'
    BY <1>1, <1>2, <1>6 DEF FilesOK
  <1>8. SaveOK'
    BY <1>1, <1>2 DEF SaveOK
  <1>9. RecentOK'
    <2>1. backup # None => /\ backup.no \in Nat
                           /\ backup.no + damages + setbacks + misreads + 1 >= completed
      BY <1>1 DEF FilesOK, FileFine, RecentOK
    <2>2. backup # None => /\ backup.no + damages + (setbacks + 1) + misreads >= completed
                           /\ backup.no + damages + (setbacks + 1) + misreads + 1 >= completed
      BY <1>3, <2>1
    <2>3. damages + (setbacks + 1) + misreads # 0
      BY <1>3
    <2> QED
      BY <1>1, <1>2, <2>2, <2>3 DEF RecentOK
  <1> QED
    BY <1>4, <1>5, <1>7, <1>8, <1>9 DEF StorageInv

LEMMA DamageStep ==
  ASSUME StorageInv, Damage
  PROVE  StorageInv'
  <1>1. CountersOK /\ LedgerOK /\ FilesOK /\ SaveOK /\ RecentOK
    BY DEF StorageInv
  <1>2. /\ step \in {"idle", "down"} /\ damages < MaxDamages
        /\ primary # None /\ primary' = [primary EXCEPT !.intact = FALSE]
        /\ damages' = damages + 1
        /\ UNCHANGED <<ledger, clock, backup, temp, step, kept, completed, crashes, setbacks,
                       misreads>>
    BY DEF Damage
  <1>3. /\ clock \in Nat /\ damages \in Nat /\ setbacks \in Nat
        /\ misreads \in Nat /\ completed \in Nat
        /\ damages + 1 \in Nat /\ damages <= damages + 1 /\ clock <= clock
    BY <1>1, CountersAreNat
  <1>4. CountersOK'
    BY <1>1, <1>2, Bounds DEF CountersOK
  <1>5. LedgerOK'
    BY <1>1, <1>2 DEF LedgerOK
  <1>6. \A f : FileFine(f, clock, setbacks, damages) => FileFine(f, clock, setbacks, damages + 1)
    BY <1>3, FileStaysFine
  <1>7. FileFine(primary, clock, setbacks, damages)
    BY <1>1 DEF FilesOK
  <1>8. primary \in [no : 1..MaxSaves, profile : {Profile}, leases : Seq(AnyLease), intact : BOOLEAN]
    BY <1>2, <1>7 DEF FileFine
  <1>9. /\ primary' \in [no : 1..MaxSaves, profile : {Profile}, leases : Seq(AnyLease),
                         intact : BOOLEAN]
        /\ primary'.no = primary.no /\ primary'.leases = primary.leases
    BY <1>2, <1>8
  <1>10. FileFine(primary', clock, setbacks, damages + 1)
    <2>1. damages + 1 > 0
      BY <1>3
    <2> QED
      BY <1>2, <1>7, <1>9, <2>1 DEF FileFine
  <1>11. FilesOK'
    BY <1>1, <1>2, <1>6, <1>10 DEF FilesOK
  <1>12. SaveOK'
    BY <1>1, <1>2 DEF SaveOK
  <1>13. RecentOK'
    <2>1. backup # None => /\ backup.no \in Nat
                           /\ backup.no + damages + setbacks + misreads + 1 >= completed
      BY <1>1 DEF FilesOK, FileFine, RecentOK
    <2>2. backup # None => /\ backup.no + (damages + 1) + setbacks + misreads >= completed
                           /\ backup.no + (damages + 1) + setbacks + misreads + 1 >= completed
      BY <1>3, <2>1
    <2>3. damages + 1 + setbacks + misreads # 0
      BY <1>3
    <2>4. primary.no = completed
      BY <1>1, <1>2 DEF RecentOK
    <2> QED
      BY <1>2, <1>9, <2>2, <2>3, <2>4 DEF RecentOK
  <1> QED
    BY <1>4, <1>5, <1>11, <1>12, <1>13 DEF StorageInv

LEMMA StorageNext ==
  ASSUME StorageInv, [Next]_vars
  PROVE  StorageInv'
  <1>1. CASE Grant \/ Revoke \/ RevokeProfile
    BY <1>1, LedgerSteps
  <1>2. CASE Save
    <2>1. CASE SaveRefused \/ SaveWriteFails \/ SaveBackupFails \/ SaveRemoveFails
      <3>1. CASE SaveRefused
        BY <3>1 DEF SaveRefused, vars, StorageInv, CountersOK, LedgerOK, FilesOK, SaveOK,
                    RecentOK, Restorable, Readable
      <3> QED
        BY <2>1, <3>1, SaveFailureSteps
    <2>2. CASE SaveWrite \/ SaveInspect \/ SaveInspectFails \/ SaveBackup \/ SaveRemove \/ SaveRename
               \/ SaveRenameFails
      BY <2>2, SaveWriteStep, SaveInspectStep, SaveInspectFailsStep, SaveBackupStep, SaveRemoveStep,
         SaveRenameStep, SaveRenameFailsStep
    <2> QED
      BY <1>2, <2>1, <2>2 DEF Save
  <1>3. CASE Crash \/ Load
    BY <1>3, CrashStep, LoadStep
  <1>4. CASE World
    BY <1>4, TickStep, ClockBackStep, DamageStep DEF World
  <1>5. CASE UNCHANGED vars
    BY <1>5 DEF vars, StorageInv, CountersOK, LedgerOK, FilesOK, SaveOK, RecentOK, Restorable,
                Readable
  <1> QED
    BY <1>1, <1>2, <1>3, <1>4, <1>5 DEF Next

\* The files and the ledger are as StorageInv has it, whatever happens.
THEOREM StorageInvariant == Spec => []StorageInv
  <1>1. Init => StorageInv
    BY StorageInit
  <1>2. StorageInv /\ [Next]_vars => StorageInv'
    BY StorageNext
  <1> QED
    BY <1>1, <1>2, PTL DEF Spec

----------------------------------------------------------------------------
(* What a load finds                                                       *)

LEMMA SoundTypes ==
  ASSUME StorageInv
  PROVE  TypeOK
  <1>1. CountersOK /\ LedgerOK /\ FilesOK
    BY DEF StorageInv
  <1>2. ledger \in Seq(AnyLease) /\ DOMAIN ledger = 1..Len(ledger)
    BY <1>1 DEF LedgerOK, LedgerFine
  <1>3. \A i \in DOMAIN ledger : \E offer \in Offers :
          \A f \in {"id", "permission", "profile", "scope", "lifetime", "websites"} :
            ledger[i][f] = offer[f]
    BY <1>1, <1>2 DEF LedgerOK, LedgerFine, Issued
  <1>4. ASSUME NEW file \in {primary, backup, temp}, file # None
        PROVE  /\ file.no \in 1..MaxSaves
               /\ \A i \in DOMAIN file.leases : Durable(file.leases[i], 0)
    <2>1. FileFine(file, clock, setbacks, damages)
      BY <1>1 DEF FilesOK
    <2>2. file.leases \in Seq(AnyLease) /\ file.no \in 1..MaxSaves
      BY <1>4, <2>1 DEF FileFine
    <2>3. DOMAIN file.leases = 1..Len(file.leases)
      BY <2>2
    <2> QED
      BY <1>4, <2>1, <2>2, <2>3 DEF FileFine
  <1> QED
    BY <1>1, <1>2, <1>3, <1>4 DEF TypeOK, CountersOK

\* While no file was damaged or misread and the clock was not set back, a load accepts the
\* primary, and the backup if there is no primary.
LEMMA SoundSurvives ==
  ASSUME StorageInv
  PROVE  SnapshotSurvives
  <1> SUFFICES ASSUME completed > 0, damages + setbacks + misreads = 0 PROVE Loaded(clock) # None
    BY DEF SnapshotSurvives, Losses
  <1>1. damages = 0 /\ setbacks = 0 /\ misreads = 0
    BY CountersAreNat DEF StorageInv
  <1>2. ASSUME NEW f \in {primary, backup}, f # None PROVE Restorable(f, clock)
    <2>1. FileFine(f, clock, 0, damages)
      BY <1>1, <1>2 DEF StorageInv, FilesOK
    <2>2. f.intact
      BY <1>1, <1>2, <2>1 DEF FileFine
    <2> QED
      BY <1>2, <2>1, <2>2, IntactIsRestorable
  <1>3. primary # None \/ backup # None
    BY DEF StorageInv, RecentOK
  <1>4. Restorable(primary, clock) => primary # None
    BY DEF Restorable, Readable
  <1>5. primary # None => Restorable(primary, clock)
    BY <1>2
  <1>6. backup # None => Restorable(backup, clock)
    BY <1>2
  <1> QED
    BY <1>3, <1>4, <1>5, <1>6 DEF Loaded, Found

LEMMA SoundRecent ==
  ASSUME StorageInv
  PROVE  LoadIsRecent
  <1> SUFFICES ASSUME Loaded(clock) # None
               PROVE  Loaded(clock).no >= completed - (damages + setbacks + misreads)
    BY DEF LoadIsRecent, Losses
  <1>1. completed \in Nat /\ damages \in Nat /\ setbacks \in Nat /\ misreads \in Nat
    BY CountersAreNat DEF StorageInv
  <1>2. CASE Restorable(primary, clock)
    <2>1. Loaded(clock) = primary /\ primary # None
      BY <1>2 DEF Loaded, Found, Restorable, Readable
    <2>2. primary.no = completed
      BY <2>1 DEF StorageInv, RecentOK
    <2> QED
      BY <1>1, <2>1, <2>2
  <1>3. CASE ~Restorable(primary, clock)
    <2>1. Loaded(clock) = backup /\ backup # None
      BY <1>3 DEF Loaded, Found
    <2>2. backup.no \in Nat /\ backup.no + damages + setbacks + misreads >= completed
      BY <1>3, <2>1 DEF StorageInv, RecentOK, FilesOK, FileFine
    <2> QED
      BY <1>1, <2>1, <2>2
  <1> QED
    BY <1>2, <1>3

\* FilesAreSound: after a save there is a snapshot for a load to find at every moment, and
\* it is not older than the damages, the setbacks of the clock and the saves that could not
\* read a good primary account for, whichever file operations fail; the ledger holds issues
\* of the offers, and the files durable leases (save and load of
\* extension_permission_ledger_storage.hpp).
THEOREM FilesStaySound == Spec => []FilesAreSound
  <1>1. StorageInv => FilesAreSound
    BY SoundTypes, SoundSurvives, SoundRecent DEF FilesAreSound
  <1> QED
    BY <1>1, StorageInvariant, PTL

LEMMA StepIsAtomic ==
  ASSUME StorageInv, Save, setbacks = 0, step # "discard"
  PROVE  Loaded(clock)' \in {Loaded(clock), temp}
  <1>1. CountersOK /\ FilesOK /\ SaveOK
    BY DEF StorageInv
  <1> DEFINE Finds(p, b) == IF Restorable(p, clock) THEN p
                            ELSE IF Restorable(b, clock) THEN b ELSE None
  <1>2. clock' = clock
    BY DEF Save, SaveRefused, SaveWrite, SaveWriteFails, SaveInspect, SaveInspectFails, SaveBackup,
           SaveBackupFails, SaveRemove, SaveRemoveFails, SaveRename, SaveRenameFails, SaveFrame, vars
  <1>3. Loaded(clock) = Finds(primary, backup) /\ Loaded(clock)' = Finds(primary', backup')
    BY <1>2 DEF Loaded, Found
  <1>4. ~Restorable(None, clock)
    BY DEF Restorable, Readable
  <1>5. CASE UNCHANGED <<primary, backup>>
    BY <1>3, <1>5
  <1>6. CASE SaveInspect
    BY <1>3, <1>4, <1>6 DEF SaveInspect
  <1>7. CASE SaveBackup
    <2>1. Restorable(primary, clock) /\ primary' = None /\ backup' = primary
      BY <1>1, <1>7 DEF SaveBackup, SaveOK
    <2> QED
      BY <1>3, <1>4, <2>1
  <1>8. CASE SaveRemove
    <2>1. primary' = None /\ backup' = backup /\ primary # None /\ ~primary.intact
      BY <1>1, <1>8 DEF SaveRemove, SaveOK
    <2>2. ~Restorable(primary, clock)
      BY <2>1 DEF Restorable, Readable
    <2> QED
      BY <1>3, <1>4, <2>1, <2>2
  <1>9. CASE SaveRename
    <2>1. Restorable(temp, clock) /\ primary' = temp
      BY <1>1, <1>9 DEF SaveRename, SaveOK
    <2> QED
      BY <1>3, <2>1
  <1>10. CASE SaveRenameFails
    <2>1. \/ primary = None /\ primary' = backup /\ backup' = None
          \/ UNCHANGED <<primary, backup>>
      BY <1>1, <1>10 DEF SaveRenameFails, SaveOK
    <2> QED
      BY <1>3, <1>4, <1>5, <2>1
  <1>11. CASE \/ SaveRefused \/ SaveWrite \/ SaveWriteFails
              \/ SaveInspectFails \/ SaveBackupFails \/ SaveRemoveFails
    BY <1>5, <1>11 DEF SaveRefused, SaveWrite, SaveWriteFails, SaveInspectFails, SaveBackupFails,
                       SaveRemoveFails, vars
  <1> QED
    BY <1>6, <1>7, <1>8, <1>9, <1>10, <1>11 DEF Save

\* SaveIsAtomic: wherever the process dies in a save, a load finds what it found before or
\* what was being saved, unless the clock was set back or the save had just discarded a
\* primary that it could not read.
THEOREM SavesAreAtomic == Spec => SaveIsAtomic
  <1>1. StorageInv /\ [Next]_vars =>
          [Save /\ setbacks = 0 /\ step # "discard" =>
             Loaded(clock)' \in {Loaded(clock), temp}]_vars
    BY StepIsAtomic
  <1> QED
    BY <1>1, StorageInvariant, PTL DEF Spec, SaveIsAtomic
=============================================================================
