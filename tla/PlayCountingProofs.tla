------------------------- MODULE PlayCountingProofs -------------------------
(***************************************************************************)
(* Theorems about the counting of plays, PlayCounting, with its serial     *)
(* specification and the weekly chart that is read from it, about the page *)
(* of the library, which MCPlayCounting has as the instance L, and about   *)
(* the processing of its uploads, Media, as the instance U; for every      *)
(* value of their constants.  The three share no variable.                 *)
(***************************************************************************)
EXTENDS MCPlayCounting, MCMedia, SequenceTheorems, FiniteSetTheorems, WellFoundedInduction,
        TLAPS

USE EntriesAssumption, NoneAssumption, RowsAssumption, TimeAssumption

-----------------------------------------------------------------------------
(* Types *)

LEMMA EntryFields == \A e \in Entries : e.track \in Tracks /\ e.session \in Sessions
OBVIOUS

LEMMA EndType ==
    ASSUME TypeOK, NEW s \in Sessions, End(s)
    PROVE  /\ now' \in Time
           /\ tx' \in [Sessions -> Tx \cup {None}]
           /\ lock' \in [Tracks -> Sessions \cup {None}]
BY DEF TypeOK, End

LEMMA TypeInit == Init => TypeOK
BY DEF Init, TypeOK, Time

LEMMA TypeNext == TypeOK /\ [Next]_vars => TypeOK'
<1> SUFFICES ASSUME TypeOK, [Next]_vars PROVE TypeOK'
    OBVIOUS
<1> USE DEF TypeOK
<1>1. ASSUME NEW e \in Entries, Qualify(e) PROVE TypeOK'
    <2>1. [entry |-> e, at |-> now, verdict |-> "open"] \in Tx
        BY DEF Tx
    <2> QED BY <1>1, <2>1, EntryFields DEF Qualify
<1>2. ASSUME NEW s \in Sessions, LockTrack(s) PROVE TypeOK'
    BY <1>2 DEF LockTrack
<1>3. ASSUME NEW s \in Sessions, Decide(s) PROVE TypeOK'
    <2>1. PICK v \in {"counts", "does not"} : tx' = [tx EXCEPT ![s].verdict = v]
        BY <1>3 DEF Decide
    <2>2. tx[s] \in Tx
        BY <1>3 DEF Decide
    <2>3. [tx[s] EXCEPT !.verdict = v] \in Tx
        BY <2>2 DEF Tx
    <2> QED BY <1>3, <2>1, <2>3 DEF Decide
<1>4. ASSUME NEW s \in Sessions, Commit(s) PROVE TypeOK'
    <2>1. tx[s] \in Tx
        BY <1>4 DEF Commit
    <2>2. tx[s].entry \in Entries /\ tx[s].at \in Time
        BY <2>1 DEF Tx
    <2>3. Stored(s) \in Time \cup {None}
        BY <2>2 DEF Stored
    <2>4. [entry |-> tx[s].entry, at |-> tx[s].at, counted |-> tx[s].verdict = "counts"] \in Play
        BY <2>2 DEF Play
    <2>5. plays' \in Seq(Play)
        BY <1>4, <2>4 DEF Commit, RecordEvent
    <2> QED BY <1>4, <2>2, <2>3, <2>5, EndType DEF Commit
<1>5. ASSUME NEW s \in Sessions, Abort(s) PROVE TypeOK'
    BY <1>5, EndType DEF Abort
<1>6. CASE Tick
    BY <1>6 DEF Tick, Time
<1>7. CASE UNCHANGED vars
    BY <1>7 DEF vars
<1> QED BY <1>1, <1>2, <1>3, <1>4, <1>5, <1>6, <1>7 DEF Next

-----------------------------------------------------------------------------
(* The window *)

Decided(s) == tx[s] # None /\ tx[s].verdict # "open"

\* A transaction that has decided still holds its track's lock.
DecidedHolds == \A s \in Sessions : Decided(s) => lock[tx[s].entry.track] = s

\* What a transaction decided is still so.
VerdictsStand ==
    \A s \in Sessions :
        Decided(s) => (tx[s].verdict = "counts" <=> RecentCounted(tx[s].entry, tx[s].at) = {})

\* A session's transaction read the clock in the past, and after its session's plays.
Ordered ==
    /\ \A s \in Sessions : tx[s] # None => tx[s].at <= now /\ tx[s].entry.session = s
    /\ \A i \in 1..Len(plays) : plays[i].at <= now
    /\ \A s \in Sessions, i \in 1..Len(plays) :
          tx[s] # None /\ plays[i].entry.session = s => plays[i].at <= tx[s].at

LastPlay(e) == {i \in 1..Len(plays) : /\ plays[i].entry = e
                                      /\ \A j \in i + 1..Len(plays) : plays[j].entry # e}

\* An entry has the count of its last play.
StoredIsLast ==
    \A e \in Entries :
        /\ LastPlay(e) = {} => countedPlayAt[e] = None
        /\ \A i \in LastPlay(e) : countedPlayAt[e] = IF plays[i].counted THEN plays[i].at ELSE None

\* The inductive invariant.
Inv == TypeOK /\ DecidedHolds /\ VerdictsStand /\ CountsSpaced /\ Ordered /\ StoredIsLast

LEMMA InvInit == Init => Inv
<1> SUFFICES ASSUME Init PROVE Inv
    OBVIOUS
<1>1. Len(plays) = 0
    BY DEF Init
<1>2. Ordered
    BY <1>1 DEF Init, Ordered
<1>3. StoredIsLast
    BY <1>1 DEF Init, StoredIsLast, LastPlay
<1> QED BY <1>2, <1>3, TypeInit DEF Init, Inv, DecidedHolds, VerdictsStand, CountsSpaced, Decided

\* What a transaction has, and where.
LEMMA TxFields ==
    ASSUME TypeOK, NEW s \in Sessions, tx[s] # None
    PROVE  /\ tx[s] \in Tx /\ tx[s].entry \in Entries /\ tx[s].at \in Time /\ tx[s].at \in Int
           /\ tx[s].entry.track \in Tracks /\ tx[s].entry.session \in Sessions
           /\ tx[s].verdict \in {"open", "counts", "does not"}
<1>1. tx[s] \in Tx
    BY DEF TypeOK
<1>2. tx[s].entry \in Entries /\ tx[s].at \in Time /\ tx[s].verdict \in {"open", "counts", "does not"}
    BY <1>1 DEF Tx
<1>3. Time \subseteq Int
    BY DEF Time
<1> QED BY <1>1, <1>2, <1>3, EntryFields

LEMMA PlayFields ==
    ASSUME TypeOK, NEW i \in 1..Len(plays)
    PROVE  /\ plays[i] \in Play /\ plays[i].entry \in Entries /\ plays[i].at \in Time
           /\ plays[i].at \in Int /\ plays[i].counted \in BOOLEAN
<1>1. plays[i] \in Play
    BY DEF TypeOK
<1>2. Time \subseteq Int
    BY DEF Time
<1> QED BY <1>1, <1>2 DEF Play

\* The transaction of s ends, having recorded its play or not, and only under
\* the lock.
LEMMA InvEnd ==
    ASSUME Inv, TypeOK', NEW s \in Sessions, tx[s] # None, End(s),
           \/ UNCHANGED <<countedPlayAt, plays>>
           \/ /\ Decided(s) /\ RecordEvent(s)
              /\ countedPlayAt' = [countedPlayAt EXCEPT ![tx[s].entry] = Stored(s)]
    PROVE  Inv'
<1> USE DEF Inv
<1>1. tx[s] \in Tx /\ tx[s].entry \in Entries /\ tx[s].at \in Int /\ tx[s].entry.session \in Sessions
    BY TxFields
<1>2. \A q \in Sessions : tx'[q] = IF q = s THEN None ELSE tx[q]
    BY DEF TypeOK, End
<1>3. \A q \in Sessions : Decided(q)' <=> q # s /\ Decided(q)
    BY <1>2 DEF Decided
<1>4. \A q \in Sessions : Decided(q) => /\ tx[q] \in Tx /\ tx[q].entry \in Entries
                                         /\ tx[q].entry.track \in Tracks
    BY TxFields DEF Decided
<1>5. DecidedHolds'
    <2> SUFFICES ASSUME NEW q \in Sessions, Decided(q)' PROVE lock'[tx'[q].entry.track] = q
        BY DEF DecidedHolds
    <2>1. q # s /\ tx'[q] = tx[q] /\ lock[tx[q].entry.track] = q /\ tx[q].entry.track \in Tracks
        BY <1>2, <1>3, <1>4 DEF DecidedHolds
    <2> QED BY <2>1 DEF End
<1>6. \A q \in Sessions : Decided(q)' /\ Decided(s) => tx[q].entry.track # tx[s].entry.track
    BY <1>3 DEF DecidedHolds
<1>7. VerdictsStand'
    <2> SUFFICES ASSUME NEW q \in Sessions, Decided(q)'
                 PROVE  tx'[q].verdict = "counts" <=>
                            {f \in Entries \ {tx'[q].entry} :
                                /\ f.track = tx'[q].entry.track /\ countedPlayAt'[f] # None
                                /\ countedPlayAt'[f] > tx'[q].at - Window} = {}
        BY DEF VerdictsStand, RecentCounted
    <2>1. Decided(q) /\ tx'[q] = tx[q]
        BY <1>2, <1>3
    <2>2. \A f \in Entries : f.track = tx[q].entry.track => countedPlayAt'[f] = countedPlayAt[f]
        BY <1>1, <1>6 DEF TypeOK
    <2>3. RecentCounted(tx[q].entry, tx[q].at) =
            {f \in Entries \ {tx'[q].entry} :
                /\ f.track = tx'[q].entry.track /\ countedPlayAt'[f] # None
                /\ countedPlayAt'[f] > tx'[q].at - Window}
        BY <2>1, <2>2 DEF RecentCounted
    <2> QED BY <2>1, <2>3 DEF VerdictsStand
<1>8. CountsSpaced'
    <2>1. CASE countedPlayAt' = countedPlayAt
        BY <2>1 DEF CountsSpaced
    <2>2. CASE Decided(s) /\ countedPlayAt' = [countedPlayAt EXCEPT ![tx[s].entry] = Stored(s)]
        <3> DEFINE e == tx[s].entry
        <3>1. /\ countedPlayAt'[e] = Stored(s)
              /\ \A f \in Entries \ {e} : countedPlayAt'[f] = countedPlayAt[f]
            BY <1>1, <2>2 DEF TypeOK
        <3>2. ASSUME Stored(s) # None, NEW f \in Entries \ {e}, f.track = e.track,
                     countedPlayAt[f] # None
              PROVE  Stored(s) - countedPlayAt[f] >= Window
            <4>1. Stored(s) = tx[s].at /\ tx[s].verdict = "counts"
                BY <3>2 DEF Stored
            <4>2. ~(countedPlayAt[f] > tx[s].at - Window)
                BY <2>2, <3>2, <4>1 DEF VerdictsStand, RecentCounted
            <4>3. countedPlayAt[f] \in Int
                BY <3>2 DEF TypeOK, Time
            <4> QED BY <1>1, <4>1, <4>2, <4>3
        <3> HIDE DEF e
        <3> QED BY <3>1, <3>2 DEF CountsSpaced
    <2> QED BY <2>1, <2>2
<1>9. Ordered' /\ StoredIsLast'
    <2>1. CASE UNCHANGED <<countedPlayAt, plays>>
        BY <1>2, <2>1 DEF End, Ordered, StoredIsLast, LastPlay
    <2>2. CASE /\ Decided(s) /\ RecordEvent(s)
               /\ countedPlayAt' = [countedPlayAt EXCEPT ![tx[s].entry] = Stored(s)]
        <3> DEFINE n == Len(plays)
                   e == tx[s].entry
                   p == [entry |-> e, at |-> tx[s].at, counted |-> tx[s].verdict = "counts"]
        <3>1. /\ n \in Nat /\ Len(plays') = n + 1 /\ plays'[n + 1] = p
              /\ \A i \in 1..n : plays'[i] = plays[i]
            BY <2>2 DEF RecordEvent, TypeOK
        <3>2. p.entry = e /\ p.at = tx[s].at /\ p.counted = (tx[s].verdict = "counts")
            OBVIOUS
        <3>3. \A i \in 1..n : plays[i].at \in Int
            BY PlayFields
        <3>4. \A q \in Sessions : tx[q] # None => tx[q].at \in Int
            BY TxFields
        <3>5. n = Len(plays)
            OBVIOUS
        <3> HIDE DEF n, p
        <3>6. Ordered'
            <4>1. \A i \in 1..(n + 1) : plays'[i].at <= now'
                <5>1. now' = now /\ now \in Int /\ tx[s].at <= now
                    BY DEF End, Ordered, TypeOK, Time
                <5>2. \A i \in 1..n : plays[i].at <= now
                    BY <3>5 DEF Ordered
                <5>3. plays'[n + 1].at <= now'
                    BY <3>1, <3>2, <5>1
                <5>4. \A i \in 1..n : plays'[i].at <= now'
                    BY <3>1, <5>1, <5>2
                <5> QED BY <3>1, <5>3, <5>4
            <4>2. ASSUME NEW q \in Sessions, NEW i \in 1..(n + 1), tx'[q] # None, plays'[i].entry.session = q
                  PROVE  plays'[i].at <= tx'[q].at
                <5>1. q # s /\ tx'[q] = tx[q]
                    BY <1>2, <4>2
                <5>2. i # n + 1
                    BY <3>1, <3>2, <4>2, <5>1 DEF Ordered
                <5>3. i \in 1..n /\ plays'[i] = plays[i]
                    BY <3>1, <5>2
                <5> QED BY <3>5, <4>2, <5>1, <5>3 DEF Ordered
            <4>3. \A q \in Sessions : tx'[q] # None => tx'[q].at <= now' /\ tx'[q].entry.session = q
                BY <1>2 DEF End, Ordered
            <4> QED BY <3>1, <4>1, <4>2, <4>3 DEF Ordered
        <3>7. StoredIsLast'
            <4> SUFFICES ASSUME NEW g \in Entries
                         PROVE  /\ LastPlay(g)' = {} => countedPlayAt'[g] = None
                                /\ \A i \in LastPlay(g)' :
                                      countedPlayAt'[g] = IF plays'[i].counted THEN plays'[i].at ELSE None
                BY DEF StoredIsLast
            <4>1. CASE g = e
                <5>1. countedPlayAt'[g] = Stored(s)
                    BY <1>1, <2>2, <4>1 DEF TypeOK
                <5>2. LastPlay(g)' = {n + 1}
                    BY <3>1, <3>2, <4>1 DEF LastPlay
                <5> QED BY <3>1, <3>2, <5>1, <5>2 DEF Stored
            <4>2. CASE g # e
                <5>1. countedPlayAt'[g] = countedPlayAt[g]
                    BY <1>1, <2>2, <4>2 DEF TypeOK
                <5>2. LastPlay(g)' = LastPlay(g) /\ LastPlay(g) \subseteq 1..n
                    <6>1. /\ LastPlay(g) = {i \in 1..n : /\ plays[i].entry = g
                                                        /\ \A j \in (i + 1)..n : plays[j].entry # g}
                          /\ LastPlay(g)' = {i \in 1..(n + 1) :
                                /\ plays'[i].entry = g
                                /\ \A j \in (i + 1)..(n + 1) : plays'[j].entry # g}
                        BY <3>1, <3>5 DEF LastPlay
                    <6>2. plays'[n + 1].entry # g
                        BY <3>1, <3>2, <4>2
                    <6>3. ASSUME NEW i \in 1..n
                          PROVE  (\A j \in (i + 1)..(n + 1) : plays'[j].entry # g) <=>
                                 (\A j \in (i + 1)..n : plays[j].entry # g)
                        BY <3>1, <6>2
                    <6> QED BY <3>1, <6>1, <6>2, <6>3
                <5> QED BY <3>1, <5>1, <5>2 DEF StoredIsLast
            <4> QED BY <4>1, <4>2
        <3> QED BY <3>6, <3>7
    <2> QED BY <2>1, <2>2
<1> QED BY <1>5, <1>7, <1>8, <1>9

LEMMA InvNext == Inv /\ [Next]_vars => Inv'
<1> SUFFICES ASSUME Inv, [Next]_vars PROVE Inv'
    OBVIOUS
<1> USE DEF Inv
<1>1. TypeOK'
    BY TypeNext
<1>2. ASSUME NEW e \in Entries, Qualify(e) PROVE Inv'
    <2>1. \A s \in Sessions : tx'[s] = IF s = e.session THEN [entry |-> e, at |-> now, verdict |-> "open"]
                                       ELSE tx[s]
        BY <1>2, EntryFields DEF Qualify, TypeOK
    <2>2. \A s \in Sessions : Decided(s)' => Decided(s) /\ tx'[s] = tx[s]
        BY <2>1 DEF Decided
    <2>3. Ordered'
        BY <1>2, <2>1 DEF Qualify, Ordered, TypeOK, Time
    <2> QED BY <1>1, <1>2, <2>2, <2>3
            DEF Qualify, DecidedHolds, VerdictsStand, CountsSpaced, RecentCounted, StoredIsLast, LastPlay
<1>3. ASSUME NEW s \in Sessions, LockTrack(s) PROVE Inv'
    <2>1. tx[s] \in Tx /\ tx[s].entry.track \in Tracks
        BY <1>3, TxFields DEF LockTrack
    <2>2. \A q \in Sessions : Decided(q)' <=> Decided(q)
        BY <1>3 DEF LockTrack, Decided
    <2>3. DecidedHolds'
        <3>1. \A q \in Sessions : Decided(q) => tx[q].entry.track # tx[s].entry.track
            BY <1>3 DEF LockTrack, DecidedHolds
        <3> QED BY <1>3, <2>1, <2>2, <3>1 DEF LockTrack, DecidedHolds, TypeOK
    <2> QED BY <1>1, <1>3, <2>2, <2>3
            DEF LockTrack, VerdictsStand, CountsSpaced, RecentCounted, Ordered, StoredIsLast, LastPlay
<1>4. ASSUME NEW s \in Sessions, Decide(s) PROVE Inv'
    <2>1. tx[s] \in Tx
        BY <1>4, TxFields DEF Decide
    <2>2. /\ tx'[s] # None => tx[s] # None
          /\ tx'[s].entry = tx[s].entry /\ tx'[s].at = tx[s].at
          /\ tx'[s].verdict = "counts" <=> RecentCounted(tx[s].entry, tx[s].at) = {}
          /\ \A q \in Sessions \ {s} : tx'[q] = tx[q]
        BY <1>4, <2>1 DEF Decide, TypeOK, Tx
    <2>3. /\ UNCHANGED <<now, lock, countedPlayAt, plays>>
          /\ lock[tx[s].entry.track] = s
        BY <1>4 DEF Decide
    <2>4. \A q \in Sessions \ {s} : Decided(q)' <=> Decided(q)
        BY <2>2 DEF Decided
    <2>5. DecidedHolds'
        BY <2>2, <2>3, <2>4 DEF DecidedHolds
    <2>6. \A e, at : RecentCounted(e, at)' = RecentCounted(e, at)
        BY <2>3 DEF RecentCounted
    <2>7. VerdictsStand'
        BY <2>2, <2>3, <2>4, <2>6 DEF VerdictsStand, RecentCounted
    <2>8. Ordered'
        BY <2>2, <2>3 DEF Ordered
    <2> QED BY <1>1, <2>3, <2>5, <2>7, <2>8 DEF CountsSpaced, StoredIsLast, LastPlay
<1>5. ASSUME NEW s \in Sessions, Commit(s) PROVE Inv'
    BY <1>1, <1>5, InvEnd DEF Commit, Decided
<1>6. ASSUME NEW s \in Sessions, Abort(s) PROVE Inv'
    BY <1>1, <1>6, InvEnd DEF Abort
<1>7. CASE Tick
    <2>1. Ordered'
        <3>1. \A s \in Sessions : tx[s] # None => tx[s].at \in Int
            BY TxFields
        <3>2. \A i \in 1..Len(plays) : plays[i].at \in Int
            BY PlayFields
        <3>3. now \in Int
            BY DEF TypeOK, Time
        <3> QED BY <1>7, <3>1, <3>2, <3>3 DEF Tick, Ordered
    <2> QED BY <1>1, <1>7, <2>1 DEF Tick, DecidedHolds, VerdictsStand, CountsSpaced, Decided, RecentCounted,
                                StoredIsLast, LastPlay
<1>8. CASE UNCHANGED vars
    BY <1>1, <1>8 DEF vars, DecidedHolds, VerdictsStand, CountsSpaced, Decided, RecentCounted,
                      Ordered, StoredIsLast, LastPlay
<1> QED BY <1>2, <1>3, <1>4, <1>5, <1>6, <1>7, <1>8 DEF Next

\* The transactions, locks, counts and playback events keep their types.
THEOREM Typed == Spec => []TypeOK
BY TypeInit, TypeNext, PTL DEF Spec

LEMMA Invariance == Spec => []Inv
BY InvInit, InvNext, PTL DEF Spec

\* However many sessions complete entries of one track at once, two counted
\* plays of it for the host are a window apart.
THEOREM OncePerWindow == Spec => []CountsSpaced
BY Invariance, PTL DEF Inv

-----------------------------------------------------------------------------
(* Counting is serial *)

\* The step that commits records the play as a serial counting would; every
\* other step but the clock's leaves what it sees alone.
LEMMA SerialStep == Inv /\ [Next]_vars => [Serial!Next]_<<now, countedPlayAt, plays>>
<1> SUFFICES ASSUME Inv, [Next]_vars PROVE [Serial!Next]_<<now, countedPlayAt, plays>>
    OBVIOUS
<1> USE DEF Inv
<1>1. ASSUME NEW e \in Entries, Qualify(e) PROVE UNCHANGED <<now, countedPlayAt, plays>>
    BY <1>1 DEF Qualify
<1>2. ASSUME NEW s \in Sessions, LockTrack(s) \/ Decide(s) \/ Abort(s)
      PROVE  UNCHANGED <<now, countedPlayAt, plays>>
    BY <1>2 DEF LockTrack, Decide, Abort, End
<1>3. ASSUME NEW s \in Sessions, Commit(s) PROVE Serial!Next
    <2> DEFINE e == tx[s].entry
               at == tx[s].at
    <2>1. tx[s] # None /\ Decided(s) /\ e \in Entries /\ e.session = s /\ at \in Time /\ at <= now
        BY <1>3, TxFields DEF Commit, Decided, Ordered
    <2>2. at \in 0..now
        BY <2>1 DEF Time, TypeOK
    <2>3. Serial!InOrder(e, at)
        BY <2>1 DEF Serial!InOrder, Ordered
    <2>4. Serial!Blocked(e, at) <=> tx[s].verdict # "counts"
        <3>1. Serial!Blocked(e, at) <=> RecentCounted(e, at) # {}
            BY DEF Serial!Blocked, RecentCounted
        <3> QED BY <2>1, <3>1 DEF VerdictsStand
    <2>5. plays' = Append(plays, [entry |-> e, at |-> at, counted |-> ~Serial!Blocked(e, at)])
        <3>1. (tx[s].verdict = "counts") = ~Serial!Blocked(e, at)
            BY <2>4 DEF Serial!Blocked
        <3> QED BY <1>3, <3>1 DEF Commit, RecordEvent
    <2>6. countedPlayAt' = [countedPlayAt EXCEPT ![e] = IF Serial!Blocked(e, at) THEN None ELSE at]
        BY <1>3, <2>4 DEF Commit, Stored
    <2>7. now' = now
        BY <1>3 DEF Commit, End
    <2>8. Serial!Record(e, at)
        BY <2>3, <2>5, <2>6, <2>7 DEF Serial!Record
    <2> QED BY <2>1, <2>2, <2>8 DEF Serial!Next
<1>4. CASE Tick
    BY <1>4 DEF Tick, Serial!Tick, Serial!Next
<1>5. CASE UNCHANGED vars
    BY <1>5 DEF vars
<1> QED BY <1>1, <1>2, <1>3, <1>4, <1>5 DEF Next

\* However the transactions overlap, counting is as if one ran at a time.
THEOREM CountingIsSerial == Spec => ImplementsSerial
<1>1. Init => Serial!Init
    BY DEF Init, Serial!Init
<1> QED BY <1>1, Invariance, SerialStep, PTL DEF Spec, ImplementsSerial, Serial!Spec

-----------------------------------------------------------------------------
(* Numbers *)

LEMMA Quotient ==
    ASSUME NEW a \in Int, NEW b \in Nat \ {0}
    PROVE  /\ a \div b \in Int
           /\ b * (a \div b) <= a /\ a < b * (a \div b) + b
           /\ a % b = a - b * (a \div b)
OBVIOUS

\* The quotient is the only such number.
LEMMA QuotientIs ==
    ASSUME NEW a \in Int, NEW b \in Nat \ {0}, NEW q \in Int, b * q <= a, a < b * q + b
    PROVE  a \div b = q
<1>1. PICK d \in Int : d = a \div b /\ b * d <= a /\ a < b * d + b
    BY Quotient
<1>2. b * (d - q) < b /\ b * (q - d) < b
    BY <1>1
<1>3. d - q < 1 /\ q - d < 1
    BY <1>1, <1>2
<1> QED BY <1>1, <1>3

LEMMA Multiple ==
    ASSUME NEW q \in Int, NEW b \in Nat \ {0}
    PROVE  (q * b) % b = 0
<1> DEFINE a == q * b
<1>1. a \in Int /\ a = b * q
    OBVIOUS
<1>2. a \div b = q
    <2> HIDE DEF a
    <2>1. b * q <= a /\ a < b * q + b
        BY <1>1
    <2> QED BY <1>1, <2>1, QuotientIs
<1>3. a % b = a - b * q
    <2> HIDE DEF a
    <2> QED BY <1>1, <1>2, Quotient
<1> QED BY <1>1, <1>3

LEMMA Whole ==
    ASSUME NEW a \in Int, NEW b \in Nat \ {0}, a % b = 0
    PROVE  \E q \in Int : a = b * q
<1> DEFINE q == a \div b
<1>1. q \in Int /\ a % b = a - b * q
    BY Quotient
<1> HIDE DEF q
<1>2. a = b * q
    BY <1>1
<1> QED BY <1>1, <1>2

LEMMA Interval ==
    ASSUME NEW a \in Int, NEW b \in Int, a <= b
    PROVE  IsFiniteSet(a..b) /\ Cardinality(a..b) = b - a + 1
<1>1. ~(a > b)
    OBVIOUS
<1>2. Cardinality(a..b) = IF a > b THEN 0 ELSE b - a + 1
    BY FS_Interval
<1>3. IsFiniteSet(a..b)
    BY FS_Interval
<1> QED BY <1>1, <1>2, <1>3

\* Some number of a set is the least.
LEMMA LeastNumber ==
    ASSUME NEW T \in SUBSET Nat, T # {}
    PROVE  \E n \in T : \A m \in T : n <= m
<1> DEFINE R == OpToRel(<, Nat)
<1>1. IsWellFoundedOn(R, Nat)
    BY NatLessThanWellFounded
<1>2. \A m, n \in Nat : <<m, n>> \in R <=> m < n
    BY DEF OpToRel
<1> HIDE DEF R
<1>3. PICK n \in T : \A m \in T : <<m, n>> \notin R
    BY <1>1, WFMin
<1>4. ASSUME NEW m \in T PROVE n <= m
    <2>1. m \in Nat /\ n \in Nat /\ ~(m < n)
        BY <1>2, <1>3
    <2> QED BY <2>1
<1> QED BY <1>4

\* Induction on the numbers up to n.
LEMMA Upward ==
    ASSUME NEW n \in Nat, NEW T \in SUBSET (0..n), 0 \in T,
           \A k \in 1..n : k - 1 \in T => k \in T
    PROVE  T = 0..n
<1> DEFINE Rest == (0..n) \ T
<1>1. SUFFICES ASSUME Rest # {} PROVE FALSE
    BY <1>1
<1>2. PICK k \in Rest : \A i \in Rest : k <= i
    <2>1. Rest \in SUBSET Nat
        OBVIOUS
    <2> QED BY <1>1, <2>1, LeastNumber
<1>3. k \in 1..n /\ k - 1 \in 0..n /\ k - 1 < k
    BY <1>2
<1>4. k - 1 \in T
    BY <1>2, <1>3
<1> QED BY <1>2, <1>3, <1>4

-----------------------------------------------------------------------------
(* The stored decisions are those of selectCountedPlays: what the sequence  *)
(* of a track's plays is, what the rule decides of their times, and that    *)
(* no counted play of the track blocked one that counted.                   *)

\* What a function on 0..n defined by recursion is: there is one, and it
\* takes the steps.
Recursive(g, n, base, step) ==
    /\ DOMAIN g = 0..n
    /\ g[0] = base
    /\ \A k \in 1..n : g[k] = step[<<k, g[k - 1]>>]

LEMMA Recursion ==
    ASSUME NEW D, NEW n \in Nat, NEW base \in D, NEW step \in [(1..n) \X D -> D]
    PROVE  \E g \in [0..n -> D] : Recursive(g, n, base, step)
<1> DEFINE T == {m \in 0..n : \E g \in [0..m -> D] : Recursive(g, m, base, step)}
<1>1. 0 \in T
    <2> DEFINE g == [k \in 0..0 |-> base]
    <2>1. g \in [0..0 -> D] /\ Recursive(g, 0, base, step)
        BY DEF Recursive
    <2> QED BY <2>1
<1>2. ASSUME NEW m \in 1..n, m - 1 \in T PROVE m \in T
    <2>1. PICK g \in [0..(m - 1) -> D] : Recursive(g, m - 1, base, step)
        BY <1>2
    <2> DEFINE h == [k \in 0..m |-> IF k = m THEN step[<<m, g[m - 1]>>] ELSE g[k]]
    <2>2. m \in Nat /\ m \in 0..n /\ m - 1 \in 0..(m - 1) /\ 0 \in 0..(m - 1)
        OBVIOUS
    <2>3. step[<<m, g[m - 1]>>] \in D
        BY <2>1, <2>2
    <2>4. h \in [0..m -> D]
        BY <2>1, <2>2, <2>3
    <2>5. \A k \in 0..(m - 1) : h[k] = g[k]
        BY <2>2
    <2>6. h[m] = step[<<m, g[m - 1]>>]
        BY <2>2
    <2> HIDE DEF h
    <2>7. h[0] = base
        BY <2>1, <2>2, <2>5 DEF Recursive
    <2>8. ASSUME NEW k \in 1..m PROVE h[k] = step[<<k, h[k - 1]>>]
        <3>1. CASE k = m
            BY <2>2, <2>5, <2>6, <3>1
        <3>2. CASE k # m
            <4>1. k \in 1..(m - 1) /\ k \in 0..(m - 1) /\ k - 1 \in 0..(m - 1)
                BY <2>2, <3>2
            <4> QED BY <2>1, <2>5, <4>1 DEF Recursive
        <3> QED BY <3>1, <3>2
    <2>9. Recursive(h, m, base, step)
        BY <2>4, <2>7, <2>8 DEF Recursive
    <2> QED BY <2>2, <2>4, <2>9
<1>3. T = 0..n
    <2>1. T \in SUBSET (0..n)
        OBVIOUS
    <2> HIDE DEF T
    <2> QED BY <1>1, <1>2, <2>1, Upward
<1> QED BY <1>3

\* The decisions of selectCountedPlays, as the recursion they are defined by.
LEMMA LastCountedIs ==
    ASSUME NEW n \in Nat, NEW times \in [1..n -> Int]
    PROVE  LET last == LastCounted(times)
           IN  /\ last[0] = None
               /\ \A k \in 1..n :
                     /\ last[k - 1] \in Int \cup {None}
                     /\ last[k] = IF last[k - 1] = None \/ times[k] - last[k - 1] >= Window
                                  THEN times[k] ELSE last[k - 1]
<1> DEFINE D == Int \cup {None}
           next(k, x) == IF x = None \/ times[k] - x >= Window THEN times[k] ELSE x
           step == [o \in (1..n) \X D |-> next(o[1], o[2])]
           last == LastCounted(times)
           f(g) == [k \in 0..Len(times) |-> IF k = 0 THEN None
                       ELSE IF g[k - 1] = None \/ times[k] - g[k - 1] >= Window THEN times[k] ELSE g[k - 1]]
<1>1. Len(times) = n
    OBVIOUS
<1>2. step \in [(1..n) \X D -> D]
    OBVIOUS
<1>3. \A k \in 1..n, x \in D : step[<<k, x>>] = next(k, x)
    OBVIOUS
<1>4. None \in D
    OBVIOUS
<1> HIDE DEF step, D
<1>5. PICK g \in [0..n -> D] : Recursive(g, n, None, step)
    BY <1>2, <1>4, Recursion
<1>6. g = f(g)
    <2>1. \A k \in 0..n : g[k] = IF k = 0 THEN None ELSE next(k, g[k - 1])
        <3> SUFFICES ASSUME NEW k \in 0..n PROVE g[k] = IF k = 0 THEN None ELSE next(k, g[k - 1])
            OBVIOUS
        <3>1. CASE k # 0
            <4>1. k \in 1..n /\ k - 1 \in 0..n
                BY <3>1
            <4> HIDE DEF next
            <4> QED BY <1>3, <1>5, <3>1, <4>1 DEF Recursive
        <3> QED BY <1>5, <3>1 DEF Recursive
    <2> QED BY <1>1, <2>1
<1>7. last = CHOOSE h : h = f(h)
    BY DEF LastCounted
<1>8. last = f(last)
    BY <1>6, <1>7
<1>9. {k \in 0..n : last[k] \in D} = 0..n
    <2> DEFINE T == {k \in 0..n : last[k] \in D}
    <2>1. \A k \in 0..n : last[k] = IF k = 0 THEN None ELSE next(k, last[k - 1])
        <3>1. \A k \in 0..n : last[k] = f(last)[k]
            BY <1>8
        <3> HIDE DEF last
        <3> QED BY <1>1, <3>1
    <2>2. 0 \in T
        BY <1>4, <2>1
    <2>3. \A k \in 1..n, x \in D : next(k, x) \in D
        BY <1>2, <1>3
    <2> HIDE DEF last, next
    <2>4. ASSUME NEW k \in 1..n, k - 1 \in T PROVE k \in T
        <3>1. k \in 0..n /\ k # 0 /\ last[k - 1] \in D
            BY <2>4
        <3>2. last[k] = next(k, last[k - 1])
            BY <2>1, <3>1
        <3> QED BY <2>3, <3>1, <3>2
    <2> HIDE DEF T
    <2>5. T \in SUBSET (0..n)
        BY DEF T
    <2>6. T = 0..n
        BY <2>2, <2>4, <2>5, Upward
    <2> QED BY <2>6 DEF T
<1>10. \A k \in 0..n : last[k] = IF k = 0 THEN None ELSE next(k, last[k - 1])
    <2>1. \A k \in 0..n : last[k] = f(last)[k]
        BY <1>8
    <2> HIDE DEF last
    <2> QED BY <1>1, <2>1
<1>11. \A k \in 1..n : k \in 0..n /\ k - 1 \in 0..n /\ k # 0
    OBVIOUS
<1>12. 0 \in 0..n
    OBVIOUS
<1> HIDE DEF last
<1> QED BY <1>9, <1>10, <1>11, <1>12 DEF D, last

\* The i of C count: they are the ones without a counted play in the window before.
Decisions(n, times, C) ==
    /\ \A i, j \in 1..n : i < j => times[i] <= times[j]
    /\ \A i \in 1..n :
          i \in C <=> ~\E j \in 1..n : j < i /\ j \in C /\ times[i] - times[j] < Window

\* Decisions, each made by the counted ones before it, are those of
\* selectCountedPlays.
LEMMA SameDecisions ==
    ASSUME NEW n \in Nat, NEW times \in [1..n -> Int], NEW C \in SUBSET (1..n), Decisions(n, times, C)
    PROVE  /\ SelectCountedPlays(times) = [i \in 1..n |-> SelectCountedPlays(times)[i]]
           /\ \A i \in 1..n : SelectCountedPlays(times)[i] = (i \in C)
<1> USE DEF Decisions
<1> DEFINE last == LastCounted(times)
           \* What last has seen: no count, or the time of the latest one.
           Unseen(k) == last[k] = None /\ \A j \in 1..n : j <= k => j \notin C
           Some(k) == \E j \in 1..n : /\ j <= k /\ j \in C /\ last[k] = times[j]
                                      /\ \A i \in 1..n : i <= k /\ i \in C => times[i] <= times[j]
           T == {k \in 0..n : Unseen(k) \/ Some(k)}
<1>1. /\ last[0] = None
      /\ \A k \in 1..n : /\ last[k - 1] \in Int \cup {None}
                         /\ last[k] = IF last[k - 1] = None \/ times[k] - last[k - 1] >= Window
                                      THEN times[k] ELSE last[k - 1]
    BY LastCountedIs
<1>2. \A k \in 1..n : times[k] \in Int /\ times[k] # None
    <2>1. \A k \in 1..n : times[k] \in Int
        OBVIOUS
    <2>2. None \notin Int
        OBVIOUS
    <2> QED BY <2>1, <2>2
<1>3. ASSUME NEW k \in 1..n, k - 1 \in T
      PROVE  k \in C <=> (last[k - 1] = None \/ times[k] - last[k - 1] >= Window)
    <2> HIDE DEF last
    <2>1. k - 1 \in Int /\ \A j \in 1..n : j <= k - 1 <=> j < k
        OBVIOUS
    <2>2. CASE Unseen(k - 1)
        BY <2>1, <2>2
    <2>3. CASE Some(k - 1)
        <3>1. PICK j \in 1..n : /\ j <= k - 1 /\ j \in C /\ last[k - 1] = times[j]
                                /\ \A i \in 1..n : i <= k - 1 /\ i \in C => times[i] <= times[j]
            BY <2>3
        <3>2. times[j] \in Int /\ times[k] \in Int /\ last[k - 1] # None /\ j < k /\ Window \in Int
            BY <1>2, <2>1, <3>1
        <3>3. CASE times[k] - times[j] < Window
            BY <3>1, <3>2, <3>3
        <3>4. CASE ~(times[k] - times[j] < Window)
            <4>1. ASSUME NEW i \in 1..n, i < k, i \in C PROVE ~(times[k] - times[i] < Window)
                <5>1. times[i] \in Int /\ times[i] <= times[j]
                    BY <1>2, <2>1, <3>1, <4>1
                <5> QED BY <3>2, <3>4, <5>1
            <4>2. k \in C
                BY <4>1
            <4> QED BY <3>1, <3>2, <3>4, <4>2
        <3> QED BY <3>3, <3>4
    <2> HIDE DEF Unseen, Some
    <2> QED BY <1>3, <2>2, <2>3
<1>4. T = 0..n
    <2>1. 0 \in T
        BY <1>1
    <2>2. ASSUME NEW k \in 1..n, k - 1 \in T PROVE k \in T
        <3> HIDE DEF last
        <3>1. \A j \in 1..n : j <= k <=> j <= k - 1 \/ j = k
            OBVIOUS
        <3>2. CASE k \in C
            <4>1. last[k] = times[k]
                BY <1>1, <1>3, <2>2, <3>2
            <4>2. \A i \in 1..n : i <= k /\ i \in C => times[i] <= times[k]
                BY <1>2
            <4> QED BY <3>2, <4>1, <4>2
        <3>3. CASE k \notin C
            <4>1. last[k] = last[k - 1]
                BY <1>1, <1>3, <2>2, <3>3
            <4>2. CASE Unseen(k - 1)
                BY <3>1, <3>3, <4>1, <4>2
            <4>3. CASE Some(k - 1)
                <5>1. PICK j \in 1..n : /\ j <= k - 1 /\ j \in C /\ last[k - 1] = times[j]
                                        /\ \A i \in 1..n : i <= k - 1 /\ i \in C => times[i] <= times[j]
                    BY <4>3
                <5>2. /\ j <= k /\ j \in C /\ last[k] = times[j]
                      /\ \A i \in 1..n : i <= k /\ i \in C => times[i] <= times[j]
                    BY <3>1, <3>3, <4>1, <5>1
                <5> QED BY <5>2
            <4> QED BY <2>2, <4>2, <4>3
        <3> QED BY <3>2, <3>3
    <2>3. T \in SUBSET (0..n)
        OBVIOUS
    <2> HIDE DEF T
    <2> QED BY <2>1, <2>2, <2>3, Upward
<1>5. \A k \in 1..n : k - 1 \in 0..n
    OBVIOUS
<1>6. \A k \in 1..n : (k \in C) = (last[k - 1] = None \/ times[k] - last[k - 1] >= Window)
    BY <1>3, <1>4, <1>5
<1>7. Len(times) = n
    OBVIOUS
<1> HIDE DEF last
<1>8. [k \in 1..n |-> k \in C] = [k \in 1..n |-> last[k - 1] = None \/ times[k] - last[k - 1] >= Window]
    BY <1>6
<1>9. SelectCountedPlays(times) = [k \in 1..n |-> last[k - 1] = None \/ times[k] - last[k - 1] >= Window]
    BY <1>7 DEF SelectCountedPlays, last
<1> QED BY <1>8, <1>9

\* What TrackPlays selects from the first k plays is a sequence of plays that
\* an increasing function takes from the track's.
Selects(t, k, ps, h) ==
    /\ ps \in Seq(Play)
    /\ h \in [1..Len(ps) -> {i \in 1..k : plays[i].entry.track = t}]
    /\ \A i \in 1..Len(ps) : ps[i] = plays[h[i]]
    /\ \A i, j \in 1..Len(ps) : i < j => h[i] < h[j]
    /\ \A i \in 1..k : plays[i].entry.track = t => \E j \in 1..Len(ps) : h[j] = i

LEMMA TrackPlaysIs ==
    ASSUME TypeOK, NEW t \in Tracks
    PROVE  \E h : Selects(t, Len(plays), TrackPlays(t), h)
<1> DEFINE n == Len(plays)
           D == Seq(Play)
           next(k, x) == IF plays[k].entry.track = t THEN Append(x, plays[k]) ELSE x
           step == [o \in (1..n) \X D |-> next(o[1], o[2])]
           f(g) == [k \in 0..Len(plays) |-> IF k = 0 THEN <<>>
                       ELSE IF plays[k].entry.track = t THEN Append(g[k - 1], plays[k]) ELSE g[k - 1]]
           selected == CHOOSE g : g = f(g)
<1>1. n \in Nat /\ <<>> \in D /\ \A k \in 1..n : plays[k] \in Play
    BY DEF TypeOK
<1>2. \A k \in 1..n, x \in D : next(k, x) \in D
    BY <1>1
<1>3. \A k \in 1..n, x \in D : step[<<k, x>>] = next(k, x)
    OBVIOUS
<1>4. step \in [(1..n) \X D -> D]
    <2> HIDE DEF next, D
    <2> QED BY <1>2
<1> HIDE DEF step
<1>5. PICK g \in [0..n -> D] : Recursive(g, n, <<>>, step)
    <2> HIDE DEF D, n
    <2> QED BY <1>1, <1>4, Recursion
<1>6. g = f(g)
    <2>1. \A k \in 0..n : g[k] = IF k = 0 THEN <<>> ELSE next(k, g[k - 1])
        <3> SUFFICES ASSUME NEW k \in 0..n PROVE g[k] = IF k = 0 THEN <<>> ELSE next(k, g[k - 1])
            OBVIOUS
        <3>1. CASE k # 0
            <4>1. k \in 1..n /\ k - 1 \in 0..n
                BY <3>1
            <4> HIDE DEF next, D, n
            <4> QED BY <1>3, <1>5, <3>1, <4>1 DEF Recursive
        <3> QED BY <1>5, <3>1 DEF Recursive
    <2> HIDE DEF D
    <2> QED BY <2>1
<1>7. selected = f(selected)
    BY <1>6
<1>8. TrackPlays(t) = selected[n]
    BY DEF TrackPlays
<1>9. \A k \in 0..n : selected[k] = IF k = 0 THEN <<>> ELSE next(k, selected[k - 1])
    <2>1. \A k \in 0..n : selected[k] = f(selected)[k]
        BY <1>7
    <2> HIDE DEF selected
    <2> QED BY <2>1
<1> HIDE DEF selected, f, n
<1> DEFINE T == {k \in 0..n : \E h : Selects(t, k, selected[k], h)}
<1>10. 0 \in T
    <2>1. selected[0] = <<>> /\ Len(<<>>) = 0 /\ 0 \in 0..n
        BY <1>1, <1>9
    <2>2. Selects(t, 0, <<>>, [i \in 1..0 |-> 0])
        BY DEF Selects
    <2> QED BY <2>1, <2>2
<1>11. ASSUME NEW k \in 1..n, k - 1 \in T PROVE k \in T
    <2> DEFINE ps == selected[k - 1]
               m == Len(ps)
    <2>1. PICK h : Selects(t, k - 1, ps, h)
        BY <1>11
    <2>2. k \in 0..n /\ k # 0 /\ k \in Nat /\ plays[k] \in Play
        BY <1>1
    <2>3. selected[k] = next(k, ps)
        BY <1>9, <2>2
    <2>4. ps \in Seq(Play) /\ m \in Nat
        BY <2>1 DEF Selects
    <2> HIDE DEF ps
    <2>5. CASE plays[k].entry.track = t
        <3> DEFINE qs == Append(ps, plays[k])
                   f2 == [i \in 1..(m + 1) |-> IF i = m + 1 THEN k ELSE h[i]]
        <3>1. /\ qs \in Seq(Play) /\ Len(qs) = m + 1 /\ qs[m + 1] = plays[k]
              /\ \A i \in 1..m : qs[i] = ps[i]
            BY <2>2, <2>4
        <3>2. /\ \A i \in 1..m : /\ f2[i] = h[i] /\ h[i] \in 1..(k - 1) /\ h[i] \in Int /\ h[i] < k
                                 /\ plays[h[i]].entry.track = t
              /\ f2[m + 1] = k
            BY <2>1, <2>2, <2>4 DEF Selects
        <3> HIDE DEF qs, m
        <3>3. f2 \in [1..Len(qs) -> {i \in 1..k : plays[i].entry.track = t}]
            <4>1. \A i \in 1..(m + 1) : f2[i] \in 1..k /\ plays[f2[i]].entry.track = t
                <5> HIDE DEF f2
                <5>1. k \in 1..k /\ \A i \in 1..(k - 1) : i \in 1..k
                    BY <2>2
                <5>2. \A i \in 1..(m + 1) : i \in 1..m \/ i = m + 1
                    BY <2>4
                <5> QED BY <2>5, <3>2, <5>1, <5>2
            <4> QED BY <3>1, <4>1
        <3> HIDE DEF f2
        <3>4. \A i \in 1..(m + 1) : i \in 1..m \/ i = m + 1
            BY <2>4
        <3>5. \A i \in 1..(m + 1) : qs[i] = plays[f2[i]]
            <4>1. \A i \in 1..m : ps[i] = plays[h[i]]
                BY <2>1 DEF Selects, m
            <4> QED BY <3>1, <3>2, <3>4, <4>1
        <3>6. \A i, j \in 1..(m + 1) : i < j => f2[i] < f2[j]
            <4>1. \A i, j \in 1..m : i < j => h[i] < h[j]
                BY <2>1 DEF Selects, m
            <4>2. \A i, j \in 1..(m + 1) : i < j => i # m + 1
                BY <2>4
            <4> QED BY <3>2, <3>4, <4>1, <4>2
        <3>7. \A i \in 1..k : plays[i].entry.track = t => \E j \in 1..(m + 1) : f2[j] = i
            <4> SUFFICES ASSUME NEW i \in 1..k, plays[i].entry.track = t
                         PROVE  \E j \in 1..(m + 1) : f2[j] = i
                OBVIOUS
            <4>1. CASE i = k
                BY <2>4, <3>2, <4>1
            <4>2. CASE i # k
                <5>1. i \in 1..(k - 1)
                    BY <2>2, <4>2
                <5>2. PICK j \in 1..m : h[j] = i
                    BY <2>1, <5>1 DEF Selects, m
                <5> QED BY <2>4, <3>2, <5>2
            <4> QED BY <4>1, <4>2
        <3>8. Selects(t, k, qs, f2)
            BY <3>1, <3>3, <3>5, <3>6, <3>7 DEF Selects
        <3>9. selected[k] = qs
            BY <2>3, <2>5 DEF qs
        <3> QED BY <2>2, <3>8, <3>9
    <2>6. CASE plays[k].entry.track # t
        <3>1. selected[k] = ps
            BY <2>3, <2>6
        <3>2. \A i \in 1..k : plays[i].entry.track = t => i \in 1..(k - 1)
            BY <2>2, <2>6
        <3>3. {i \in 1..k : plays[i].entry.track = t} = {i \in 1..(k - 1) : plays[i].entry.track = t}
            BY <2>2, <3>2
        <3>4. Selects(t, k, ps, h)
            BY <2>1, <3>2, <3>3 DEF Selects
        <3> QED BY <2>2, <3>1, <3>4
    <2> QED BY <2>5, <2>6
<1>12. T = 0..n
    <2>1. T \in SUBSET (0..n)
        OBVIOUS
    <2> HIDE DEF T
    <2> QED BY <1>1, <1>10, <1>11, <2>1, Upward
<1>13. n \in T
    BY <1>1, <1>12
<1> QED BY <1>8, <1>13 DEF n

\* The indices of a track's plays, and that they are of different entries and
\* in the order of their times.
PlaysOf(t) == {i \in 1..Len(plays) : plays[i].entry.track = t}
Orderly(t) ==
    \A i, j \in PlaysOf(t) : i < j => plays[i].at <= plays[j].at /\ plays[i].entry # plays[j].entry

\* The plays that block one of the track: counted before it, less than a window ago.
Blockers(t, i) == {j \in PlaysOf(t) : j < i /\ plays[j].counted /\ plays[i].at - plays[j].at < Window}

\* A track's play counted if none blocked it.
CountedUnblocked ==
    \A t \in Tracks : Orderly(t) => \A i \in PlaysOf(t) : plays[i].counted <=> Blockers(t, i) = {}

LEMMA CountedUnblockedNext == Inv /\ CountedUnblocked /\ [Next]_vars => CountedUnblocked'
<1> SUFFICES ASSUME Inv, CountedUnblocked, [Next]_vars PROVE CountedUnblocked'
    OBVIOUS
<1> USE DEF Inv
<1>1. CASE plays' = plays
    BY <1>1 DEF CountedUnblocked, Orderly, PlaysOf, Blockers
<1>2. ASSUME NEW s \in Sessions, Commit(s) PROVE CountedUnblocked'
    <2> DEFINE n == Len(plays)
               e == tx[s].entry
               at == tx[s].at
               p == [entry |-> e, at |-> at, counted |-> tx[s].verdict = "counts"]
    <2>1. tx[s] # None /\ Decided(s) /\ e \in Entries /\ at \in Int
        BY <1>2, TxFields DEF Commit, Decided
    <2>2. /\ n \in Nat /\ Len(plays') = n + 1 /\ plays'[n + 1] = p
          /\ \A i \in 1..n : plays'[i] = plays[i]
        BY <1>2 DEF Commit, RecordEvent, TypeOK
    <2>3. p.entry = e /\ p.at = at /\ (p.counted <=> tx[s].verdict = "counts")
        OBVIOUS
    <2>4. \A i \in 1..(n + 1) : i \in 1..n \/ i = n + 1
        BY <2>2
    <2> HIDE DEF n, p
    <2> SUFFICES ASSUME NEW t \in Tracks, Orderly(t)', NEW i \in PlaysOf(t)'
                 PROVE  plays'[i].counted <=> Blockers(t, i)' = {}
        BY DEF CountedUnblocked
    <2>5. /\ PlaysOf(t) \subseteq PlaysOf(t)' /\ PlaysOf(t) \subseteq 1..n
          /\ PlaysOf(t)' \subseteq PlaysOf(t) \cup {n + 1}
        BY <2>2, <2>4 DEF PlaysOf, n
    <2>6. \A j \in PlaysOf(t) : j \in 1..n /\ j < n + 1 /\ plays'[j] = plays[j]
        BY <2>2, <2>5
    <2>7. Orderly(t)
        BY <2>5, <2>6 DEF Orderly
    <2>8. CASE i \in PlaysOf(t)
        <3>1. ~(n + 1 < i)
            BY <2>2, <2>6, <2>8
        <3>2. Blockers(t, i)' = Blockers(t, i)
            BY <2>5, <2>6, <2>8, <3>1 DEF Blockers
        <3> QED BY <2>6, <2>7, <2>8, <3>2 DEF CountedUnblocked
    <2>9. CASE i = n + 1
        <3>1. e.track = t
            BY <2>2, <2>3, <2>9 DEF PlaysOf
        <3>2. \A j \in PlaysOf(t) : plays[j].entry # e
            BY <2>2, <2>3, <2>5, <2>6, <2>9 DEF Orderly
        <3>3. ASSUME NEW j \in PlaysOf(t)
              PROVE  /\ plays[j].entry \in Entries \ {e} /\ plays[j].entry.track = t
                     /\ plays[j].at \in Int /\ plays[j].at # None
                     /\ countedPlayAt[plays[j].entry] = IF plays[j].counted THEN plays[j].at ELSE None
            <4>1. j \in 1..Len(plays) /\ plays[j].entry \in Entries /\ plays[j].at \in Int
                  /\ plays[j].entry.track = t
                BY <2>6, PlayFields DEF PlaysOf
            <4>2. \A l \in (j + 1)..Len(plays) : l \in 1..Len(plays) /\ j < l
                BY <4>1
            <4>3. \A l \in (j + 1)..Len(plays) : plays[l].entry # plays[j].entry
                BY <2>7, <4>1, <4>2 DEF Orderly, PlaysOf
            <4>4. j \in LastPlay(plays[j].entry)
                BY <4>1, <4>3 DEF LastPlay
            <4>5. plays[j].at # None
                BY <4>1
            <4> QED BY <3>2, <4>1, <4>4, <4>5 DEF StoredIsLast
        <3>4. \A f \in Entries : f.track = t /\ countedPlayAt[f] # None =>
                 \E j \in PlaysOf(t) : /\ plays[j].entry = f /\ plays[j].counted
                                       /\ plays[j].at = countedPlayAt[f]
            <4> SUFFICES ASSUME NEW f \in Entries, f.track = t, countedPlayAt[f] # None
                         PROVE  \E j \in PlaysOf(t) : /\ plays[j].entry = f /\ plays[j].counted
                                                 /\ plays[j].at = countedPlayAt[f]
                OBVIOUS
            <4>1. PICK j \in LastPlay(f) : TRUE
                BY DEF StoredIsLast
            <4>2. j \in PlaysOf(t) /\ plays[j].entry = f
                BY <4>1 DEF LastPlay, PlaysOf
            <4> QED BY <3>3, <4>2
        <3>5. Blockers(t, i)' = {j \in PlaysOf(t) : plays[j].counted /\ at - plays[j].at < Window}
            <4>1. n + 1 \notin Blockers(t, i)'
                BY <2>2, <2>9 DEF Blockers
            <4> QED BY <2>2, <2>3, <2>5, <2>6, <2>9, <4>1 DEF Blockers
        <3>6. RecentCounted(e, at) = {} <=> Blockers(t, i)' = {}
            <4>1. \A j \in PlaysOf(t) : at - plays[j].at < Window <=> plays[j].at > at - Window
                BY <2>1, <3>3
            <4>2. ASSUME NEW j \in PlaysOf(t), plays[j].counted, at - plays[j].at < Window
                  PROVE  plays[j].entry \in RecentCounted(e, at)
                BY <3>1, <3>3, <4>1, <4>2 DEF RecentCounted
            <4>3. ASSUME NEW f \in RecentCounted(e, at)
                  PROVE  \E j \in PlaysOf(t) : plays[j].counted /\ at - plays[j].at < Window
                <5>1. /\ f \in Entries /\ f.track = t /\ countedPlayAt[f] # None
                      /\ countedPlayAt[f] > at - Window
                    BY <3>1 DEF RecentCounted
                <5>2. PICK j \in PlaysOf(t) : plays[j].counted /\ plays[j].at = countedPlayAt[f]
                    BY <3>4, <5>1
                <5> QED BY <4>1, <5>1, <5>2
            <4> QED BY <3>5, <4>2, <4>3
        <3> QED BY <2>1, <2>2, <2>3, <2>9, <3>6 DEF VerdictsStand
    <2> QED BY <2>5, <2>8, <2>9
<1> QED BY <1>1, <1>2 DEF Next, vars, Qualify, LockTrack, Decide, Abort, Tick

LEMMA AgreementHolds == TypeOK /\ CountedUnblocked => AgreesWithReference
<1> SUFFICES ASSUME TypeOK, CountedUnblocked, NEW t \in Tracks
             PROVE  LET ps == TrackPlays(t)
                        times == [i \in 1..Len(ps) |-> ps[i].at]
                    IN  (\A i, j \in 1..Len(ps) :
                            i < j => times[i] <= times[j] /\ ps[i].entry # ps[j].entry) =>
                            [i \in 1..Len(ps) |-> ps[i].counted] = SelectCountedPlays(times)
    BY DEF AgreesWithReference
<1> DEFINE ps == TrackPlays(t)
           n == Len(ps)
           times == [i \in 1..n |-> ps[i].at]
           C == {i \in 1..n : ps[i].counted}
<1> SUFFICES ASSUME \A i, j \in 1..n : i < j => times[i] <= times[j] /\ ps[i].entry # ps[j].entry
             PROVE  [i \in 1..n |-> ps[i].counted] = SelectCountedPlays(times)
    OBVIOUS
<1>1. PICK h : Selects(t, Len(plays), ps, h)
    BY TrackPlaysIs
<1> HIDE DEF ps
<1>2. n \in Nat /\ \A i \in 1..n : /\ h[i] \in PlaysOf(t) /\ h[i] \in Int /\ ps[i] = plays[h[i]]
                                  /\ ps[i].at \in Int /\ ps[i].counted \in BOOLEAN
    BY <1>1, PlayFields DEF Selects, PlaysOf
<1>3. \A i, j \in 1..n : i < j <=> h[i] < h[j]
    <2>1. \A i, j \in 1..n : i < j => h[i] < h[j]
        BY <1>1 DEF Selects
    <2>2. \A i, j \in 1..n : i < j \/ i = j \/ j < i
        BY <1>2
    <2>3. \A i \in 1..n : h[i] \in Int /\ i \in Int
        BY <1>2
    <2> HIDE DEF n
    <2> QED BY <2>1, <2>2, <2>3
<1>4. \A i \in PlaysOf(t) : \E j \in 1..n : h[j] = i
    BY <1>1 DEF Selects, PlaysOf
<1>5. \A i \in 1..n : times[i] = ps[i].at
    OBVIOUS
<1>6. times \in [1..n -> Int]
    BY <1>2
<1> HIDE DEF n, times
<1>7. Orderly(t)
    BY <1>2, <1>3, <1>4, <1>5 DEF Orderly
<1>8. ASSUME NEW i \in 1..n
      PROVE  i \in C <=> ~\E j \in 1..n : j < i /\ j \in C /\ times[i] - times[j] < Window
    <2>1. i \in C <=> Blockers(t, h[i]) = {}
        BY <1>2, <1>7 DEF CountedUnblocked
    <2>2. \A j \in 1..n : j < i /\ j \in C /\ times[i] - times[j] < Window <=> h[j] \in Blockers(t, h[i])
        BY <1>2, <1>3, <1>5 DEF Blockers
    <2>3. \A x \in Blockers(t, h[i]) : \E j \in 1..n : h[j] = x
        BY <1>4 DEF Blockers
    <2> HIDE DEF C
    <2> QED BY <2>1, <2>2, <2>3
<1>9. \A i, j \in 1..n : i < j => times[i] <= times[j]
    OBVIOUS
<1>10. /\ \A i \in 1..n : SelectCountedPlays(times)[i] = (i \in C)
       /\ SelectCountedPlays(times) = [i \in 1..n |-> SelectCountedPlays(times)[i]]
    <2> HIDE DEF C
    <2>1. C \in SUBSET (1..n)
        BY DEF C
    <2>2. n \in Nat /\ Decisions(n, times, C)
        BY <1>2, <1>8, <1>9 DEF Decisions
    <2> QED BY <1>6, <2>1, <2>2, SameDecisions
<1>11. \A i \in 1..n : (i \in C) = ps[i].counted
    BY <1>2
<1> HIDE DEF C
<1>12. [i \in 1..n |-> SelectCountedPlays(times)[i]] = [i \in 1..n |-> ps[i].counted]
    BY <1>10, <1>11
<1> QED BY <1>10, <1>12

\* As long as a track's plays were recorded in the order of their times and are
\* of different entries, the decisions stored with them are the ones that
\* selectCountedPlays makes of their times, however many plays there are and
\* whichever sessions they were in.
THEOREM CountsAgree == Spec => []AgreesWithReference
<1>1. Init => CountedUnblocked
    BY DEF Init, CountedUnblocked, PlaysOf
<1>2. Inv => TypeOK
    BY DEF Inv
<1> QED BY <1>1, <1>2, Invariance, CountedUnblockedNext, AgreementHolds, PTL DEF Spec

-----------------------------------------------------------------------------
(* Places *)

\* The place of an element in a strict total order.
Place(S, R, x) == 1 + Cardinality({y \in S : <<y, x>> \in R})

LEMMA Places ==
    ASSUME NEW S, IsFiniteSet(S), NEW R,
           \A x, y, z \in S : <<x, y>> \in R /\ <<y, z>> \in R => <<x, z>> \in R,
           \A x \in S : <<x, x>> \notin R,
           \A x, y \in S : x = y \/ <<x, y>> \in R \/ <<y, x>> \in R
    PROVE  /\ \A x \in S : Place(S, R, x) \in 1..Cardinality(S)
           /\ \A x, y \in S : <<x, y>> \in R <=> Place(S, R, x) < Place(S, R, y)
           /\ \A n \in 1..Cardinality(S) : \E x \in S : Place(S, R, x) = n
<1> DEFINE Before(x) == {y \in S : <<y, x>> \in R}
           n == Cardinality(S)
           f == [x \in S |-> Place(S, R, x)]
<1>1. ASSUME NEW x \in S
      PROVE  /\ IsFiniteSet(Before(x)) /\ Cardinality(Before(x)) \in Nat
             /\ Place(S, R, x) = 1 + Cardinality(Before(x))
             /\ n \in Nat /\ Cardinality(Before(x)) < n
             /\ Place(S, R, x) \in Nat /\ Place(S, R, x) \in 1..n
    <2>1. /\ IsFiniteSet(Before(x)) /\ Cardinality(Before(x)) <= n
          /\ Cardinality(Before(x)) = n => S = Before(x)
        BY FS_Subset
    <2>2. x \notin Before(x)
        OBVIOUS
    <2>3. Cardinality(Before(x)) \in Nat /\ n \in Nat
        BY <2>1, FS_CardinalityType
    <2>4. Place(S, R, x) = 1 + Cardinality(Before(x)) /\ Cardinality(Before(x)) < n
        BY <2>1, <2>2, <2>3 DEF Place
    <2> HIDE DEF Before, n, f
    <2> QED BY <2>1, <2>3, <2>4
<1>2. ASSUME NEW x \in S, NEW y \in S, <<x, y>> \in R
      PROVE  Place(S, R, x) < Place(S, R, y)
    <2>1. Before(x) \subseteq Before(y) /\ x \in Before(y) /\ x \notin Before(x)
        BY <1>2
    <2>2. Cardinality(Before(x)) <= Cardinality(Before(y))
          /\ (Cardinality(Before(x)) = Cardinality(Before(y)) => Before(y) = Before(x))
        BY <1>1, <2>1, FS_Subset
    <2> HIDE DEF Before, f
    <2> QED BY <1>1, <2>1, <2>2
<1>3. \A x, y \in S : <<x, y>> \in R <=> Place(S, R, x) < Place(S, R, y)
    <2> SUFFICES ASSUME NEW x \in S, NEW y \in S, Place(S, R, x) < Place(S, R, y)
                 PROVE  <<x, y>> \in R
        BY <1>2
    <2>1. Place(S, R, x) \in Nat /\ Place(S, R, y) \in Nat
        BY <1>1
    <2>2. CASE x = y
        BY <2>1, <2>2
    <2>3. CASE <<y, x>> \in R
        <3>1. Place(S, R, y) < Place(S, R, x)
            BY <1>2, <2>3
        <3> QED BY <2>1, <3>1
    <2> QED BY <2>2, <2>3
<1>4. \A x \in S : Place(S, R, x) \in 1..n
    BY <1>1
<1>5. f \in Injection(S, 1..n)
    <2>1. f \in [S -> 1..n]
        BY <1>4
    <2>2. ASSUME NEW x \in S, NEW y \in S, f[x] = f[y] PROVE x = y
        <3>1. Place(S, R, x) = Place(S, R, y) /\ Place(S, R, x) \in Nat
            BY <1>1, <2>2
        <3>2. ~(Place(S, R, x) < Place(S, R, y)) /\ ~(Place(S, R, y) < Place(S, R, x))
            BY <3>1
        <3> HIDE DEF f
        <3> QED BY <1>3, <3>2
    <2> HIDE DEF f
    <2> QED BY <2>1, <2>2 DEF Injection, IsInjective
<1>6. f \in Surjection(S, 1..n)
    <2>1. n \in Nat
        BY FS_CardinalityType
    <2>2. n = Cardinality(S)
        OBVIOUS
    <2> HIDE DEF f, n
    <2>3. IsFiniteSet(1..n) /\ Cardinality(1..n) = n
        BY <2>1, FS_Interval
    <2> QED BY <1>5, <2>2, <2>3, FS_Injection
<1>7. ASSUME NEW k \in 1..n PROVE \E x \in S : Place(S, R, x) = k
    <2>1. PICK x \in S : f[x] = k
        <3> HIDE DEF f
        <3> QED BY <1>6 DEF Surjection
    <2> QED BY <2>1
<1> QED BY <1>3, <1>4, <1>7

-----------------------------------------------------------------------------
(* The chart *)

\* A set of times has a last one.
LEMMA LatestTime ==
    ASSUME NEW T \in SUBSET Time, T # {}
    PROVE  \E at \in T : \A u \in T : u <= at
<1> DEFINE M == {MaxTime - u : u \in T}
<1>1. M \in SUBSET Nat /\ M # {}
    BY DEF Time
<1>2. PICK n \in M : \A m \in M : n <= m
    <2> HIDE DEF M
    <2> QED BY <1>1, LeastNumber
<1>3. PICK at \in T : n = MaxTime - at
    OBVIOUS
<1>4. ASSUME NEW u \in T PROVE u <= at
    <2>1. MaxTime - u \in M
        OBVIOUS
    <2>2. MaxTime - at <= MaxTime - u
        BY <1>2, <1>3, <2>1
    <2> QED BY <2>2 DEF Time
<1> QED BY <1>4

\* The ids are in some order.
LEMMA Ids ==
    /\ IdOrder \in [Tracks -> Int]
    /\ \A t, u \in Tracks : IdOrder[t] = IdOrder[u] => t = u
<1> DEFINE n == Cardinality(Tracks)
<1>1. PICK g \in Bijection(1..n, Tracks) : TRUE
    BY FS_CardinalityType DEF ExistsBijection
<1>2. n \in Nat
    BY FS_CardinalityType
<1> DEFINE f == [t \in Tracks |-> CHOOSE i \in 1..n : g[i] = t]
<1>3. \A t \in Tracks : f[t] \in 1..n /\ g[f[t]] = t
    <2>1. \A t \in Tracks : \E i \in 1..n : g[i] = t
        BY <1>1 DEF Bijection, Surjection
    <2> QED BY <2>1
<1>4. f \in [Tracks -> 1..n] /\ \A t, u \in Tracks : f[t] = f[u] => t = u
    <2>1. f \in [Tracks -> 1..n]
        BY <1>3
    <2>2. \A t, u \in Tracks : f[t] = f[u] => g[f[t]] = g[f[u]]
        OBVIOUS
    <2> QED BY <1>3, <2>1, <2>2
<1> HIDE DEF f
<1>5. /\ IdOrder \in [Tracks -> 1..n]
      /\ \A t, u \in Tracks : IdOrder[t] = IdOrder[u] => t = u
    BY <1>4 DEF IdOrder
<1> QED BY <1>2, <1>5

\* An item of the chart: what Aggregates has for a track.
Of(t, sessions, week) == {e \in Played(sessions, week) : e.track = t}

Item(t, sessions, week) ==
    [track |-> t, count |-> Cardinality(Of(t, sessions, week)),
     last |-> CHOOSE at \in {countedPlayAt[e] : e \in Of(t, sessions, week)} :
                \A e \in Of(t, sessions, week) : countedPlayAt[e] <= at]

LEMMA AggregatesAre ==
    ASSUME NEW sessions, NEW week
    PROVE  Aggregates(sessions, week) =
              {Item(t, sessions, week) : t \in {e.track : e \in Played(sessions, week)}}
BY DEF Aggregates, Item, Of

LEMMA ItemsTyped ==
    ASSUME TypeOK, NEW sessions \in SUBSET Sessions, NEW week,
           NEW i \in Aggregates(sessions, week)
    PROVE  /\ i.track \in Tracks /\ i.last \in Int
           /\ i = Item(i.track, sessions, week)
           /\ Of(i.track, sessions, week) # {}
           /\ IsFiniteSet(Of(i.track, sessions, week))
           /\ i.count = Cardinality(Of(i.track, sessions, week)) /\ i.count \in Nat \ {0}
<1>1. PICK e \in Played(sessions, week) : i = Item(e.track, sessions, week)
    BY AggregatesAre
<1> DEFINE t == e.track
           all == Of(t, sessions, week)
<1>2. e \in all /\ t \in Tracks /\ all \subseteq Entries
    BY <1>1 DEF Of, Played
<1>3. IsFiniteSet(all) /\ Cardinality(all) \in Nat /\ Cardinality(all) # 0
    <2>1. IsFiniteSet(all)
        BY <1>2, FS_Subset
    <2> QED BY <1>2, <2>1, FS_CardinalityType, FS_EmptySet
<1>4. i.track = t /\ i.count = Cardinality(all)
      /\ i.last = CHOOSE at \in {countedPlayAt[f] : f \in all} : \A f \in all : countedPlayAt[f] <= at
    BY <1>1 DEF Item
<1>5. {countedPlayAt[f] : f \in all} \in SUBSET Time /\ {countedPlayAt[f] : f \in all} # {}
    BY <1>2 DEF Of, Played, TypeOK
<1>6. PICK at \in {countedPlayAt[f] : f \in all} : \A u \in {countedPlayAt[f] : f \in all} : u <= at
    <2> HIDE DEF all
    <2> QED BY <1>5, LatestTime
<1>7. i.last \in {countedPlayAt[f] : f \in all}
    BY <1>4, <1>6
<1>8. i.last \in Int
    BY <1>5, <1>7 DEF Time
<1> QED BY <1>1, <1>2, <1>3, <1>4, <1>8

LEMMA ItemsFinite ==
    ASSUME NEW sessions \in SUBSET Sessions, NEW week
    PROVE  IsFiniteSet(Aggregates(sessions, week))
<1> DEFINE S == Played(sessions, week)
           items == Aggregates(sessions, week)
           f == [e \in S |-> Item(e.track, sessions, week)]
<1>1. IsFiniteSet(S)
    BY FS_Subset DEF Played
<1>2. f \in [S -> items] /\ \A i \in items : \E e \in S : f[e] = i
    BY AggregatesAre
<1>3. f \in Surjection(S, items)
    <2> HIDE DEF f, S, items
    <2> QED BY <1>2 DEF Surjection
<1> HIDE DEF f, S
<1> QED BY <1>1, <1>3, FS_Surjection

\* Ahead, as a set of pairs.
Order(items) == {o \in items \X items : Ahead(o[1], o[2])}

LEMMA OrderIsStrict ==
    ASSUME TypeOK, NEW sessions \in SUBSET Sessions, NEW week
    PROVE  LET items == Aggregates(sessions, week)
               R == Order(items)
           IN  /\ \A x, y \in items : <<x, y>> \in R <=> Ahead(x, y)
               /\ \A x, y, z \in items : <<x, y>> \in R /\ <<y, z>> \in R => <<x, z>> \in R
               /\ \A x \in items : <<x, x>> \notin R
               /\ \A x, y \in items : x = y \/ <<x, y>> \in R \/ <<y, x>> \in R
<1> DEFINE items == Aggregates(sessions, week)
           R == Order(items)
<1>1. \A x, y \in items : <<x, y>> \in R <=> Ahead(x, y)
    BY DEF Order
<1>2. \A x \in items : /\ x.count \in Int /\ x.last \in Int /\ IdOrder[x.track] \in Int
                       /\ x.track \in Tracks /\ x = Item(x.track, sessions, week)
    BY ItemsTyped, Ids
<1>3. \A x, y \in items : IdOrder[x.track] = IdOrder[y.track] => x = y
    BY <1>2, Ids
<1> HIDE DEF R, items
<1>4. \A x, y, z \in items : Ahead(x, y) /\ Ahead(y, z) => Ahead(x, z)
    BY <1>2 DEF Ahead
<1>5. \A x \in items : ~Ahead(x, x)
    BY <1>2 DEF Ahead
<1>6. \A x, y \in items : x = y \/ Ahead(x, y) \/ Ahead(y, x)
    BY <1>2, <1>3 DEF Ahead
<1>7. /\ \A x, y, z \in items : <<x, y>> \in R /\ <<y, z>> \in R => <<x, z>> \in R
      /\ \A x \in items : <<x, x>> \notin R
      /\ \A x, y \in items : x = y \/ <<x, y>> \in R \/ <<y, x>> \in R
    BY <1>1, <1>4, <1>5, <1>6
<1> QED BY <1>1, <1>7 DEF R, items

\* The chart's places are the first ones, each item has the one the order
\* gives it, and the items it leaves out are behind all that it shows.
LEMMA ChartPlaces ==
    ASSUME TypeOK, ClockAssumption, NEW sessions \in SUBSET Sessions, NEW week
    PROVE  LET items == Aggregates(sessions, week)
               n     == Cardinality(items)
               chart == getWeeklyTop3(sessions, week)
           IN  /\ n \in Nat
               /\ DOMAIN chart = {p \in 1..n : p <= ChartSize}
               /\ \A p \in DOMAIN chart : chart[p] \in items
               /\ \A i \in items : \/ \E p \in DOMAIN chart : chart[p] = i
                                   \/ n > ChartSize /\ \A p \in DOMAIN chart : Ahead(chart[p], i)
<1> DEFINE items == Aggregates(sessions, week)
           n     == Cardinality(items)
           chart == getWeeklyTop3(sessions, week)
           R     == Order(items)
           rank(i) == Place(items, R, i)
           first == {i \in items : rank(i) <= ChartSize}
<1>1. IsFiniteSet(items) /\ n \in Nat
    BY ItemsFinite, FS_CardinalityType
<1>2. /\ \A x, y \in items : <<x, y>> \in R <=> Ahead(x, y)
      /\ \A x, y, z \in items : <<x, y>> \in R /\ <<y, z>> \in R => <<x, z>> \in R
      /\ \A x \in items : <<x, x>> \notin R
      /\ \A x, y \in items : x = y \/ <<x, y>> \in R \/ <<y, x>> \in R
    BY OrderIsStrict
<1>3. /\ \A x \in items : rank(x) \in 1..n
      /\ \A x, y \in items : <<x, y>> \in R <=> rank(x) < rank(y)
      /\ \A k \in 1..n : \E x \in items : rank(x) = k
    <2> HIDE DEF items, R
    <2> QED BY <1>1, <1>2, Places
<1>4. chart = [place \in {rank(i) : i \in first} |-> CHOOSE i \in first : rank(i) = place]
    <2>1. ASSUME NEW i \in items PROVE {j \in items : <<j, i>> \in R} = {j \in items : Ahead(j, i)}
        BY <1>2
    <2>2. ASSUME NEW i \in items PROVE rank(i) = 1 + Cardinality({j \in items : Ahead(j, i)})
        BY <2>1 DEF Place
    <2> DEFINE r(i) == 1 + Cardinality({j \in items : Ahead(j, i)})
               top == {i \in items : r(i) <= ChartSize}
    <2>3. chart = [place \in {r(i) : i \in top} |-> CHOOSE i \in top : r(i) = place]
        BY DEF getWeeklyTop3
    <2>4. \A i \in items : r(i) = rank(i)
        BY <2>2
    <2> HIDE DEF r, rank, items, R, chart
    <2>5. top = first
        BY <2>4
    <2>6. {r(i) : i \in top} = {rank(i) : i \in first}
        BY <2>4, <2>5
    <2>7. ASSUME NEW place
          PROVE  (CHOOSE i \in top : r(i) = place) = CHOOSE i \in first : rank(i) = place
        <3>1. \A i : (i \in top /\ r(i) = place) <=> (i \in first /\ rank(i) = place)
            BY <2>4, <2>5
        <3> QED BY <3>1
    <2> QED BY <2>3, <2>6, <2>7
<1> HIDE DEF rank, items, R, chart, n
<1>5. ChartSize \in Nat
    BY DEF ClockAssumption
<1>6. DOMAIN chart = {p \in 1..n : p <= ChartSize}
    <2>1. DOMAIN chart = {rank(i) : i \in first}
        BY <1>4
    <2> QED BY <1>3, <2>1
<1>7. ASSUME NEW p \in DOMAIN chart PROVE chart[p] \in items /\ rank(chart[p]) = p
    <2>1. \E i \in first : rank(i) = p
        BY <1>4, <1>7
    <2> QED BY <1>4, <1>7, <2>1
<1>8. ASSUME NEW i \in items
      PROVE  \/ \E p \in DOMAIN chart : chart[p] = i
             \/ n > ChartSize /\ \A p \in DOMAIN chart : Ahead(chart[p], i)
    <2>1. CASE rank(i) <= ChartSize
        <3>1. rank(i) \in DOMAIN chart
            BY <1>3, <1>6, <2>1
        <3>2. chart[rank(i)] \in items /\ rank(chart[rank(i)]) = rank(i)
            BY <1>7, <3>1
        <3>3. \A x \in items : rank(x) = rank(i) => x = i
            BY <1>2, <1>3
        <3> QED BY <3>1, <3>2, <3>3
    <2>2. CASE rank(i) > ChartSize
        <3>1. n > ChartSize
            BY <1>1, <1>3, <1>5, <2>2
        <3>2. \A p \in DOMAIN chart : rank(chart[p]) < rank(i)
            BY <1>3, <1>5, <1>6, <1>7, <2>2
        <3> QED BY <1>2, <1>3, <1>7, <3>1, <3>2
    <2> QED BY <1>3, <1>5, <2>1, <2>2
<1> QED BY <1>1, <1>6, <1>7, <1>8 DEF items, n, chart

-----------------------------------------------------------------------------
(* The weeks *)

LEMMA LocalIsInt == ASSUME ClockAssumption, NEW t \in Int PROVE Local(t) \in Int
BY DEF ClockAssumption, Local

\* New York's midnight is an hour earlier of UTC when the clocks are ahead.
LEMMA MidnightIs ==
    ASSUME ClockAssumption, NEW day \in Int
    PROVE  /\ nyMidnightToUtc(day) \in Int
           /\ nyMidnightToUtc(day) = IF day * Day + Standard \in Daylight
                                     THEN day * Day + Standard - 1 ELSE day * Day + Standard
<1> DEFINE m == day * Day
<1>1. m \in Int /\ Standard \in Int
    BY DEF ClockAssumption
<1>2. nyMidnightToUtc(day) = (m + Standard) - (Local(m + Standard) - m)
    BY DEF nyMidnightToUtc
<1> HIDE DEF m
<1>3. /\ nyMidnightToUtc(day) \in Int
      /\ nyMidnightToUtc(day) = IF m + Standard \in Daylight THEN m + Standard - 1 ELSE m + Standard
    BY <1>1, <1>2 DEF Local
<1> QED BY <1>3 DEF m

\* A tick is at or past the midnight of a day just when the clock in New York
\* shows that day or a later one.
LEMMA MidnightDivides ==
    ASSUME ClockAssumption, NEW day \in Int, NEW t \in Int
    PROVE  nyMidnightToUtc(day) <= t <=> day * Day <= Local(t)
<1> DEFINE m == day * Day
           cand == m + Standard
<1>1. m \in Int /\ Standard \in Int /\ Day \in Nat \ {0}
    BY DEF ClockAssumption
<1>2. AtMidnight(cand) /\ cand - 1 + 1 = cand
    <2>1. m % Day = 0
        BY <1>1, Multiple
    <2> HIDE DEF m
    <2>2. cand - Standard = m /\ cand - 1 + 1 = cand
        BY <1>1
    <2> QED BY <2>1, <2>2 DEF AtMidnight
<1>3. cand \in Daylight <=> cand - 1 \in Daylight
    <2> DEFINE before == cand - 1
    <2> HIDE DEF m, cand
    <2>1. cand \in Daylight => cand - 1 \in Daylight
        BY <1>2 DEF ClockAssumption
    <2>2. before \in Daylight => before + 1 \in Daylight
        <3>1. AtMidnight(before + 1)
            BY <1>2
        <3> HIDE DEF before
        <3> QED BY <3>1 DEF ClockAssumption
    <2> QED BY <1>2, <2>1, <2>2
<1>4. nyMidnightToUtc(day) = IF cand \in Daylight THEN cand - 1 ELSE cand
    <2> HIDE DEF m
    <2>1. nyMidnightToUtc(day) = IF m + Standard \in Daylight THEN m + Standard - 1 ELSE m + Standard
        BY MidnightIs DEF m
    <2> QED BY <1>1, <2>1
<1> HIDE DEF m
<1>5. nyMidnightToUtc(day) <= t <=> m <= Local(t)
    <2>1. CASE t < cand - 1
        BY <1>1, <1>4, <2>1 DEF Local
    <2>2. CASE t = cand - 1
        BY <1>1, <1>3, <1>4, <2>2 DEF Local
    <2>3. CASE t > cand - 1
        BY <1>1, <1>4, <2>3 DEF Local
    <2> QED BY <1>1, <2>1, <2>2, <2>3
<1> QED BY <1>5 DEF m

\* The day a week starts on, and that it is the only such day.
LEMMA WeekStarts ==
    ASSUME ClockAssumption, NEW t \in Int
    PROVE  \E d \in Int :
              /\ d % DaysInWeek = 0
              /\ getCurrentWeeklyPeriod(t) = [start |-> nyMidnightToUtc(d),
                                              end |-> nyMidnightToUtc(d + DaysInWeek)]
              /\ nyMidnightToUtc(d) <= t /\ t < nyMidnightToUtc(d + DaysInWeek)
<1> DEFINE day == Local(t) \div Day
           d == day - (day % DaysInWeek)
<1>1. Day \in Nat \ {0} /\ DaysInWeek \in Nat \ {0} /\ Local(t) \in Int
    BY LocalIsInt DEF ClockAssumption
<1>2. day \in Int /\ day * Day <= Local(t) /\ Local(t) < day * Day + Day
    <2>1. Day * day <= Local(t) /\ Local(t) < Day * day + Day /\ day \in Int
        BY <1>1, Quotient
    <2> HIDE DEF day
    <2> QED BY <1>1, <2>1
<1>3. PICK w \in Int : d = DaysInWeek * w /\ d <= day /\ day < d + DaysInWeek
    <2> HIDE DEF day
    <2>1. /\ day \div DaysInWeek \in Int
          /\ DaysInWeek * (day \div DaysInWeek) <= day
          /\ day < DaysInWeek * (day \div DaysInWeek) + DaysInWeek
          /\ day % DaysInWeek = day - DaysInWeek * (day \div DaysInWeek)
        BY <1>1, <1>2, Quotient
    <2> QED BY <1>1, <1>2, <2>1
<1>4. d \in Int /\ d % DaysInWeek = 0
    <2> HIDE DEF d
    <2>1. d = w * DaysInWeek
        BY <1>1, <1>3
    <2> QED BY <1>1, <2>1, Multiple
<1>5. getCurrentWeeklyPeriod(t) = [start |-> nyMidnightToUtc(d), end |-> nyMidnightToUtc(d + DaysInWeek)]
    BY DEF getCurrentWeeklyPeriod
<1> HIDE DEF day, d
<1>6. d * Day <= Local(t)
    <2>1. (day - d) * Day >= 0
        BY <1>1, <1>2, <1>3, <1>4
    <2> QED BY <1>1, <1>2, <1>4, <2>1
<1>7. Local(t) < (d + DaysInWeek) * Day
    <2>1. (d + DaysInWeek - day - 1) * Day >= 0
        BY <1>1, <1>2, <1>3, <1>4
    <2>2. (d + DaysInWeek) * Day >= day * Day + Day
        BY <1>1, <1>2, <1>4, <2>1
    <2> QED BY <1>1, <1>2, <1>4, <2>2
<1>8. nyMidnightToUtc(d) <= t /\ ~(nyMidnightToUtc(d + DaysInWeek) <= t)
    BY <1>1, <1>4, <1>6, <1>7, MidnightDivides
<1>9. nyMidnightToUtc(d + DaysInWeek) \in Int
    BY <1>1, <1>4, MidnightIs
<1> QED BY <1>4, <1>5, <1>8, <1>9

\* Of the days a week may start on, at most one has a tick in its week.
LEMMA OneWeek ==
    ASSUME ClockAssumption, NEW t \in Int, NEW c \in Int, NEW d \in Int,
           c % DaysInWeek = 0, d % DaysInWeek = 0,
           nyMidnightToUtc(c) <= t, t < nyMidnightToUtc(c + DaysInWeek),
           nyMidnightToUtc(d) <= t, t < nyMidnightToUtc(d + DaysInWeek)
    PROVE  c = d
<1>1. Day \in Nat \ {0} /\ DaysInWeek \in Nat \ {0} /\ Local(t) \in Int
    BY LocalIsInt DEF ClockAssumption
<1>2. /\ c * Day <= Local(t) /\ Local(t) < (c + DaysInWeek) * Day
      /\ d * Day <= Local(t) /\ Local(t) < (d + DaysInWeek) * Day
    BY <1>1, MidnightDivides, MidnightIs
<1>3. (c - d - DaysInWeek) * Day < 0 /\ (d - c - DaysInWeek) * Day < 0
    BY <1>1, <1>2
<1>4. c - d < DaysInWeek /\ d - c < DaysInWeek
    BY <1>1, <1>3
<1>5. PICK v \in Int, w \in Int : c = DaysInWeek * v /\ d = DaysInWeek * w
    BY <1>1, Whole
<1>6. DaysInWeek * (v - w - 1) < 0 /\ DaysInWeek * (w - v - 1) < 0
    BY <1>1, <1>4, <1>5
<1>7. v - w < 1 /\ w - v < 1
    BY <1>1, <1>6
<1> QED BY <1>5, <1>7

LEMMA WeekOf ==
    ASSUME ClockAssumption, NEW t \in Int, NEW d \in Int, d % DaysInWeek = 0,
           nyMidnightToUtc(d) <= t, t < nyMidnightToUtc(d + DaysInWeek)
    PROVE  getCurrentWeeklyPeriod(t) = [start |-> nyMidnightToUtc(d),
                                        end |-> nyMidnightToUtc(d + DaysInWeek)]
BY WeekStarts, OneWeek

\* The weeks divide time: every tick is in the week it names and in no other,
\* and where one ends the next one starts, whenever the clocks of New York
\* change, as long as they do not at midnight.
THEOREM WeeksTile == WeeksPartition(Int)
<1> USE ClockConstants
<1> SUFFICES ASSUME NEW t \in Int
             PROVE  LET week == getCurrentWeeklyPeriod(t)
                    IN  /\ week.start <= t /\ t < week.end
                        /\ getCurrentWeeklyPeriod(week.start) = week
                        /\ getCurrentWeeklyPeriod(week.end).start = week.end
    BY DEF WeeksPartition
<1>1. PICK d \in Int :
        /\ d % DaysInWeek = 0
        /\ getCurrentWeeklyPeriod(t) = [start |-> nyMidnightToUtc(d), end |-> nyMidnightToUtc(d + DaysInWeek)]
        /\ nyMidnightToUtc(d) <= t /\ t < nyMidnightToUtc(d + DaysInWeek)
    BY WeekStarts
<1> DEFINE next == d + DaysInWeek
<1>2. DaysInWeek \in Nat \ {0} /\ Day \in Nat \ {0} /\ next \in Int /\ next + DaysInWeek \in Int
    BY DEF ClockAssumption
<1>3. next % DaysInWeek = 0
    <2>1. PICK q \in Int : d = DaysInWeek * q
        BY <1>1, <1>2, Whole
    <2>2. next = (q + 1) * DaysInWeek /\ q + 1 \in Int
        BY <1>2, <2>1
    <2> QED BY <1>2, <2>2, Multiple
<1>4. /\ nyMidnightToUtc(d) \in Int /\ nyMidnightToUtc(next) \in Int
      /\ nyMidnightToUtc(next + DaysInWeek) \in Int
    BY <1>2, MidnightIs
<1>5. getCurrentWeeklyPeriod(nyMidnightToUtc(d)) = getCurrentWeeklyPeriod(t)
    BY <1>1, <1>2, <1>4, WeekOf
<1>6. nyMidnightToUtc(next) < nyMidnightToUtc(next + DaysInWeek)
    <2> HIDE DEF next
    <2>1. (next + DaysInWeek) * Day >= next * Day + Day /\ next * Day \in Int
        BY <1>2
    <2>2. Standard \in 1..(Day - 1)
        BY DEF ClockAssumption
    <2>3. (next + DaysInWeek) * Day \in Int
        BY <1>2
    <2> QED BY <1>2, <2>1, <2>2, <2>3, MidnightIs
<1>7. getCurrentWeeklyPeriod(nyMidnightToUtc(next)).start = nyMidnightToUtc(next)
    <2> HIDE DEF next
    <2>1. getCurrentWeeklyPeriod(nyMidnightToUtc(next)) =
            [start |-> nyMidnightToUtc(next), end |-> nyMidnightToUtc(next + DaysInWeek)]
        BY <1>2, <1>3, <1>4, <1>6, WeekOf
    <2> QED BY <2>1
<1> QED BY <1>1, <1>5, <1>7

-----------------------------------------------------------------------------
(* What the chart shows was earned *)

LEMMA WeekIsInt ==
    ASSUME ClockAssumption, NEW week \in Weeks
    PROVE  week.start \in Int /\ week.end \in Int
<1>1. PICK t \in Time : week = getCurrentWeeklyPeriod(t)
    BY DEF Weeks
<1>2. PICK d \in Int : week = [start |-> nyMidnightToUtc(d), end |-> nyMidnightToUtc(d + DaysInWeek)]
    BY <1>1, WeekStarts DEF Time
<1>3. d + DaysInWeek \in Int
    BY DEF ClockAssumption
<1> QED BY <1>2, <1>3, MidnightIs

\* The plays that count in a span are as many as the windows that begin in it.
LEMMA PlaysInSpan ==
    ASSUME TypeOK, CountsSpaced, NEW sessions \in SUBSET Sessions, NEW week,
           week.start \in Int, week.end \in Int, NEW t, Of(t, sessions, week) # {}
    PROVE  Cardinality(Of(t, sessions, week)) <= (week.end - week.start + Window - 1) \div Window
<1> DEFINE S == Of(t, sessions, week)
           length == week.end - week.start
           q == (length + Window - 1) \div Window
           past(e) == countedPlayAt[e] - week.start
           f == [e \in S |-> past(e) \div Window]
<1>1. \A e \in S : /\ past(e) \in Int /\ 0 <= past(e) /\ past(e) < length
                   /\ e \in Entries /\ countedPlayAt[e] # None /\ countedPlayAt[e] \in Int /\ e.track = t
    BY DEF Of, Played, TypeOK, Time
<1>2. length \in Int /\ Window \in Nat \ {0} /\ length + Window - 1 \in Int
    OBVIOUS
<1>3. q \in Int /\ length + Window - 1 < Window * q + Window
    <2> HIDE DEF length
    <2> QED BY <1>2, Quotient
<1> HIDE DEF q, length
<1>4. ASSUME NEW e \in S
      PROVE  /\ f[e] \in 0..(q - 1)
             /\ Window * f[e] <= past(e) /\ past(e) < Window * f[e] + Window
    <2> DEFINE x == past(e)
               k == x \div Window
    <2>1. x \in Int /\ 0 <= x /\ x < length
        BY <1>1
    <2> HIDE DEF x
    <2>2. k \in Int /\ Window * k <= x /\ x < Window * k + Window
        BY <1>2, <2>1, Quotient
    <2> HIDE DEF k
    <2>3. Window * (k + 1) > 0 /\ Window * (k - q) < 0
        BY <1>2, <1>3, <2>1, <2>2
    <2>4. k + 1 > 0 /\ k - q < 0
        BY <1>2, <1>3, <2>2, <2>3
    <2>5. f[e] = k
        BY DEF k, x
    <2> QED BY <1>3, <2>2, <2>4, <2>5 DEF x
<1>5. ASSUME NEW d \in S, NEW e \in S, f[d] = f[e] PROVE d = e
    <2>1. /\ past(d) \in Int /\ past(e) \in Int /\ f[d] \in Int
          /\ past(d) - past(e) < Window /\ past(e) - past(d) < Window
        <3> DEFINE x == past(d)
                   y == past(e)
                   k == f[d]
        <3>1. x \in Int /\ y \in Int
            BY <1>1
        <3>2. k \in Int /\ Window * k <= x /\ x < Window * k + Window
              /\ Window * k <= y /\ y < Window * k + Window
            BY <1>3, <1>4, <1>5
        <3> HIDE DEF x, y, k
        <3>3. x - y < Window /\ y - x < Window
            BY <1>2, <3>1, <3>2
        <3> QED BY <3>1, <3>2, <3>3 DEF x, y, k
    <2>2. countedPlayAt[d] - countedPlayAt[e] < Window /\ countedPlayAt[e] - countedPlayAt[d] < Window
        BY <1>1, <2>1
    <2> QED BY <1>1, <1>2, <2>2 DEF CountsSpaced
<1>6. f \in Injection(S, 0..(q - 1))
    <2>1. f \in [S -> 0..(q - 1)]
        BY <1>4
    <2> HIDE DEF f, S
    <2> QED BY <1>5, <2>1 DEF Injection, IsInjective
<1>7. q - 1 >= 0
    BY <1>3, <1>4
<1>8. IsFiniteSet(0..(q - 1)) /\ Cardinality(0..(q - 1)) = q
    <2> DEFINE k == q - 1
    <2>1. k \in Int /\ 0 \in Int /\ 0 <= k /\ k - 0 + 1 = q
        BY <1>3, <1>7
    <2> HIDE DEF k
    <2>2. IsFiniteSet(0..k) /\ Cardinality(0..k) = k - 0 + 1
        BY <2>1, Interval
    <2> QED BY <2>1, <2>2 DEF k
<1>9. Cardinality(S) <= q
    <2> HIDE DEF f, S
    <2> QED BY <1>6, <1>8, FS_Injection
<1> QED BY <1>9 DEF q, length

\* The entries the chart reads are as many as the plays that counted, without
\* those that were overwritten: each has the play that was its last.
LEMMA EarnedIsPlayed ==
    ASSUME TypeOK, StoredIsLast, NEW sessions, NEW week, NEW t
    PROVE  /\ Cardinality(Of(t, sessions, week)) \in Nat
           /\ Cardinality(Earned(t, sessions, week)) \in Nat
           /\ Cardinality(Of(t, sessions, week)) <= Cardinality(Earned(t, sessions, week))
           /\ Overwritten(t, sessions, week) = {} =>
                 Cardinality(Of(t, sessions, week)) = Cardinality(Earned(t, sessions, week))
<1> DEFINE O == Of(t, sessions, week)
           E == Earned(t, sessions, week)
           f == [e \in O |-> CHOOSE i \in LastPlay(e) : TRUE]
<1>1. ASSUME NEW e \in O
      PROVE  f[e] \in E /\ plays[f[e]].entry = e
    <2>1. /\ e \in Entries /\ e.track = t /\ e.session \in sessions /\ countedPlayAt[e] # None
          /\ week.start <= countedPlayAt[e] /\ countedPlayAt[e] < week.end
        BY DEF Of, Played
    <2>2. LastPlay(e) # {}
        BY <2>1 DEF StoredIsLast
    <2>3. f[e] \in LastPlay(e)
        BY <2>2
    <2>4. PICK i : i = f[e]
        OBVIOUS
    <2> HIDE DEF f
    <2>5. i \in 1..Len(plays) /\ plays[i].entry = e
        BY <2>3, <2>4 DEF LastPlay
    <2>6. countedPlayAt[e] = IF plays[i].counted THEN plays[i].at ELSE None
        BY <2>1, <2>3, <2>4 DEF StoredIsLast
    <2> QED BY <2>1, <2>4, <2>5, <2>6 DEF Earned
<1>2. IsFiniteSet(E)
    <2>1. Len(plays) \in Nat /\ 1..Len(plays) = IF Len(plays) = 0 THEN {} ELSE 1..Len(plays)
        BY DEF TypeOK
    <2>2. IsFiniteSet(1..Len(plays))
        <3>1. CASE Len(plays) = 0
            BY <2>1, <3>1, FS_EmptySet
        <3>2. CASE Len(plays) # 0
            <4> DEFINE n == Len(plays)
            <4>1. 1 \in Int /\ n \in Int /\ 1 <= n
                BY <2>1, <3>2
            <4> HIDE DEF n
            <4>2. IsFiniteSet(1..n)
                BY <4>1, Interval
            <4> QED BY <4>2 DEF n
        <3> QED BY <3>1, <3>2
    <2>3. E \subseteq 1..Len(plays)
        BY DEF Earned
    <2> QED BY <2>2, <2>3, FS_Subset
<1>3. f \in Injection(O, E)
    <2>1. f \in [O -> E]
        BY <1>1
    <2>2. \A d, e \in O : f[d] = f[e] => d = e
        BY <1>1
    <2> HIDE DEF f, O, E
    <2> QED BY <2>1, <2>2 DEF Injection, IsInjective
<1>4. ASSUME Overwritten(t, sessions, week) = {} PROVE f \in Surjection(O, E)
    <2>1. ASSUME NEW i \in E PROVE \E e \in O : f[e] = i
        <3>1. /\ i \in 1..Len(plays) /\ plays[i].counted
              /\ plays[i].entry.track = t /\ plays[i].entry.session \in sessions
              /\ week.start <= plays[i].at /\ plays[i].at < week.end
            BY DEF Earned
        <3>2. PICK e : e = plays[i].entry
            OBVIOUS
        <3>3. e \in Entries /\ plays[i].at # None
            BY <3>1, <3>2, PlayFields
        <3>4. \A j \in i + 1..Len(plays) : plays[j].entry # e
            BY <1>4, <3>2 DEF Overwritten
        <3>5. i \in LastPlay(e)
            BY <3>1, <3>2, <3>4 DEF LastPlay
        <3>6. countedPlayAt[e] = plays[i].at
            BY <3>1, <3>3, <3>5 DEF StoredIsLast
        <3>7. e \in O
            BY <3>1, <3>2, <3>3, <3>6 DEF Of, Played
        <3>8. \A j \in LastPlay(e) : j = i
            BY <3>5 DEF LastPlay, TypeOK
        <3>9. f[e] = i
            BY <3>5, <3>7, <3>8
        <3> QED BY <3>7, <3>9
    <2>2. f \in [O -> E]
        BY <1>1
    <2> HIDE DEF f, O, E
    <2> QED BY <2>1, <2>2 DEF Surjection
<1>5. Cardinality(E) \in Nat
    <2> HIDE DEF E
    <2> QED BY <1>2, FS_CardinalityType
<1>6. IsFiniteSet(O) /\ Cardinality(O) <= Cardinality(E)
      /\ (f \in Surjection(O, E) => Cardinality(O) = Cardinality(E))
    <2> HIDE DEF f, O, E
    <2> QED BY <1>2, <1>3, FS_Injection
<1>7. Cardinality(O) \in Nat
    <2> HIDE DEF O
    <2> QED BY <1>6, FS_CardinalityType
<1> QED BY <1>4, <1>5, <1>6, <1>7

LEMMA ChartStep == ClockAssumption /\ Inv => ChartIsEarned
<1> SUFFICES ASSUME ClockAssumption, Inv, NEW sessions \in SUBSET Sessions, NEW week \in Weeks
             PROVE  LET chart == getWeeklyTop3(sessions, week)
                        Sum(t) == Cardinality(Earned(t, sessions, week))
                        Intact(t) == Overwritten(t, sessions, week) = {}
                    IN  /\ DOMAIN chart = 1..Cardinality(DOMAIN chart)
                        /\ \A p \in DOMAIN chart :
                              /\ chart[p].count <= Sum(chart[p].track)
                              /\ Intact(chart[p].track) => chart[p].count = Sum(chart[p].track)
                              /\ chart[p].count <= (week.end - week.start + Window - 1) \div Window
                        /\ \A t \in Tracks \ {chart[p].track : p \in DOMAIN chart} :
                              Sum(t) > 0 /\ Intact(t) =>
                                 /\ Cardinality(DOMAIN chart) = ChartSize
                                 /\ \A p \in DOMAIN chart : Sum(t) <= chart[p].count
    BY DEF ChartIsEarned
<1> USE DEF Inv
<1> DEFINE chart == getWeeklyTop3(sessions, week)
           items == Aggregates(sessions, week)
           n == Cardinality(items)
           Sum(t) == Cardinality(Earned(t, sessions, week))
           Intact(t) == Overwritten(t, sessions, week) = {}
           Shows(t) == Cardinality(Of(t, sessions, week))
<1>1. week.start \in Int /\ week.end \in Int /\ ChartSize \in Nat
    BY WeekIsInt DEF ClockAssumption
<1>2. /\ n \in Nat
      /\ DOMAIN chart = {p \in 1..n : p <= ChartSize}
      /\ \A p \in DOMAIN chart : chart[p] \in items
      /\ \A i \in items : \/ \E p \in DOMAIN chart : chart[p] = i
                          \/ n > ChartSize /\ \A p \in DOMAIN chart : Ahead(chart[p], i)
    BY ChartPlaces
<1>3. \A t : /\ Shows(t) \in Nat /\ Sum(t) \in Nat /\ Shows(t) <= Sum(t)
            /\ Intact(t) => Shows(t) = Sum(t)
    BY EarnedIsPlayed
<1>4. \A i \in items : /\ i.track \in Tracks /\ i.last \in Int /\ i.count \in Nat
                       /\ Of(i.track, sessions, week) # {} /\ i.count = Shows(i.track)
    BY ItemsTyped
<1>5. ASSUME NEW t \in Tracks, Shows(t) > 0 PROVE \E i \in items : i.track = t
    <2>1. Of(t, sessions, week) # {}
        BY <1>5, FS_EmptySet
    <2>2. PICK e \in Played(sessions, week) : e.track = t
        BY <2>1 DEF Of
    <2>3. Item(t, sessions, week) \in items /\ Item(t, sessions, week).track = t
        BY <2>2, AggregatesAre DEF Item
    <2> QED BY <2>3
<1>6. ASSUME NEW p \in DOMAIN chart
      PROVE  /\ chart[p].count <= Sum(chart[p].track)
             /\ Intact(chart[p].track) => chart[p].count = Sum(chart[p].track)
             /\ chart[p].count <= (week.end - week.start + Window - 1) \div Window
    <2>1. chart[p] \in items
        BY <1>2
    <2>2. /\ Of(chart[p].track, sessions, week) # {}
          /\ chart[p].count = Shows(chart[p].track)
        BY <1>4, <2>1
    <2>3. PICK t : t = chart[p].track
        OBVIOUS
    <2>4. Shows(t) <= (week.end - week.start + Window - 1) \div Window
        <3> HIDE DEF chart
        <3> QED BY <1>1, <2>2, <2>3, PlaysInSpan
    <2>5. Shows(t) <= Sum(t) /\ (Intact(t) => Shows(t) = Sum(t))
        BY EarnedIsPlayed
    <2> HIDE DEF chart, Sum, Intact, Shows
    <2> QED BY <2>2, <2>3, <2>4, <2>5
<1> HIDE DEF chart, items, n, Sum, Intact, Shows
<1>7. /\ DOMAIN chart = 1..Cardinality(DOMAIN chart)
      /\ n > ChartSize => Cardinality(DOMAIN chart) = ChartSize
    <2> DEFINE m == IF n <= ChartSize THEN n ELSE ChartSize
    <2>1. m \in Nat /\ DOMAIN chart = 1..m
        BY <1>1, <1>2
    <2>2. n > ChartSize => m = ChartSize
        BY <1>1, <1>2
    <2> HIDE DEF m
    <2>3. 1..m = IF m = 0 THEN {} ELSE 1..m
        BY <2>1
    <2>4. Cardinality(1..m) = m
        <3>1. CASE m = 0
            BY <2>3, <3>1, FS_EmptySet
        <3>2. CASE m # 0
            <4>1. 1 <= m /\ m \in Int /\ 1 \in Int /\ m - 1 + 1 = m
                BY <2>1, <3>2
            <4>2. Cardinality(1..m) = m - 1 + 1
                BY <4>1, Interval
            <4> QED BY <4>1, <4>2
        <3> QED BY <3>1, <3>2
    <2> QED BY <2>1, <2>2, <2>4
<1>8. ASSUME NEW t \in Tracks \ {chart[p].track : p \in DOMAIN chart}, Sum(t) > 0, Intact(t)
      PROVE  /\ Cardinality(DOMAIN chart) = ChartSize
             /\ \A p \in DOMAIN chart : Sum(t) <= chart[p].count
    <2>0. Shows(t) \in Nat /\ Shows(t) = Sum(t)
        BY <1>8, EarnedIsPlayed DEF Shows, Sum, Intact
    <2>1. PICK i \in items : i.track = t
        BY <1>5, <1>8, <2>0
    <2>2. n > ChartSize /\ \A p \in DOMAIN chart : Ahead(chart[p], i)
        BY <1>2, <1>8, <2>1
    <2>3. Sum(t) = i.count /\ i.count \in Nat
        BY <1>4, <2>0, <2>1
    <2>4. ASSUME NEW p \in DOMAIN chart PROVE Sum(t) <= chart[p].count
        <3>1. chart[p].count \in Nat /\ Ahead(chart[p], i)
            BY <1>2, <1>4, <2>2
        <3>2. chart[p].count > i.count \/ chart[p].count = i.count
            BY <3>1 DEF Ahead
        <3> QED BY <2>3, <3>1, <3>2
    <2> QED BY <1>7, <2>2, <2>4
<1> QED BY <1>6, <1>7, <1>8 DEF chart, Sum, Intact

\* The chart of a week shows what the plays earned but for those an entry lost
\* when it was played again, no more than one for each window, without gaps, and
\* the best: for any clocks, sessions and plays.
THEOREM ChartAlwaysEarned == Spec => []ChartIsEarned
<1>1. Inv => ChartIsEarned
    BY ChartStep, ClockConstants
<1> QED BY <1>1, Invariance, PTL

-----------------------------------------------------------------------------
(* LibraryPage: the previews *)

\* Without a url there is nothing to play, and a download is only begun without one.
Sound(i) ==
    /\ ~i.hasUrl => i.paused /\ i.awaits # "play"
    /\ i.awaits = "download" => ~i.hasUrl

\* It plays, and is not just about to be active.
Loud(i) == ~i.paused /\ i.awaits # "play"

Items ==
    /\ item \in [Shown -> L!Item]
    /\ active \in [set : Shown \cup {None}, rendered : Shown \cup {None}]
    /\ \A t \in Shown : Sound(item[t])

\* Between two renders, the track that was active and the one that will be.
Heard == ~merged => \A t \in Shown : Loud(item[t]) => t \in {active.rendered, active.set}

ActiveStep == UNCHANGED <<active, merged>> \/ \E x \in Shown \cup {None} : L!Toggle(x)

LEMMA Toggles ==
    ASSUME Items, NEW x \in Shown \cup {None}, L!Toggle(x)
    PROVE  /\ active' \in [set : Shown \cup {None}, rendered : Shown \cup {None}]
           /\ active'.set = x /\ active'.rendered = active.rendered
           /\ ~merged' => ~merged /\ active.set \in {active.rendered, x}
<1>1. active \in [set : Shown \cup {None}, rendered : Shown \cup {None}]
    BY DEF Items
<1>2. /\ [active EXCEPT !.set = x] \in [set : Shown \cup {None}, rendered : Shown \cup {None}]
      /\ [active EXCEPT !.set = x].set = x
      /\ [active EXCEPT !.set = x].rendered = active.rendered
    BY <1>1
<1> QED BY <1>2 DEF L!Toggle

LEMMA ItemsStep ==
    ASSUME Items, Heard, item' \in [Shown -> L!Item], \A t \in Shown : Sound(item'[t]),
           ActiveStep,
           \A t \in Shown : Loud(item'[t]) => Loud(item[t]) \/ t = active'.set
    PROVE  Items' /\ Heard'
<1>1. CASE UNCHANGED <<active, merged>>
    BY <1>1 DEF Items, Heard
<1>2. ASSUME NEW x \in Shown \cup {None}, L!Toggle(x)
      PROVE  Items' /\ Heard'
    <2>1. /\ active' \in [set : Shown \cup {None}, rendered : Shown \cup {None}]
          /\ active'.set = x /\ active'.rendered = active.rendered
          /\ ~merged' => ~merged /\ active.set \in {active.rendered, x}
        BY <1>2, Toggles
    <2>2. Items'
        BY <2>1 DEF Items
    <2>3. Heard'
        BY <2>1 DEF Heard
    <2> QED BY <2>2, <2>3
<1> QED BY <1>1, <1>2 DEF ActiveStep

\* One item changes.
LEMMA ItemStep ==
    ASSUME Items, Heard, NEW t \in Shown, NEW i \in L!Item, item' = [item EXCEPT ![t] = i],
           Sound(i), ActiveStep, Loud(i) => Loud(item[t]) \/ t = active'.set
    PROVE  Items' /\ Heard'
<1>1. item \in [Shown -> L!Item] /\ \A u \in Shown : Sound(item[u])
    BY DEF Items
<1>2. item' \in [Shown -> L!Item] /\ item'[t] = i
    BY <1>1
<1>3. \A u \in Shown : u # t => item'[u] = item[u]
    BY <1>1
<1>4. \A u \in Shown : Sound(item'[u])
    BY <1>1, <1>2, <1>3
<1>5. \A u \in Shown : Loud(item'[u]) => Loud(item[u]) \/ u = active'.set
    BY <1>2, <1>3
<1> QED BY <1>2, <1>4, <1>5, ItemsStep

\* Nothing on the list is heard otherwise.
LEMMA QuietItems ==
    ASSUME Items, Heard, UNCHANGED item, ActiveStep
    PROVE  Items' /\ Heard'
<1>1. item \in [Shown -> L!Item] /\ \A u \in Shown : Sound(item[u])
    BY DEF Items
<1> QED BY <1>1, ItemsStep

LEMMA PreviewStep ==
    ASSUME Items, Heard, NEW t \in Shown, L!Preview(t)
    PROVE  Items' /\ Heard'
<1>1. item \in [Shown -> L!Item] /\ item[t] \in L!Item /\ Sound(item[t])
    BY DEF Items
<1>2. ASSUME NEW i, item' = [item EXCEPT ![t] = i], i \in L!Item, Sound(i), ActiveStep,
             Loud(i) => Loud(item[t]) \/ t = active'.set
      PROVE  Items' /\ Heard'
    BY <1>2, ItemStep
<1>3. ASSUME NEW i, i = [item[t] EXCEPT !.paused = TRUE]
      PROVE  i \in L!Item /\ Sound(i) /\ ~Loud(i)
    BY <1>1, <1>3 DEF L!Item, Sound, Loud
<1>4. CASE L!handlePlayToggle(t)
    <2>1. CASE active.rendered = t
        <3> DEFINE i == [item[t] EXCEPT !.paused = TRUE]
        <3>1. item' = [item EXCEPT ![t] = i] /\ ActiveStep
            BY <1>1, <1>4, <2>1 DEF L!handlePlayToggle, ActiveStep
        <3> HIDE DEF i
        <3> QED BY <1>2, <1>3, <3>1 DEF i
    <2>2. CASE active.rendered # t /\ item[t].hasUrl
        <3> DEFINE i == [item[t] EXCEPT !.paused = FALSE, !.awaits = "play"]
        <3>1. item' = [item EXCEPT ![t] = i] /\ ActiveStep
            BY <1>1, <1>4, <2>2 DEF L!handlePlayToggle, ActiveStep
        <3>2. i \in L!Item /\ Sound(i) /\ ~Loud(i)
            BY <1>1, <2>2 DEF L!Item, Sound, Loud
        <3> HIDE DEF i
        <3> QED BY <1>2, <3>1, <3>2
    <2>3. CASE active.rendered # t /\ ~item[t].hasUrl
        <3> DEFINE i == [item[t] EXCEPT !.awaits = "download"]
        <3>1. item' = [item EXCEPT ![t] = i] /\ ActiveStep
            BY <1>1, <1>4, <2>3 DEF L!handlePlayToggle, ActiveStep
        <3>2. i \in L!Item /\ Sound(i) /\ ~Loud(i)
            BY <1>1, <2>3 DEF L!Item, Sound, Loud
        <3> HIDE DEF i
        <3> QED BY <1>2, <3>1, <3>2
    <2> QED BY <2>1, <2>2, <2>3
<1>5. CASE L!Downloaded(t)
    <2>1. CASE item' = [item EXCEPT ![t].hasUrl = TRUE, ![t].paused = FALSE, ![t].awaits = "play"]
               /\ UNCHANGED <<active, merged>>
        <3> DEFINE i == [item[t] EXCEPT !.hasUrl = TRUE, !.paused = FALSE, !.awaits = "play"]
        <3>1. item' = [item EXCEPT ![t] = i] /\ ActiveStep
            BY <1>1, <2>1 DEF ActiveStep
        <3>2. i \in L!Item /\ Sound(i) /\ ~Loud(i)
            BY <1>1 DEF L!Item, Sound, Loud
        <3> HIDE DEF i
        <3> QED BY <1>2, <3>1, <3>2
    <2>2. CASE item' = [item EXCEPT ![t].awaits = "none"] /\ L!Toggle(None)
        <3> DEFINE i == [item[t] EXCEPT !.awaits = "none"]
        <3>1. item' = [item EXCEPT ![t] = i] /\ ActiveStep
            BY <1>1, <2>2 DEF ActiveStep
        <3>2. item[t].awaits = "download"
            BY <1>5 DEF L!Downloaded
        <3>3. i \in L!Item /\ Sound(i) /\ ~Loud(i)
            BY <1>1, <3>2 DEF L!Item, Sound, Loud
        <3> HIDE DEF i
        <3> QED BY <1>2, <3>1, <3>3
    <2> QED BY <1>5, <2>1, <2>2 DEF L!Downloaded
<1>6. CASE L!Played(t)
    <2>1. item[t].awaits = "play"
        BY <1>6 DEF L!Played
    <2>2. CASE item' = [item EXCEPT ![t].awaits = "none"] /\ L!Toggle(t)
        <3> DEFINE i == [item[t] EXCEPT !.awaits = "none"]
        <3>1. item' = [item EXCEPT ![t] = i] /\ ActiveStep
            BY <1>1, <2>2 DEF ActiveStep
        <3>2. i \in L!Item /\ Sound(i)
            BY <1>1, <2>1 DEF L!Item, Sound
        <3>3. active'.set = t
            BY <2>2, Toggles
        <3> HIDE DEF i
        <3> QED BY <1>2, <3>1, <3>2, <3>3
    <2>3. CASE item' = [item EXCEPT ![t].awaits = "none", ![t].paused = TRUE] /\ L!Toggle(None)
        <3> DEFINE i == [item[t] EXCEPT !.awaits = "none", !.paused = TRUE]
        <3>1. item' = [item EXCEPT ![t] = i] /\ ActiveStep
            BY <1>1, <2>3 DEF ActiveStep
        <3>2. i \in L!Item /\ Sound(i) /\ ~Loud(i)
            BY <1>1, <2>1 DEF L!Item, Sound, Loud
        <3> HIDE DEF i
        <3> QED BY <1>2, <3>1, <3>2
    <2> QED BY <1>6, <2>2, <2>3 DEF L!Played
<1>7. CASE L!Stopped(t)
    <2> DEFINE i == [item[t] EXCEPT !.paused = TRUE]
    <2>1. item' = [item EXCEPT ![t] = i] /\ ActiveStep
        BY <1>1, <1>7 DEF L!Stopped, ActiveStep
    <2> HIDE DEF i
    <2> QED BY <1>2, <1>3, <2>1 DEF i
<1> QED BY <1>4, <1>5, <1>6, <1>7 DEF L!Preview

\* The deletion of a track leaves its item as it is, but for the button.
LEMMA DeletionStep ==
    ASSUME Items, Heard, NEW t \in Shown,
           L!handleDelete(t) \/ L!NotDeleted(t) \/ \E f \in Fetches : L!Deleted(t, f)
    PROVE  Items' /\ Heard'
<1>1. item \in [Shown -> L!Item] /\ item[t] \in L!Item /\ Sound(item[t])
    BY DEF Items
<1>2. PICK step \in {"no", "active", "other"} : item' = [item EXCEPT ![t].isDeleting = step]
    BY DEF L!handleDelete, L!NotDeleted, L!Deleted
<1> DEFINE i == [item[t] EXCEPT !.isDeleting = step]
<1>3. item' = [item EXCEPT ![t] = i]
    BY <1>1, <1>2
<1>4. i \in L!Item /\ Sound(i) /\ (Loud(i) => Loud(item[t]))
    BY <1>1 DEF L!Item, Sound, Loud
<1>5. ActiveStep
    BY DEF L!handleDelete, L!NotDeleted, L!Deleted, ActiveStep
<1> HIDE DEF i
<1> QED BY <1>3, <1>4, <1>5, ItemStep

\* The items that are gone are silent.
LEMMA ListStep ==
    ASSUME Items, Heard, NEW f \in Fetches, L!SetTracks(f)
    PROVE  Items' /\ Heard'
<1>1. PICK gone \in SUBSET Shown :
        item' = [t \in Shown |->
                    IF t \in gone
                    THEN [item[t] EXCEPT !.hasUrl = FALSE, !.paused = TRUE, !.awaits = "none"]
                    ELSE item[t]]
    BY DEF L!SetTracks
<1>2. ActiveStep
    BY DEF L!SetTracks, ActiveStep
<1>3. ASSUME NEW t \in Shown
      PROVE  /\ item'[t] \in L!Item /\ Sound(item'[t])
             /\ Loud(item'[t]) => Loud(item[t])
    <2>1. item[t] \in L!Item /\ Sound(item[t])
        BY DEF Items
    <2>2. CASE t \in gone
        <3> DEFINE i == [item[t] EXCEPT !.hasUrl = FALSE, !.paused = TRUE, !.awaits = "none"]
        <3>1. item'[t] = i
            BY <1>1, <2>2
        <3>2. i \in L!Item /\ Sound(i) /\ ~Loud(i)
            BY <2>1 DEF L!Item, Sound, Loud
        <3> HIDE DEF i
        <3> QED BY <3>1, <3>2
    <2>3. CASE t \notin gone
        <3>1. item'[t] = item[t]
            BY <1>1, <2>3
        <3> QED BY <2>1, <3>1
    <2> QED BY <2>2, <2>3
<1>4. item' \in [Shown -> L!Item]
    <2>1. item' = [t \in Shown |-> item'[t]]
        BY <1>1
    <2> QED BY <1>3, <2>1
<1> QED BY <1>2, <1>3, <1>4, ItemsStep

\* The track that was active is paused, and the next one is.
LEMMA RenderStep ==
    ASSUME Items, Heard, L!Render
    PROVE  Items' /\ Heard'
<1>1. /\ active \in [set : Shown \cup {None}, rendered : Shown \cup {None}]
      /\ active' = [active EXCEPT !.rendered = active.set] /\ merged' = merged
      /\ item' = [t \in Shown |-> [item[t] EXCEPT !.paused = L!PauseEffect(t)]]
    BY DEF Items, L!Render
<1>2. /\ active' \in [set : Shown \cup {None}, rendered : Shown \cup {None}]
      /\ active'.set = active.set /\ active'.rendered = active.set
    BY <1>1
<1>3. ASSUME NEW t \in Shown
      PROVE  /\ item'[t] \in L!Item /\ Sound(item'[t])
             /\ Loud(item'[t]) => Loud(item[t]) /\ t # active.rendered
    <2>1. item[t] \in L!Item /\ Sound(item[t])
        BY DEF Items
    <2>2. item'[t] = [item[t] EXCEPT !.paused = L!PauseEffect(t)]
        BY <1>1
    <2>3. /\ L!PauseEffect(t) \in BOOLEAN
          /\ L!PauseEffect(t) <=> item[t].paused \/ t = active.rendered
        BY <2>1 DEF L!PauseEffect, L!Item
    <2> QED BY <2>1, <2>2, <2>3 DEF L!Item, Sound, Loud
<1>4. item' \in [Shown -> L!Item]
    <2>1. item' = [t \in Shown |-> item'[t]]
        BY <1>1
    <2> QED BY <1>3, <2>1
<1> QED BY <1>1, <1>2, <1>3, <1>4 DEF Items, Heard

LEMMA LibraryStep ==
    ASSUME Items, Heard, [L!Next]_(L!vars)
    PROVE  Items' /\ Heard'
<1>1. CASE L!Render
    BY <1>1, RenderStep
<1>2. ASSUME NEW f \in Fetches, L!SetTracks(f) PROVE Items' /\ Heard'
    BY <1>2, ListStep
<1>3. ASSUME NEW t \in Shown, L!Preview(t) PROVE Items' /\ Heard'
    BY <1>3, PreviewStep
<1>4. ASSUME NEW t \in Shown,
             L!handleDelete(t) \/ L!NotDeleted(t) \/ \E f \in Fetches : L!Deleted(t, f)
      PROVE  Items' /\ Heard'
    BY <1>4, DeletionStep
<1>5. CASE UNCHANGED <<item, active, merged>>
    BY <1>5, QuietItems DEF ActiveStep
<1>6. CASE L!openUploader \/ L!closeUploader \/ L!handleFileSelected \/ L!removeFile
    BY <1>5, <1>6 DEF L!openUploader, L!closeUploader, L!handleFileSelected, L!removeFile
<1>7. ASSUME NEW f \in Fetches, L!Refresh(f) \/ L!getTracks(f) \/ L!LoseTracks(f) \/ L!Uploaded(f)
      PROVE  Items' /\ Heard'
    BY <1>5, <1>7 DEF L!Refresh, L!getTracks, L!LoseTracks, L!Uploaded
<1>8. ASSUME NEW t \in Shown,
             \/ L!handleSubmit(t) \/ L!Process(t)
             \/ \E f \in Fetches : L!handleToggleVisibility(t, f)
      PROVE  Items' /\ Heard'
    BY <1>5, <1>8 DEF L!handleSubmit, L!Process, L!handleToggleVisibility
<1>9. CASE UNCHANGED L!vars
    BY <1>5, <1>9 DEF L!vars
<1> QED BY <1>1, <1>2, <1>3, <1>4, <1>6, <1>7, <1>8, <1>9 DEF L!Next

\* Two previews are never heard at once: when all is rendered and no play() is
\* under way, only the active track's audio plays, for any number of tracks,
\* unless two changes of the active track were rendered as one.
THEOREM OneHeard == L!Init /\ [][L!Next]_(L!vars) => []OnePreview
<1>1. L!Init => Items /\ Heard
    BY DEF L!Init, L!NewItem, L!Item, Items, Sound, Heard, Loud
<1>2. Items /\ Heard => OnePreview
    BY DEF Heard, Loud, OnePreview, L!OnePreview
<1> QED BY <1>1, <1>2, LibraryStep, PTL

-----------------------------------------------------------------------------
(* The media of the tracks *)

\* The tables and the jobs have their types.
Tables ==
    /\ track \in [Owned -> U!Track \cup {Null}]
    /\ intent \in [Uploads -> U!Intent \cup {Null}]
    /\ completion \in [Completions -> U!Request \cup {Null}]
    /\ media \in [Completions -> U!Version \cup {Null}]
    /\ job \in [Completions -> U!Job]

\* What a row or a request refers to exists.
Linked ==
    /\ \A u \in Uploads : intent[u] # Null => track[intent[u].track] # Null
    /\ \A r \in Completions : completion[r] # Null => intent[completion[r].upload] # Null
    /\ \A r \in Completions : media[r] # Null => intent[media[r].upload] # Null

\* A request makes its version once, at create, and what comes later has one.
ProperRequest(r) ==
    /\ completion[r] = Null => media[r] = Null
    /\ completion[r] # Null /\ completion[r].step \in {"head", "refuse", "too large", "fail track", "current",
                                               "create"}
          => media[r] = Null
    /\ completion[r] # Null /\ completion[r].step \in {"mark version", "mark track", "enqueue"}
          => media[r] # Null
    /\ completion[r] # Null /\ completion[r].step = "mark intent" /\ U!Audio(r) => media[r] # Null

\* A job has a version, and the other one it found is of the same track.
ProperJob(r) ==
    /\ job[r].step # "none" => media[r] # Null
    /\ job[r].step = "found" /\ job[r].other # Null =>
          media[job[r].other] # Null /\ U!TrackOf(job[r].other) = U!TrackOf(r)

Rows == U!RecordAssumption /\ U!RowsAssumption /\ Tables /\ Linked
        /\ \A r \in Completions : ProperRequest(r) /\ ProperJob(r)

\* Owned and intents stay, and intents stay what they are of.
RowsStay ==
    /\ track' \in [Owned -> U!Track \cup {Null}]
    /\ intent' \in [Uploads -> U!Intent \cup {Null}]
    /\ \A t \in Owned : track[t] # Null => track'[t] # Null
    /\ \A u \in Uploads : intent[u] # Null => /\ intent'[u] # Null
                                              /\ intent'[u].track = intent[u].track
                                              /\ intent'[u].type = intent[u].type
    /\ \A u \in Uploads : intent'[u] # Null => track'[intent'[u].track] # Null

\* So do versions, but for their states and which of them are current.
VersionsStay ==
    /\ media' \in [Completions -> U!Version \cup {Null}]
    /\ \A r \in Completions : media[r] # Null =>
          media'[r] # Null /\ media'[r].upload = media[r].upload

\* A step keeps the invariant of the rows if it keeps each part.
LEMMA RowsKept ==
    ASSUME Rows, RowsStay, VersionsStay,
           completion' \in [Completions -> U!Request \cup {Null}],
           job' \in [Completions -> U!Job],
           \A s \in Completions : completion'[s] # Null => intent[completion'[s].upload] # Null,
           \A s \in Completions : media'[s] # Null => intent[media'[s].upload] # Null,
           \A s \in Completions : ProperRequest(s)' /\ ProperJob(s)'
    PROVE  Rows'
<1>1. Tables'
    BY DEF RowsStay, VersionsStay, Tables
<1>2. \A s \in Completions : completion'[s] # Null => completion'[s].upload \in Uploads
    BY DEF U!Request
<1>3. \A s \in Completions : media'[s] # Null => media'[s].upload \in Uploads
    BY DEF VersionsStay, U!Version
<1>4. Linked'
    BY <1>2, <1>3 DEF RowsStay, Linked
<1> QED BY <1>1, <1>4 DEF Rows

\* A call that does not move stays as it should be.
LEMMA RequestKept ==
    ASSUME Rows, RowsStay, VersionsStay, NEW s \in Completions, completion'[s] = completion[s],
           media'[s] # Null => media[s] # Null
    PROVE  ProperRequest(s)'
<1>1. media'[s] = Null <=> media[s] = Null
    BY DEF VersionsStay
<1>2. completion[s] # Null => /\ completion[s].upload \in Uploads /\ intent[completion[s].upload] # Null
                              /\ U!Audio(s)' = U!Audio(s)
    <2>1. completion[s] # Null => completion[s].upload \in Uploads /\ intent[completion[s].upload] # Null
        BY DEF Rows, Tables, Linked, U!Request
    <2> QED BY <2>1 DEF RowsStay, U!Audio, U!Of
<1> QED BY <1>1, <1>2 DEF Rows, ProperRequest

\* A version is of a track.
LEMMA VersionTrack ==
    ASSUME Rows, NEW r \in Completions, media[r] # Null
    PROVE  /\ U!TrackOf(r) \in Owned
           /\ track[U!TrackOf(r)] # Null /\ track[U!TrackOf(r)] \in U!Track
<1>1. media[r].upload \in Uploads /\ intent[media[r].upload] # Null
    BY DEF Rows, Tables, Linked, U!Version
<1>2. intent[media[r].upload] \in U!Intent
    BY <1>1 DEF Rows, Tables
<1>3. intent[media[r].upload].track \in Owned /\ track[intent[media[r].upload].track] # Null
    BY <1>1, <1>2 DEF Rows, Linked, U!Intent
<1> QED BY <1>3 DEF U!TrackOf, Rows, Tables

\* The versions' tracks do not change.
LEMMA TrackKept ==
    ASSUME Rows, RowsStay, VersionsStay, NEW s \in Completions, media[s] # Null
    PROVE  /\ U!TrackOf(s)' = U!TrackOf(s) /\ U!TrackOf(s) \in Owned
           /\ track[U!TrackOf(s)] # Null
<1>1. media[s].upload \in Uploads /\ intent[media[s].upload] # Null
    BY DEF Rows, Tables, Linked, U!Version
<1>2. intent[media[s].upload] \in U!Intent
    BY <1>1 DEF Rows, Tables
<1> QED BY <1>1, <1>2 DEF RowsStay, VersionsStay, U!TrackOf, U!Intent, Rows, Linked

\* So does a job.
LEMMA JobKept ==
    ASSUME Rows, RowsStay, VersionsStay, NEW s \in Completions, job'[s] = job[s]
    PROVE  ProperJob(s)'
<1>1. ProperJob(s) /\ job[s] \in U!Job
    BY DEF Rows, Tables
<1>2. job[s].step # "none" => media[s] # Null /\ media'[s] # Null
    BY <1>1 DEF ProperJob, VersionsStay
<1>3. ASSUME job[s].step = "found", job[s].other # Null
      PROVE  /\ media'[job[s].other] # Null
             /\ U!TrackOf(job[s].other)' = U!TrackOf(s)'
    <2>1. media[job[s].other] # Null /\ job[s].other \in Completions /\ media[s] # Null
          /\ U!TrackOf(job[s].other) = U!TrackOf(s)
        BY <1>1, <1>3 DEF ProperJob, U!Job
    <2> QED BY <2>1, TrackKept DEF VersionsStay
<1> QED BY <1>2, <1>3 DEF ProperJob, U!TrackOf

\* No version, request or job changes.
LEMMA LibraryRows ==
    ASSUME Rows, RowsStay, UNCHANGED <<completion, media, job>>
    PROVE  Rows'
<1>1. VersionsStay
    BY DEF VersionsStay, Rows, Tables
<1>2. \A s \in Completions : ProperRequest(s)' /\ ProperJob(s)'
    BY <1>1, RequestKept, JobKept
<1> QED BY <1>1, <1>2, RowsKept DEF Rows, Tables, Linked

\* One request moves, and its version may be made or marked.
LEMMA RequestRows ==
    ASSUME Rows, RowsStay, UNCHANGED job, NEW r \in Completions, NEW q \in U!Request,
           completion' = [completion EXCEPT ![r] = q], intent[q.upload] # Null,
           VersionsStay, \A s \in Completions : s # r => media'[s] = media[s],
           media'[r] # Null => intent[media'[r].upload] # Null,
           ProperRequest(r)'
    PROVE  Rows'
<1>1. /\ completion' \in [Completions -> U!Request \cup {Null}] /\ completion'[r] = q
      /\ \A s \in Completions : s # r => completion'[s] = completion[s]
    BY DEF Rows, Tables
<1>2. \A s \in Completions : ProperRequest(s)' /\ ProperJob(s)'
    BY <1>1, RequestKept, JobKept
<1> QED BY <1>1, <1>2, RowsKept DEF Rows, Tables, Linked

\* One job moves, and states and current versions may change.
LEMMA JobRows ==
    ASSUME Rows, RowsStay, UNCHANGED completion, NEW r \in Completions, NEW j \in U!Job,
           job' = [job EXCEPT ![r] = j],
           VersionsStay, \A s \in Completions : media'[s] # Null => media[s] # Null,
           j.step # "none" => media[r] # Null,
           j.step = "found" /\ j.other # Null =>
              media[j.other] # Null /\ U!TrackOf(j.other) = U!TrackOf(r)
    PROVE  Rows'
<1>1. /\ job' \in [Completions -> U!Job] /\ job'[r] = j
      /\ \A s \in Completions : s # r => job'[s] = job[s]
    BY DEF Rows, Tables
<1>2. ProperJob(r)'
    <2>1. j.step # "none" => media'[r] # Null
        BY DEF VersionsStay
    <2>2. ASSUME j.step = "found", j.other # Null
          PROVE  media'[j.other] # Null /\ U!TrackOf(j.other)' = U!TrackOf(r)'
        <3>1. j.other \in Completions /\ media[r] # Null /\ media[j.other] # Null
              /\ U!TrackOf(j.other) = U!TrackOf(r)
            BY <2>2 DEF U!Job
        <3> QED BY <3>1, TrackKept DEF VersionsStay
    <2> QED BY <1>1, <2>1, <2>2 DEF ProperJob, U!TrackOf
<1>3. \A s \in Completions : ProperRequest(s)' /\ ProperJob(s)'
    BY <1>1, <1>2, RequestKept, JobKept
<1> QED BY <1>1, <1>3, RowsKept DEF Rows, Tables, Linked, VersionsStay

\* A version is out of processing.
VersionDecided(r) == media[r] # Null /\ media[r].state \in {"READY", "FAILED"}

\* A version gets its job in the last step of its request, and its job decides
\* it: a job that is run again after it made its version READY has stalled.
Settled(r) ==
    /\ job[r].step # "none" => completion[r] # Null /\ completion[r].step = "done"
    /\ job[r].step \in {"handled", "ended"} => VersionDecided(r)
    /\ VersionDecided(r) => job[r].step # "none"
    /\ VersionDecided(r) /\ media[r].state = "READY" =>
          job[r].stalled \/ job[r].step \in {"handled", "ended"}

\* What a READY track has a version for.
Playable(r) ==
    /\ media[r] # Null /\ media[r].current
    /\ \/ media[r].state = "READY"
       \/ media[r].state = "FAILED" /\ job[r].stalled

\* No track becomes READY, and no version that was playable stops being so.
NoneReadied == \A t \in Owned :
    track'[t] # Null /\ track'[t].state = "READY" => track[t] # Null /\ track[t].state = "READY"
PlayableStay == \A r \in Completions : Playable(r) => Playable(r)'

Media == Rows /\ U!ReadyTrackHasCurrent

LEMMA ReadyHas ==
    ASSUME U!ReadyTrackHasCurrent, NEW t \in Owned, track[t] # Null, track[t].state = "READY"
    PROVE  \E r \in Completions : Playable(r) /\ U!TrackOf(r) = t
<1>1. PICK r \in U!Currents(t) : \/ media[r].state = "READY"
                                 \/ media[r].state = "FAILED" /\ job[r].stalled
    BY DEF U!ReadyTrackHasCurrent
<1>2. r \in Completions /\ media[r] # Null /\ U!TrackOf(r) = t /\ media[r].current
    BY DEF U!Currents, U!Versions
<1> QED BY <1>1, <1>2 DEF Playable

\* So the tracks that are READY go on having one.
LEMMA ReadyKept ==
    ASSUME Media, RowsStay, VersionsStay, NoneReadied, PlayableStay
    PROVE  U!ReadyTrackHasCurrent'
<1> SUFFICES ASSUME NEW t \in Owned, track'[t] # Null, track'[t].state = "READY"
             PROVE  \E r \in Completions : Playable(r)' /\ U!TrackOf(r)' = t
    BY DEF U!ReadyTrackHasCurrent, U!Currents, U!Versions, Playable, U!TrackOf
<1>1. PICK r \in Completions : Playable(r) /\ U!TrackOf(r) = t
    BY ReadyHas DEF NoneReadied, Media
<1>2. Playable(r)'
    BY <1>1 DEF PlayableStay
<1>3. U!TrackOf(r)' = t
    BY <1>1, TrackKept DEF Media, Playable
<1> QED BY <1>2, <1>3

\* What leaves the versions, the tracks and the intents alone.
LEMMA SameVersions ==
    ASSUME Rows, UNCHANGED media, \A s \in Completions : job[s].stalled => job'[s].stalled
    PROVE  VersionsStay /\ PlayableStay
BY DEF Rows, Tables, VersionsStay, PlayableStay, Playable

LEMMA SameRows ==
    ASSUME Rows, UNCHANGED <<track, intent>>
    PROVE  RowsStay /\ NoneReadied
BY DEF Rows, Tables, Linked, RowsStay, NoneReadied

\* One track is written.
LEMMA TrackSet ==
    ASSUME Rows, UNCHANGED intent, NEW t \in Owned, NEW new \in U!Track,
           track' = [track EXCEPT ![t] = new],
           new.state = "READY" => track[t] # Null /\ track[t].state = "READY"
    PROVE  RowsStay /\ NoneReadied
<1>1. new # Null
    BY DEF Rows, U!RecordAssumption
<1>2. track' \in [Owned -> U!Track \cup {Null}] /\ track'[t] = new
      /\ \A s \in Owned : s # t => track'[s] = track[s]
    BY DEF Rows, Tables
<1>3. \A u \in Uploads : intent[u] # Null => intent[u].track \in Owned
    BY DEF Rows, Tables, U!Intent
<1> QED BY <1>1, <1>2, <1>3 DEF Rows, Tables, Linked, RowsStay, NoneReadied

\* One intent is made or written.
LEMMA IntentSet ==
    ASSUME Rows, NEW u \in Uploads, NEW new \in U!Intent, intent' = [intent EXCEPT ![u] = new],
           intent[u] # Null => new.track = intent[u].track /\ new.type = intent[u].type,
           track'[new.track] # Null, track' \in [Owned -> U!Track \cup {Null}],
           \A t \in Owned : track[t] # Null => track'[t] # Null
    PROVE  RowsStay
<1>1. new # Null
    BY DEF Rows, U!RecordAssumption
<1>2. intent' \in [Uploads -> U!Intent \cup {Null}] /\ intent'[u] = new
      /\ \A v \in Uploads : v # u => intent'[v] = intent[v]
    BY DEF Rows, Tables
<1>3. \A v \in Uploads : intent[v] # Null => intent[v].track \in Owned /\ track[intent[v].track] # Null
    BY DEF Rows, Tables, Linked, U!Intent
<1> QED BY <1>1, <1>2, <1>3 DEF RowsStay

\* The library and the client.
LEMMA LibraryKeeps ==
    ASSUME Media, U!Library
    PROVE  Media'
<1>1. Rows
    BY DEF Media
<1>2. ASSUME RowsStay, NoneReadied, UNCHANGED <<completion, media, job>>
      PROVE  Media'
    BY <1>1, <1>2, LibraryRows, SameVersions, ReadyKept DEF Media
<1>3. ASSUME NEW u \in Uploads, NEW t \in Owned, NEW type \in {"TRACK_AUDIO", "TRACK_ARTWORK"},
             U!NewIntent(u, t, type), track'[t] # Null,
             track' \in [Owned -> U!Track \cup {Null}], NoneReadied,
             \A s \in Owned : track[s] # Null => track'[s] # Null
      PROVE  Media'
    <2> DEFINE new == [track |-> t, type |-> type, status |-> "PENDING", expired |-> FALSE]
    <2>1. new \in U!Intent /\ new.track = t
        BY <1>3 DEF U!Intent, U!IntentType, U!IntentStatus
    <2>2. intent[u] = Null /\ intent' = [intent EXCEPT ![u] = new]
          /\ UNCHANGED <<completion, media, job>>
        BY <1>3 DEF U!NewIntent
    <2> HIDE DEF new
    <2>3. RowsStay
        BY <1>1, <1>3, <2>1, <2>2, IntentSet
    <2> QED BY <1>2, <1>3, <2>2, <2>3
<1>4. ASSUME NEW u \in Uploads, NEW t \in Owned, U!createUploadUrl(u, t) PROVE Media'
    <2> DEFINE new == [state |-> "UPLOADING", deleted |-> FALSE]
    <2>1. new \in U!Track /\ new.state # "READY" /\ new # Null
        <3>1. new \in U!Track /\ new.state # "READY"
            BY DEF U!Track, U!ProcessingState
        <3> QED BY <1>1, <3>1 DEF Rows, U!RecordAssumption
    <2>2. track' = [track EXCEPT ![t] = new] /\ U!NewIntent(u, t, "TRACK_AUDIO")
        BY <1>4 DEF U!createUploadUrl
    <2> HIDE DEF new
    <2>3. /\ track' \in [Owned -> U!Track \cup {Null}] /\ track'[t] = new
          /\ \A s \in Owned : s # t => track'[s] = track[s]
        BY <1>1, <2>1, <2>2 DEF Rows, Tables
    <2> QED BY <1>3, <2>1, <2>2, <2>3 DEF NoneReadied
<1>5. ASSUME NEW u \in Uploads, NEW t \in Owned,
             U!createReplaceAudioUrl(u, t) \/ U!createArtworkUploadUrl(u, t)
      PROVE  Media'
    <2>1. track[t] # Null /\ UNCHANGED track
          /\ (U!NewIntent(u, t, "TRACK_AUDIO") \/ U!NewIntent(u, t, "TRACK_ARTWORK"))
        BY <1>5 DEF U!createReplaceAudioUrl, U!createArtworkUploadUrl
    <2>2. track' \in [Owned -> U!Track \cup {Null}] /\ NoneReadied
        BY <1>1, <2>1 DEF Rows, Tables, NoneReadied
    <2> QED BY <1>3, <2>1, <2>2
<1>6. ASSUME NEW t \in Owned, U!deleteTrack(t) PROVE Media'
    <2> DEFINE new == [track[t] EXCEPT !.deleted = TRUE]
    <2>1. track[t] # Null /\ track[t] \in U!Track
        BY <1>1, <1>6 DEF U!deleteTrack, Rows, Tables
    <2>2. new \in U!Track /\ new.state = track[t].state
        BY <2>1 DEF U!Track
    <2>3. track' = [track EXCEPT ![t] = new] /\ UNCHANGED <<intent, completion, media, job>>
        BY <1>1, <1>6 DEF U!deleteTrack, Rows, Tables
    <2> HIDE DEF new
    <2> QED BY <1>1, <1>2, <2>1, <2>2, <2>3, TrackSet
<1>7. ASSUME NEW u \in Uploads, U!Expire(u) PROVE Media'
    <2> DEFINE new == [intent[u] EXCEPT !.expired = TRUE]
    <2>1. intent[u] # Null /\ intent[u] \in U!Intent /\ track[intent[u].track] # Null
        BY <1>1, <1>7 DEF U!Expire, Rows, Tables, Linked
    <2>2. new \in U!Intent /\ new.track = intent[u].track /\ new.type = intent[u].type
        BY <2>1 DEF U!Intent
    <2>3. intent' = [intent EXCEPT ![u] = new] /\ UNCHANGED <<track, completion, media, job>>
        BY <1>1, <1>7 DEF U!Expire, Rows, Tables
    <2> HIDE DEF new
    <2>4. RowsStay
        BY <1>1, <2>1, <2>2, <2>3, IntentSet DEF Rows, Tables
    <2> QED BY <1>2, <2>3, <2>4 DEF NoneReadied
<1>8. CASE \E u \in Uploads : U!Vanish(u) \/ \E file \in U!Contents : U!Put(u, file)
    BY <1>1, <1>2, <1>8, SameRows DEF U!Vanish, U!Put
<1> QED BY <1>4, <1>5, <1>6, <1>7, <1>8 DEF U!Library

-----------------------------------------------------------------------------
(* The calls that complete uploads *)

\* A call goes to a later step, with the upload it is of.
LaterSteps == {"refuse", "too large", "fail track", "current", "create", "mark intent",
               "mark version", "mark track", "enqueue", "done"}
Moved(r, q, step) ==
    /\ completion' = [completion EXCEPT ![r] = q]
    /\ q.upload = completion[r].upload /\ q.step = step /\ intent[q.upload] # Null

LEMMA NextStep ==
    ASSUME Rows, NEW r \in Completions, completion[r] # Null, NEW step \in LaterSteps, NEW number \in Nat,
           completion' = [completion EXCEPT ![r].step = step, ![r].number = number]
    PROVE  \E q \in U!Request : Moved(r, q, step)
<1> DEFINE q == [completion[r] EXCEPT !.step = step, !.number = number]
<1>1. completion[r] \in U!Request /\ intent[completion[r].upload] # Null
    BY DEF Rows, Tables, Linked
<1>2. q \in U!Request /\ q.upload = completion[r].upload /\ q.step = step
    BY <1>1 DEF U!Request, LaterSteps
<1>3. completion' = [completion EXCEPT ![r] = q]
    BY DEF Rows, Tables
<1> QED BY <1>1, <1>2, <1>3 DEF Moved

LEMMA GoneTo ==
    ASSUME Rows, NEW r \in Completions, completion[r] # Null, NEW step \in LaterSteps, U!GoTo(r, step)
    PROVE  \E q \in U!Request : Moved(r, q, step)
<1> DEFINE q == [completion[r] EXCEPT !.step = step]
<1>1. completion[r] \in U!Request /\ intent[completion[r].upload] # Null
    BY DEF Rows, Tables, Linked
<1>2. q \in U!Request /\ q.upload = completion[r].upload /\ q.step = step
    BY <1>1 DEF U!Request, LaterSteps
<1>3. completion' = [completion EXCEPT ![r] = q]
    BY DEF U!GoTo, Rows, Tables
<1> QED BY <1>1, <1>2, <1>3 DEF Moved

\* A call moves on, and what it changes of the rows makes no track READY.
LEMMA CallKeeps ==
    ASSUME Media, NEW r \in Completions, NEW q \in U!Request, completion' = [completion EXCEPT ![r] = q],
           intent[q.upload] # Null, RowsStay, VersionsStay, NoneReadied, PlayableStay,
           \A s \in Completions : s # r => media'[s] = media[s],
           media'[r] # Null => intent[media'[r].upload] # Null, UNCHANGED job,
           q.step \in {"head", "refuse", "too large", "fail track", "current", "create"} =>
              media'[r] = Null,
           q.step \in {"mark version", "mark track", "enqueue"} => media'[r] # Null,
           q.step = "mark intent" /\ intent[q.upload].type = "TRACK_AUDIO" => media'[r] # Null
    PROVE  Media'
<1>1. completion'[r] = q /\ q # Null /\ q.upload \in Uploads
    <2>1. completion'[r] = q /\ q # Null
        BY DEF Media, Rows, Tables, U!RecordAssumption
    <2> QED BY <2>1 DEF U!Request
<1>2. U!Audio(r)' <=> intent[q.upload].type = "TRACK_AUDIO"
    BY <1>1 DEF U!Audio, U!Of, RowsStay
<1>3. ProperRequest(r)'
    BY <1>1, <1>2 DEF ProperRequest
<1> QED BY <1>3, RequestRows, ReadyKept DEF Media

\* Nothing but the call moves.
LEMMA CallAlone ==
    ASSUME Media, NEW r \in Completions, NEW q \in U!Request, completion' = [completion EXCEPT ![r] = q],
           intent[q.upload] # Null, UNCHANGED <<track, intent, media, job>>,
           q.step \in {"head", "refuse", "too large", "fail track", "current", "create"} =>
              media[r] = Null,
           q.step \in {"mark version", "mark track", "enqueue"} => media[r] # Null,
           q.step # "mark intent"
    PROVE  Media'
<1>1. media[r] # Null => intent[media[r].upload] # Null
    BY DEF Media, Rows, Linked
<1> QED BY <1>1, SameRows, SameVersions, CallKeeps DEF Media

\* The rows of a call that is under way.
LEMMA CallRows ==
    ASSUME Rows, NEW r \in Completions, completion[r] # Null
    PROVE  /\ completion[r] \in U!Request /\ completion[r].upload \in Uploads
           /\ U!Of(r) # Null /\ U!Of(r) \in U!Intent
           /\ U!Of(r).track \in Owned /\ track[U!Of(r).track] \in U!Track
           /\ track[U!Of(r).track] # Null
<1>1. completion[r] \in U!Request
    BY DEF Rows, Tables
<1>2. completion[r].upload \in Uploads
    BY <1>1 DEF U!Request
<1>3. U!Of(r) # Null /\ U!Of(r) \in U!Intent
    BY <1>2 DEF Rows, Tables, Linked, U!Of
<1>4. U!Of(r).track \in Owned
    BY <1>3 DEF U!Intent
<1>5. track[U!Of(r).track] # Null
    BY <1>2, <1>3 DEF Rows, Linked, U!Of
<1> QED BY <1>1, <1>2, <1>3, <1>4, <1>5 DEF Rows, Tables

\* The steps of completeUpload, one or two to a lemma.
LEMMA CheckKeeps ==
    ASSUME Media, NEW r \in Completions, NEW u \in Uploads, U!Check(r, u)
    PROVE  Media'
<1> DEFINE q == [step |-> "head", upload |-> u, number |-> 0]
<1>1. q \in U!Request /\ q.step = "head" /\ q.upload = u
    BY DEF U!Request
<1>2. media[r] = Null
    BY DEF U!Check, Media, Rows, ProperRequest
<1>3. completion' = [completion EXCEPT ![r] = q] /\ intent[u] # Null
      /\ UNCHANGED <<track, intent, media, job>>
    BY DEF U!Check
<1> HIDE DEF q
<1> QED BY <1>1, <1>2, <1>3, CallAlone

LEMMA HeadKeeps ==
    ASSUME Media, NEW r \in Completions, U!Head(r) \/ U!FindCurrent(r) \/ U!Die(r)
    PROVE  Media'
<1>1. completion[r] # Null /\ completion[r] \in U!Request /\ Rows /\ ProperRequest(r)
    BY CallRows DEF U!Head, U!FindCurrent, U!Die, U!At, Media, Rows
<1>2. UNCHANGED <<track, intent, media, job>>
    BY DEF U!Head, U!FindCurrent, U!Die
<1>3. ASSUME NEW step \in {"refuse", "too large", "current", "create", "done"}, U!GoTo(r, step),
             step = "done" \/ media[r] = Null
      PROVE  Media'
    <2>1. step \in LaterSteps
        BY DEF LaterSteps
    <2>2. PICK q \in U!Request : Moved(r, q, step)
        BY <1>1, <1>3, <2>1, GoneTo
    <2> QED BY <1>2, <1>3, <2>2, CallAlone DEF Moved
<1>4. CASE U!Head(r)
    <2>1. media[r] = Null
        BY <1>1, <1>4 DEF U!Head, U!At, ProperRequest
    <2>2. \/ U!GoTo(r, "refuse") \/ U!GoTo(r, "too large")
          \/ U!GoTo(r, "current") \/ U!GoTo(r, "create")
        BY <1>4 DEF U!Head
    <2> QED BY <1>3, <2>1, <2>2
<1>5. CASE U!FindCurrent(r)
    <2>1. media[r] = Null
        BY <1>1, <1>5 DEF U!FindCurrent, U!At, ProperRequest
    <2>2. PICK number \in Nat :
            completion' = [completion EXCEPT ![r].step = "create", ![r].number = number]
        <3>1. \A c \in U!Currents(U!Of(r).track) : media[c].number + 1 \in Nat
            BY <1>1 DEF U!Currents, U!Versions, Rows, Tables, U!Version
        <3>2. PICK number \in IF U!Currents(U!Of(r).track) = {} THEN {1}
                               ELSE {media[c].number + 1 : c \in U!Currents(U!Of(r).track)} :
                completion' = [completion EXCEPT ![r].step = "create", ![r].number = number]
            BY <1>5 DEF U!FindCurrent
        <3>3. number \in Nat
            BY <3>1, <3>2
        <3> QED BY <3>2, <3>3
    <2>3. PICK q \in U!Request : Moved(r, q, "create")
        BY <1>1, <2>2, NextStep DEF LaterSteps
    <2> QED BY <1>2, <2>1, <2>3, CallAlone DEF Moved
<1>6. CASE U!Die(r)
    BY <1>3, <1>6 DEF U!Die
<1> QED BY <1>4, <1>5, <1>6

LEMMA RefuseKeeps ==
    ASSUME Media, NEW r \in Completions, U!Refuse(r) \/ U!MarkIntent(r)
    PROVE  Media'
<1>1. completion[r] # Null /\ Rows /\ ProperRequest(r)
    BY DEF U!Refuse, U!MarkIntent, U!At, Media, Rows
<1>2. PICK status \in {"FAILED", "PROCESSING"} :
        intent' = [intent EXCEPT ![completion[r].upload].status = status]
    BY DEF U!Refuse, U!MarkIntent
<1> DEFINE new == [U!Of(r) EXCEPT !.status = status]
<1>3. /\ new \in U!Intent /\ new.track = U!Of(r).track /\ new.type = U!Of(r).type
      /\ completion[r].upload \in Uploads /\ track[new.track] # Null
    BY <1>1, CallRows DEF U!Intent, U!IntentStatus
<1>4. intent' = [intent EXCEPT ![completion[r].upload] = new]
    BY <1>1, <1>2 DEF U!Of, Rows, Tables
<1>5. UNCHANGED <<track, media, job>>
    BY DEF U!Refuse, U!MarkIntent
<1> HIDE DEF new
<1>6. RowsStay /\ NoneReadied
    BY <1>1, <1>3, <1>4, <1>5, IntentSet DEF U!Of, Rows, Tables, NoneReadied
<1>7. media'[r] # Null => intent[media'[r].upload] # Null
    BY <1>1, <1>5 DEF Rows, Linked
<1>8. PICK step \in {"fail track", "done", "mark version", "enqueue"} :
        /\ U!GoTo(r, step)
        /\ step = "fail track" => media[r] = Null
        /\ step \in {"mark version", "enqueue"} => media[r] # Null
    <2>1. CASE U!Refuse(r)
        <3>1. media[r] = Null
            BY <1>1, <2>1 DEF U!Refuse, U!At, ProperRequest
        <3>2. U!GoTo(r, "fail track") \/ U!GoTo(r, "done")
            BY <2>1 DEF U!Refuse
        <3> QED BY <3>1, <3>2
    <2>2. CASE U!MarkIntent(r)
        <3>1. U!Audio(r) => media[r] # Null
            BY <1>1, <2>2 DEF U!MarkIntent, U!At, ProperRequest
        <3>2. CASE ~U!Audio(r)
            <4>1. U!GoTo(r, "done")
                BY <2>2, <3>2 DEF U!MarkIntent, U!GoTo
            <4> QED BY <4>1
        <3>3. CASE U!Audio(r)
            <4>1. media[r] # Null
                BY <3>1, <3>3
            <4>2. U!GoTo(r, "mark version") \/ U!GoTo(r, "enqueue")
                BY <2>2, <3>3 DEF U!MarkIntent, U!GoTo
            <4> QED BY <4>1, <4>2
        <3> QED BY <3>2, <3>3
    <2> QED BY <2>1, <2>2
<1>9. step \in LaterSteps
    BY DEF LaterSteps
<1>10. PICK q \in U!Request : Moved(r, q, step)
    BY <1>1, <1>8, <1>9, GoneTo
<1> QED BY <1>1, <1>5, <1>6, <1>7, <1>8, <1>10, SameVersions, CallKeeps DEF Moved

LEMMA TrackKeeps ==
    ASSUME Media, NEW r \in Completions, U!FailTrack(r) \/ U!MarkTrack(r)
    PROVE  Media'
<1>1. completion[r] # Null /\ Rows /\ ProperRequest(r)
    BY DEF U!FailTrack, U!MarkTrack, U!At, Media, Rows
<1>2. PICK state \in {"FAILED", "PROCESSING"} : track' = [track EXCEPT ![U!Of(r).track].state = state]
    BY DEF U!FailTrack, U!MarkTrack
<1> DEFINE new == [track[U!Of(r).track] EXCEPT !.state = state]
<1>3. new \in U!Track /\ new.state # "READY" /\ U!Of(r).track \in Owned
    BY <1>1, CallRows DEF U!Track, U!ProcessingState
<1>4. track' = [track EXCEPT ![U!Of(r).track] = new]
    BY <1>1, <1>2 DEF Rows, Tables
<1>5. UNCHANGED <<intent, media, job>>
    BY DEF U!FailTrack, U!MarkTrack
<1> HIDE DEF new
<1>6. RowsStay /\ NoneReadied
    BY <1>1, <1>3, <1>4, <1>5, TrackSet
<1>7. media'[r] # Null => intent[media'[r].upload] # Null
    BY <1>1, <1>5 DEF Rows, Linked
<1>8. PICK step \in {"done", "enqueue"} : U!GoTo(r, step) /\ (step = "enqueue" => media[r] # Null)
    BY <1>1 DEF U!FailTrack, U!MarkTrack, U!At, ProperRequest
<1>9. step \in LaterSteps
    BY DEF LaterSteps
<1>10. PICK q \in U!Request : Moved(r, q, step)
    BY <1>1, <1>8, <1>9, GoneTo
<1> QED BY <1>1, <1>5, <1>6, <1>7, <1>8, <1>10, SameVersions, CallKeeps DEF Moved

LEMMA CreateKeeps ==
    ASSUME Media, NEW r \in Completions, U!Create(r)
    PROVE  Media'
<1>1. completion[r] # Null /\ Rows /\ completion[r].upload \in Uploads /\ completion[r].number \in Nat
      /\ intent[completion[r].upload] # Null
    <2>1. completion[r] # Null /\ Rows /\ completion[r] \in U!Request
        BY DEF U!Create, U!At, Media, Rows, Tables
    <2> QED BY <2>1, CallRows DEF U!Request, U!Of, Rows, Linked
<1>2. media[r] = Null
    BY <1>1 DEF U!Create, U!At, Rows, ProperRequest
<1>3. UNCHANGED <<track, intent, job>>
    BY DEF U!Create
<1>4. CASE U!GoTo(r, "done") /\ UNCHANGED media
    <2>1. PICK q \in U!Request : Moved(r, q, "done")
        BY <1>1, <1>4, GoneTo DEF LaterSteps
    <2> QED BY <1>3, <1>4, <2>1, CallAlone DEF Moved
<1>5. CASE U!GoTo(r, "mark intent") /\ UNCHANGED media /\ ~U!Audio(r)
    <2>1. PICK q \in U!Request : Moved(r, q, "mark intent")
        BY <1>1, <1>5, GoneTo DEF LaterSteps
    <2>2. intent[q.upload].type # "TRACK_AUDIO"
        BY <1>5, <2>1 DEF Moved, U!Audio, U!Of
    <2> QED BY <1>1, <1>2, <1>3, <1>5, <2>1, <2>2, SameRows, SameVersions, CallKeeps DEF Moved
<1>6. ASSUME NEW first \in BOOLEAN, U!GoTo(r, "mark intent"),
             media' = [media EXCEPT ![r] = [upload |-> completion[r].upload, number |-> completion[r].number,
                                            current |-> first, state |-> "UPLOADING"]]
      PROVE  Media'
    <2> DEFINE v == [upload |-> completion[r].upload, number |-> completion[r].number,
                     current |-> first, state |-> "UPLOADING"]
    <2>1. v \in U!Version /\ v.upload = completion[r].upload
        BY <1>1 DEF U!Version, U!ProcessingState
    <2>2. media' = [media EXCEPT ![r] = v]
        BY <1>6
    <2> HIDE DEF v
    <2>3. v # Null
        BY <1>1, <2>1 DEF Rows, U!RecordAssumption
    <2>4. /\ media' \in [Completions -> U!Version \cup {Null}] /\ media'[r] = v
          /\ \A s \in Completions : s # r => media'[s] = media[s]
        BY <1>1, <2>1, <2>2 DEF Rows, Tables
    <2>5. VersionsStay /\ PlayableStay
        BY <1>2, <1>3, <2>4 DEF VersionsStay, PlayableStay, Playable
    <2>6. PICK q \in U!Request : Moved(r, q, "mark intent")
        BY <1>1, <1>6, GoneTo DEF LaterSteps
    <2> QED BY <1>1, <1>3, <2>1, <2>3, <2>4, <2>5, <2>6, SameRows, CallKeeps DEF Moved
<1>7. \/ U!GoTo(r, "done") /\ UNCHANGED media
      \/ U!GoTo(r, "mark intent") /\ UNCHANGED media /\ ~U!Audio(r)
      \/ /\ U!GoTo(r, "mark intent")
         /\ media' = [media EXCEPT ![r] =
               [upload |-> completion[r].upload, number |-> completion[r].number,
                current |-> completion[r].number = 1, state |-> "UPLOADING"]]
    BY DEF U!Create
<1>8. (completion[r].number = 1) \in BOOLEAN
    OBVIOUS
<1> QED BY <1>4, <1>5, <1>6, <1>7, <1>8

\* A version's state or currency changes, and its upload does not.
LEMMA VersionSet ==
    ASSUME Rows, NEW r \in Completions, media[r] # Null, NEW v \in U!Version,
           media' = [media EXCEPT ![r] = v], v.upload = media[r].upload
    PROVE  /\ VersionsStay
           /\ media'[r] # Null /\ intent[media'[r].upload] # Null
           /\ \A s \in Completions : s # r => media'[s] = media[s]
<1>1. v # Null /\ intent[media[r].upload] # Null
    BY DEF Rows, U!RecordAssumption, Linked
<1>2. /\ media' \in [Completions -> U!Version \cup {Null}] /\ media'[r] = v
      /\ \A s \in Completions : s # r => media'[s] = media[s]
    BY DEF Rows, Tables
<1> QED BY <1>1, <1>2 DEF VersionsStay

LEMMA MarkVersionKeeps ==
    ASSUME Media, NEW r \in Completions, Settled(r), U!MarkVersion(r)
    PROVE  Media'
<1>1. completion[r] # Null /\ Rows /\ media[r] # Null /\ media[r] \in U!Version
    <2>1. completion[r] # Null /\ Rows /\ ProperRequest(r) /\ completion[r].step = "mark version"
        BY DEF U!MarkVersion, U!At, Media, Rows
    <2> QED BY <2>1 DEF ProperRequest, Rows, Tables
<1> DEFINE v == [media[r] EXCEPT !.state = "PROCESSING"]
<1>2. v \in U!Version /\ v.upload = media[r].upload /\ v.current = media[r].current
    BY <1>1 DEF U!Version, U!ProcessingState
<1>3. media' = [media EXCEPT ![r] = v] /\ UNCHANGED <<track, intent, job>>
    BY <1>1 DEF U!MarkVersion, Rows, Tables
<1> HIDE DEF v
<1>4. PICK q \in U!Request : Moved(r, q, "mark track")
    BY <1>1, GoneTo DEF LaterSteps, U!MarkVersion
<1>5. /\ VersionsStay /\ media'[r] # Null /\ intent[media'[r].upload] # Null
      /\ \A s \in Completions : s # r => media'[s] = media[s]
    BY <1>1, <1>2, <1>3, VersionSet
<1>6. ~Playable(r)
    BY DEF U!MarkVersion, U!At, Settled, VersionDecided, Playable
<1>7. PlayableStay
    BY <1>3, <1>5, <1>6 DEF PlayableStay, Playable
<1> QED BY <1>1, <1>3, <1>4, <1>5, <1>7, SameRows, CallKeeps DEF Moved

LEMMA EnqueueKeeps ==
    ASSUME Media, NEW r \in Completions, U!Enqueue(r)
    PROVE  Media'
<1>1. completion[r] # Null /\ Rows /\ media[r] # Null /\ job[r] \in U!Job
    <2>1. completion[r] # Null /\ Rows /\ ProperRequest(r) /\ completion[r].step = "enqueue"
        BY DEF U!Enqueue, U!At, Media, Rows
    <2> QED BY <2>1 DEF ProperRequest, Rows, Tables
<1> DEFINE j == [job[r] EXCEPT !.step = "waiting"]
<1>2. j \in U!Job /\ j.step = "waiting" /\ j.stalled = job[r].stalled
    BY <1>1 DEF U!Job
<1>3. job' = [job EXCEPT ![r] = j] /\ UNCHANGED <<track, intent, media>>
    BY <1>1 DEF U!Enqueue, Rows, Tables
<1> HIDE DEF j
<1>4. /\ job' \in [Completions -> U!Job] /\ job'[r] = j
      /\ \A s \in Completions : s # r => job'[s] = job[s]
    BY <1>1, <1>2, <1>3 DEF Rows, Tables
<1>5. PICK q \in U!Request : Moved(r, q, "done")
    BY <1>1, GoneTo DEF LaterSteps, U!Enqueue
<1>6. /\ completion' \in [Completions -> U!Request \cup {Null}] /\ completion'[r] = q
      /\ \A s \in Completions : s # r => completion'[s] = completion[s]
    BY <1>1, <1>5 DEF Rows, Tables, Moved
<1>7. RowsStay /\ NoneReadied /\ VersionsStay /\ PlayableStay
    BY <1>1, <1>2, <1>3, <1>4, SameRows, SameVersions
<1>8. q # Null /\ q.step = "done" /\ intent[q.upload] # Null
    BY <1>1, <1>5 DEF Moved, Rows, U!RecordAssumption
<1>9. ProperRequest(r)'
    BY <1>6, <1>8 DEF ProperRequest
<1>10. ProperJob(r)'
    BY <1>1, <1>2, <1>3, <1>4 DEF ProperJob
<1>11. \A s \in Completions : ProperRequest(s)' /\ ProperJob(s)'
    BY <1>1, <1>3, <1>4, <1>6, <1>7, <1>9, <1>10, RequestKept, JobKept
<1>12. Rows'
    BY <1>1, <1>3, <1>4, <1>6, <1>7, <1>8, <1>11, RowsKept DEF Rows, Linked
<1> QED BY <1>7, <1>12, ReadyKept DEF Media

LEMMA CompleteKeeps ==
    ASSUME Media, NEW r \in Completions, Settled(r), U!Complete(r) \/ U!Die(r)
    PROVE  Media'
BY CheckKeeps, HeadKeeps, RefuseKeeps, TrackKeeps, CreateKeeps, MarkVersionKeeps, EnqueueKeeps
   DEF U!Complete

-----------------------------------------------------------------------------
(* The worker *)

\* A job moves on, and no track becomes READY by it.
LEMMA JobKeeps ==
    ASSUME Media, NEW r \in Completions, NEW j \in U!Job, job' = [job EXCEPT ![r] = j],
           UNCHANGED completion, RowsStay, VersionsStay, NoneReadied, PlayableStay,
           \A s \in Completions : media'[s] # Null => media[s] # Null,
           media[r] # Null, j.other # Null =>
              media[j.other] # Null /\ U!TrackOf(j.other) = U!TrackOf(r)
    PROVE  Media'
BY JobRows, ReadyKept DEF Media

\* Where JobTo leads.
LEMMA JobMoved ==
    ASSUME Rows, NEW r \in Completions,
           NEW step \in {"parsed", "broken", "handled", "ended", "failed"},
           U!JobTo(r, step)
    PROVE  \E j \in U!Job : /\ job' = [job EXCEPT ![r] = j] /\ j.other = Null
                            /\ j.stalled = job[r].stalled
<1> DEFINE j == [job[r] EXCEPT !.step = step, !.other = Null]
<1>1. job[r] \in U!Job
    BY DEF Rows, Tables
<1>2. j \in U!Job /\ j.other = Null /\ j.stalled = job[r].stalled
    BY <1>1 DEF U!Job
<1>3. job' = [job EXCEPT ![r] = j]
    BY DEF U!JobTo, Rows, Tables
<1> QED BY <1>2, <1>3

\* The steps that write no version.
LEMMA ReadKeeps ==
    ASSUME Media, NEW r \in Completions,
           U!Fetch(r) \/ U!FindOther(r) \/ U!Ack(r) \/ U!CatchFails(r) \/ U!Stall(r)
    PROVE  Media'
<1>1. Rows /\ media[r] # Null /\ job[r] \in U!Job
    <2>1. Rows /\ ProperJob(r) /\ job[r].step # "none"
        BY DEF U!Fetch, U!FindOther, U!Ack, U!CatchFails, U!Stall, U!JobAt, Media, Rows
    <2> QED BY <2>1 DEF ProperJob, Rows, Tables
<1>2. UNCHANGED <<track, intent, completion, media>>
    BY DEF U!Fetch, U!FindOther, U!Ack, U!CatchFails, U!Stall
<1>3. ASSUME NEW j \in U!Job, job' = [job EXCEPT ![r] = j], job[r].stalled => j.stalled,
             j.other # Null => media[j.other] # Null /\ U!TrackOf(j.other) = U!TrackOf(r)
      PROVE  Media'
    <2>1. \A s \in Completions : job[s].stalled => job'[s].stalled
        BY <1>1, <1>3 DEF Rows, Tables
    <2>2. RowsStay /\ NoneReadied /\ VersionsStay /\ PlayableStay
        BY <1>1, <1>2, <2>1, SameRows, SameVersions
    <2> QED BY <1>1, <1>2, <1>3, <2>2, JobKeeps
<1>4. ASSUME NEW step \in {"parsed", "broken", "ended", "failed"}, U!JobTo(r, step) PROVE Media'
    BY <1>1, <1>3, <1>4, JobMoved
<1>5. CASE U!Fetch(r) \/ U!Ack(r)
    <2>1. U!JobTo(r, "parsed") \/ U!JobTo(r, "broken") \/ U!JobTo(r, "ended")
        BY <1>5 DEF U!Fetch, U!Ack
    <2> QED BY <1>4, <2>1
<1>6. CASE U!FindOther(r)
    <2>1. PICK other \in Completions \cup {Null} :
            /\ other # Null => other \in U!Currents(U!TrackOf(r))
            /\ job' = [job EXCEPT ![r].step = "found", ![r].other = other]
        BY <1>6 DEF U!FindOther, U!Currents, U!Versions
    <2> DEFINE j == [job[r] EXCEPT !.step = "found", !.other = other]
    <2>2. j \in U!Job /\ j.other = other /\ j.stalled = job[r].stalled
        BY <1>1, <2>1 DEF U!Job
    <2>3. job' = [job EXCEPT ![r] = j]
        BY <1>1, <2>1 DEF Rows, Tables
    <2> HIDE DEF j
    <2>4. other # Null => media[other] # Null /\ U!TrackOf(other) = U!TrackOf(r)
        BY <2>1 DEF U!Currents, U!Versions
    <2> QED BY <1>3, <2>2, <2>3, <2>4
<1>7. CASE U!CatchFails(r)
    <2>1. CASE job[r].attempt < Attempts
        <3> DEFINE j == [job[r] EXCEPT !.step = "waiting", !.other = Null, !.attempt = @ + 1]
        <3>1. j \in U!Job /\ j.other = Null /\ j.stalled = job[r].stalled
            <4>1. job[r].attempt \in 1..Attempts /\ Attempts \in Nat
                BY <1>1, MediaAssumption DEF U!Job, U!FaultsAssumption
            <4>2. job[r].attempt + 1 \in 1..Attempts
                BY <2>1, <4>1
            <4> QED BY <1>1, <4>2 DEF U!Job
        <3>2. job' = [job EXCEPT ![r] = j]
            BY <1>1, <1>7, <2>1 DEF U!CatchFails, Rows, Tables
        <3> HIDE DEF j
        <3> QED BY <1>3, <3>1, <3>2
    <2>2. CASE ~(job[r].attempt < Attempts)
        BY <1>4, <1>7, <2>2 DEF U!CatchFails
    <2> QED BY <2>1, <2>2
<1>8. CASE U!Stall(r)
    <2>1. CASE ~job[r].stalled
        <3> DEFINE j == [job[r] EXCEPT !.step = "waiting", !.other = Null, !.stalled = TRUE]
        <3>1. j \in U!Job /\ j.other = Null /\ j.stalled
            BY <1>1 DEF U!Job
        <3>2. job' = [job EXCEPT ![r] = j]
            BY <1>1, <1>8, <2>1 DEF U!Stall, Rows, Tables
        <3> HIDE DEF j
        <3> QED BY <1>3, <3>1, <3>2
    <2>2. CASE job[r].stalled
        BY <1>4, <1>8, <2>2 DEF U!Stall
    <2> QED BY <2>1, <2>2
<1> QED BY <1>5, <1>6, <1>7, <1>8

\* The catch clause makes no track READY and demotes no version; one that was
\* READY fails only if its job stalled.
LEMMA CatchKeeps ==
    ASSUME Media, NEW r \in Completions, Settled(r), U!Catch(r)
    PROVE  Media'
<1>1. Rows /\ media[r] # Null /\ media[r] \in U!Version
    <2>1. Rows /\ ProperJob(r) /\ job[r].step # "none"
        BY DEF U!Catch, U!JobAt, Media, Rows
    <2> QED BY <2>1 DEF ProperJob, Rows, Tables
<1>2. U!TrackOf(r) \in Owned /\ track[U!TrackOf(r)] # Null /\ track[U!TrackOf(r)] \in U!Track
    BY <1>1, VersionTrack
<1> DEFINE v   == [media[r] EXCEPT !.state = "FAILED"]
           new == [track[U!TrackOf(r)] EXCEPT !.state = "FAILED"]
<1>3. v \in U!Version /\ v.upload = media[r].upload /\ v.current = media[r].current
    BY <1>1 DEF U!Version, U!ProcessingState
<1>4. new \in U!Track /\ new.state # "READY"
    BY <1>2 DEF U!Track, U!ProcessingState
<1>5. media' = [media EXCEPT ![r] = v] /\ UNCHANGED <<intent, completion>> /\ U!JobTo(r, "handled")
    BY <1>1 DEF U!Catch, Rows, Tables
<1>6. UNCHANGED track \/ track' = [track EXCEPT ![U!TrackOf(r)] = new]
    BY <1>1, <1>2 DEF U!Catch, Rows, Tables
<1> HIDE DEF v, new
<1>7. RowsStay /\ NoneReadied
    BY <1>1, <1>2, <1>4, <1>5, <1>6, SameRows, TrackSet
<1>8. /\ VersionsStay /\ media'[r] # Null /\ media'[r] = v
      /\ \A s \in Completions : s # r => media'[s] = media[s]
    BY <1>1, <1>3, <1>5, VersionSet DEF Rows, Tables
<1>9. PICK j \in U!Job : /\ job' = [job EXCEPT ![r] = j] /\ j.other = Null
                          /\ j.stalled = job[r].stalled
    BY <1>1, <1>5, JobMoved
<1>10. PlayableStay
    <2>1. Playable(r) => job[r].stalled
        BY DEF U!Catch, U!JobAt, Settled, VersionDecided, Playable
    <2>2. v.state = "FAILED"
        BY <1>1 DEF v, U!Version
    <2>3. \A s \in Completions : job'[s].stalled = job[s].stalled
        BY <1>1, <1>9 DEF Rows, Tables
    <2> QED BY <1>3, <1>8, <2>1, <2>2, <2>3 DEF PlayableStay, Playable
<1> QED BY <1>1, <1>5, <1>7, <1>8, <1>9, <1>10, JobKeeps

\* The versions once one is processed and another one of its track demoted.
LEMMA ProcessedRows ==
    ASSUME Rows, NEW r \in Completions, media[r] # Null, NEW other \in Completions \cup {Null},
           other # Null => media[other] # Null, media' = U!Processed(r, other)
    PROVE  /\ VersionsStay /\ \A s \in Completions : media'[s] # Null => media[s] # Null
           /\ media'[r].current = (U!Outcome(r) = "READY") /\ media'[r].state = U!Outcome(r)
           /\ \A s \in Completions \ {r, other} : media'[s] = media[s]
<1>1. \A s \in Completions : media[s] # Null => media[s] \in U!Version
    BY DEF Rows, Tables
<1> DEFINE first  == [media[r] EXCEPT !.state = U!Outcome(r), !.current = U!Outcome(r) = "READY"]
           second(s) == [media[s] EXCEPT !.current = FALSE]
<1>2. /\ first \in U!Version /\ first.upload = media[r].upload
      /\ first.current = (U!Outcome(r) = "READY") /\ first.state = U!Outcome(r)
    BY <1>1 DEF U!Version, U!Outcome, U!ProcessingState
<1>3. \A s \in Completions : media[s] # Null =>
         second(s) \in U!Version /\ second(s).upload = media[s].upload
    BY <1>1 DEF U!Version
<1>4. media' = [s \in Completions |-> IF s = r THEN first
                                   ELSE IF s = other THEN second(s) ELSE media[s]]
    BY DEF U!Processed
<1> HIDE DEF first, second
<1>5. Null \notin U!Version /\ Null \notin Completions
    BY DEF Rows, U!RecordAssumption, U!RowsAssumption
<1>6. \A s \in Completions : /\ s = r => media'[s] = first
                             /\ s # r /\ s = other => media'[s] = second(s) /\ media[s] # Null
                             /\ s # r /\ s # other => media'[s] = media[s]
    BY <1>4, <1>5
<1>7. \A s \in Completions : media'[s] \in U!Version \cup {Null}
    BY <1>2, <1>3, <1>6 DEF Rows, Tables
<1>8. VersionsStay
    BY <1>2, <1>3, <1>4, <1>5, <1>6, <1>7 DEF VersionsStay
<1> QED BY <1>2, <1>6, <1>8

\* The transaction: the only step that makes a track READY.
LEMMA CommitKeeps ==
    ASSUME Media, NEW r \in Completions, U!Commit(r)
    PROVE  Media'
<1>1. Rows /\ media[r] # Null /\ job[r].other \in Completions \cup {Null}
      /\ (job[r].other # Null =>
             media[job[r].other] # Null /\ U!TrackOf(job[r].other) = U!TrackOf(r))
    <2>1. Rows /\ ProperJob(r) /\ job[r].step = "found" /\ job[r] \in U!Job
        BY DEF U!Commit, U!JobAt, Media, Rows, Tables
    <2> QED BY <2>1 DEF ProperJob, U!Job
<1>2. CASE U!JobTo(r, "broken") /\ UNCHANGED <<track, media>>
    <2>1. UNCHANGED <<intent, completion>>
        BY DEF U!Commit
    <2>2. PICK j \in U!Job : /\ job' = [job EXCEPT ![r] = j] /\ j.other = Null
                              /\ j.stalled = job[r].stalled
        BY <1>1, <1>2, JobMoved
    <2>3. \A s \in Completions : job[s].stalled => job'[s].stalled
        BY <1>1, <2>2 DEF Rows, Tables
    <2> QED BY <1>1, <1>2, <2>1, <2>2, <2>3, SameRows, SameVersions, JobKeeps
<1>3. CASE /\ media' = U!Processed(r, job[r].other) /\ U!JobTo(r, "handled")
           /\ track' = [track EXCEPT ![U!TrackOf(r)].state = U!Outcome(r)]
    <2>1. UNCHANGED <<intent, completion>>
        BY DEF U!Commit
    <2>2. U!TrackOf(r) \in Owned /\ track[U!TrackOf(r)] # Null /\ track[U!TrackOf(r)] \in U!Track
        BY <1>1, VersionTrack
    <2> DEFINE new == [track[U!TrackOf(r)] EXCEPT !.state = U!Outcome(r)]
    <2>3. new \in U!Track /\ new.state = U!Outcome(r)
        BY <2>2 DEF U!Track, U!ProcessingState, U!Outcome
    <2>4. track' = [track EXCEPT ![U!TrackOf(r)] = new]
        BY <1>1, <1>3, <2>2 DEF Rows, Tables
    <2> HIDE DEF new
    <2>5. /\ track' \in [Owned -> U!Track \cup {Null}] /\ track'[U!TrackOf(r)] = new
          /\ \A t \in Owned : t # U!TrackOf(r) => track'[t] = track[t]
        BY <1>1, <2>2, <2>3, <2>4 DEF Rows, Tables
    <2>6. RowsStay
        <3>1. new # Null
            BY <1>1, <2>3 DEF Rows, U!RecordAssumption
        <3>2. \A u \in Uploads : intent[u] # Null => intent[u].track \in Owned
            BY <1>1 DEF Rows, Tables, U!Intent
        <3> QED BY <1>1, <2>1, <2>5, <3>1, <3>2 DEF RowsStay, Rows, Tables, Linked
    <2>7. /\ VersionsStay /\ \A s \in Completions : media'[s] # Null => media[s] # Null
          /\ media'[r].current = (U!Outcome(r) = "READY") /\ media'[r].state = U!Outcome(r)
          /\ \A s \in Completions \ {r, job[r].other} : media'[s] = media[s]
        BY <1>1, <1>3, ProcessedRows
    <2>8. PICK j \in U!Job : /\ job' = [job EXCEPT ![r] = j] /\ j.other = Null
                              /\ j.stalled = job[r].stalled
        BY <1>1, <1>3, JobMoved
    <2>9. Rows'
        BY <1>1, <2>1, <2>6, <2>7, <2>8, JobRows
    <2>10. ASSUME NEW t \in Owned, track'[t] # Null, track'[t].state = "READY"
           PROVE  \E s \in Completions : Playable(s)' /\ U!TrackOf(s)' = t
        <3>1. CASE t = U!TrackOf(r)
            <4>1. Playable(r)'
                <5>1. media'[r] # Null
                    BY <1>1, <2>7 DEF VersionsStay
                <5>2. U!Outcome(r) = "READY"
                    BY <2>3, <2>5, <2>10, <3>1
                <5> QED BY <2>7, <5>1, <5>2 DEF Playable
            <4>2. U!TrackOf(r)' = t
                BY <1>1, <2>6, <2>7, <3>1, TrackKept
            <4> QED BY <4>1, <4>2
        <3>2. CASE t # U!TrackOf(r)
            <4>1. PICK s \in Completions : Playable(s) /\ U!TrackOf(s) = t
                BY <2>5, <2>10, <3>2, ReadyHas DEF Media
            <4>2. s # r
                BY <3>2, <4>1
            <4>3. s # job[r].other
                <5> SUFFICES ASSUME s = job[r].other PROVE FALSE
                    OBVIOUS
                <5>1. job[r].other # Null
                    BY <1>1 DEF Rows, U!RowsAssumption
                <5> QED BY <1>1, <3>2, <4>1, <5>1
            <4>4. media'[s] = media[s] /\ job'[s] = job[s]
                BY <1>1, <2>7, <2>8, <4>2, <4>3 DEF Rows, Tables
            <4>5. Playable(s)'
                BY <4>1, <4>4 DEF Playable
            <4>6. U!TrackOf(s)' = t
                BY <1>1, <2>6, <2>7, <4>1, TrackKept DEF Playable
            <4> QED BY <4>5, <4>6
        <3> QED BY <3>1, <3>2
    <2>11. U!ReadyTrackHasCurrent'
        BY <2>10 DEF U!ReadyTrackHasCurrent, U!Currents, U!Versions, Playable, U!TrackOf
    <2> QED BY <2>9, <2>11 DEF Media
<1> QED BY <1>2, <1>3 DEF U!Commit

LEMMA MediaInit == U!Init => Media /\ \A r \in Completions : Settled(r)
BY MediaAssumption DEF U!Init, Media, Rows, Tables, Linked, ProperRequest, ProperJob, Settled,
                       VersionDecided, U!ReadyTrackHasCurrent, U!Job, U!FaultsAssumption

LEMMA MediaNext ==
    Media /\ (\A r \in Completions : Settled(r)) /\ [U!Next]_(U!vars) => Media'
<1> SUFFICES ASSUME Media, \A r \in Completions : Settled(r), [U!Next]_(U!vars) PROVE Media'
    OBVIOUS
<1>1. CASE UNCHANGED U!vars
    <2>1. Rows /\ UNCHANGED <<track, intent, completion, media, job>>
        BY <1>1 DEF U!vars, Media
    <2>2. RowsStay /\ NoneReadied /\ VersionsStay /\ PlayableStay
        BY <2>1, SameRows, SameVersions
    <2> QED BY <2>1, <2>2, LibraryRows, ReadyKept DEF Media
<1>2. CASE U!Library
    BY <1>2, LibraryKeeps
<1>3. ASSUME NEW r \in Completions,
             U!Complete(r) \/ U!Die(r) \/ U!Process(r) \/ U!CatchFails(r) \/ U!Stall(r)
      PROVE  Media'
    BY <1>3, CompleteKeeps, ReadKeeps, CommitKeeps, CatchKeeps DEF U!Process
<1> QED BY <1>1, <1>2, <1>3 DEF U!Next

\* A request that is not done has no job yet that it could disturb.
LEMMA RequestSettles ==
    ASSUME Media, \A s \in Completions : Settled(s), NEW r \in Completions,
           U!Complete(r) \/ U!Die(r)
    PROVE  \A s \in Completions : Settled(s)'
<1>1. /\ completion \in [Completions -> U!Request \cup {Null}] /\ job \in [Completions -> U!Job]
      /\ media \in [Completions -> U!Version \cup {Null}] /\ Null \notin U!Version
    BY DEF Media, Rows, Tables, U!RecordAssumption
<1>2. completion[r] = Null \/ completion[r].step # "done"
    BY DEF U!Complete, U!Check, U!Head, U!Refuse, U!FailTrack, U!FindCurrent, U!Create, U!MarkIntent,
           U!MarkVersion, U!MarkTrack, U!Enqueue, U!Die, U!At
<1>3. job[r].step = "none" /\ ~VersionDecided(r)
    BY <1>2 DEF Settled
<1>4. \A s \in Completions \ {r} : completion'[s] = completion[s] /\ media'[s] = media[s] /\ job'[s] = job[s]
    BY <1>1 DEF U!Complete, U!Check, U!Head, U!Refuse, U!FailTrack, U!FindCurrent, U!Create,
                U!MarkIntent, U!MarkVersion, U!MarkTrack, U!Enqueue, U!Die, U!GoTo
<1>5. ASSUME NEW s \in Completions \ {r} PROVE Settled(s)'
    BY <1>4, <1>5 DEF Settled, VersionDecided
<1>6. ~VersionDecided(r)'
    <2>1. CASE UNCHANGED media
        BY <1>3, <2>1 DEF VersionDecided
    <2>2. CASE U!Create(r) /\ ~UNCHANGED media
        <3> DEFINE v == [upload |-> completion[r].upload, number |-> completion[r].number,
                         current |-> completion[r].number = 1, state |-> "UPLOADING"]
        <3>1. media' = [media EXCEPT ![r] = v]
            BY <2>2 DEF U!Create
        <3>2. v.state = "UPLOADING"
            OBVIOUS
        <3> HIDE DEF v
        <3>3. media'[r] = v
            BY <1>1, <3>1
        <3> QED BY <3>2, <3>3 DEF VersionDecided
    <2>3. CASE U!MarkVersion(r)
        <3>1. media' = [media EXCEPT ![r].state = "PROCESSING"]
            BY <2>3 DEF U!MarkVersion
        <3>2. media[r] = Null \/ media[r] \in U!Version
            BY <1>1
        <3>3. media[r] # Null
            BY <2>3 DEF U!MarkVersion, U!At, Media, Rows, ProperRequest
        <3>4. media'[r].state = "PROCESSING"
            BY <1>1, <3>1, <3>2, <3>3 DEF U!Version
        <3> QED BY <3>4 DEF VersionDecided
    <2> QED BY <2>1, <2>2, <2>3
            DEF U!Complete, U!Check, U!Head, U!Refuse, U!FailTrack, U!FindCurrent, U!MarkIntent,
                U!MarkTrack, U!Enqueue, U!Die
<1>7. CASE UNCHANGED job
    BY <1>3, <1>5, <1>6, <1>7 DEF Settled
<1>8. CASE U!Enqueue(r)
    <2>1. completion[r] # Null /\ completion[r] \in U!Request /\ job[r] \in U!Job
        BY <1>1, <1>8 DEF U!Enqueue, U!At
    <2>2. job'[r].step = "waiting"
        BY <1>1, <1>8, <2>1 DEF U!Enqueue, U!Job
    <2>3. PICK q \in U!Request : Moved(r, q, "done")
        BY <1>8, <2>1, GoneTo DEF LaterSteps, U!Enqueue, Media
    <2>4. completion'[r] # Null /\ completion'[r].step = "done"
        BY <1>1, <2>3 DEF Moved, Media, Rows, U!RecordAssumption
    <2>5. Settled(r)'
        BY <1>6, <2>2, <2>4 DEF Settled
    <2> QED BY <1>5, <2>5
<1>9. UNCHANGED job \/ U!Enqueue(r)
    BY DEF U!Complete, U!Check, U!Head, U!Refuse, U!FailTrack, U!FindCurrent, U!Create, U!MarkIntent,
           U!MarkVersion, U!MarkTrack, U!Die
<1> QED BY <1>7, <1>8, <1>9

\* A version keeps the state it has.
StateStays(s) == (media'[s] = Null <=> media[s] = Null) /\ media'[s].state = media[s].state

\* A job goes through once its writes are done, and another one only demotes.
LEMMA JobSettles ==
    ASSUME Media, \A s \in Completions : Settled(s), NEW r \in Completions,
           U!Process(r) \/ U!CatchFails(r) \/ U!Stall(r)
    PROVE  \A s \in Completions : Settled(s)'
<1>1. /\ job \in [Completions -> U!Job] /\ media \in [Completions -> U!Version \cup {Null}]
      /\ Null \notin U!Version /\ job[r] \in U!Job
    BY DEF Media, Rows, Tables, U!RecordAssumption
<1>2. UNCHANGED completion
    BY DEF U!Process, U!CatchFails, U!Stall, U!Fetch, U!FindOther, U!Commit, U!Catch, U!Ack
<1>3. job[r].step # "none" /\ media[r] # Null /\ media[r] \in U!Version
    <2>1. job[r].step # "none"
        BY DEF U!Process, U!CatchFails, U!Stall, U!Fetch, U!FindOther, U!Commit, U!Catch, U!Ack, U!JobAt
    <2> QED BY <1>1, <2>1 DEF Media, Rows, ProperJob
<1>4. \A s \in Completions \ {r} : job'[s] = job[s]
    BY <1>1 DEF U!Process, U!CatchFails, U!Stall, U!Fetch, U!FindOther, U!Commit, U!Catch, U!Ack, U!JobTo
<1>5. ASSUME \A s \in Completions \ {r} : StateStays(s), job'[r].step # "none",
             job'[r].step \in {"handled", "ended"} => VersionDecided(r)',
             VersionDecided(r)' /\ media'[r].state = "READY" =>
                job'[r].stalled \/ job'[r].step \in {"handled", "ended"}
      PROVE  \A s \in Completions : Settled(s)'
    <2>1. Settled(r)'
        BY <1>2, <1>3, <1>5 DEF Settled
    <2>2. ASSUME NEW s \in Completions \ {r} PROVE Settled(s)'
        <3>1. VersionDecided(s)' <=> VersionDecided(s)
            BY <1>5, <2>2 DEF VersionDecided, StateStays
        <3>2. media'[s].state = media[s].state
            BY <1>5, <2>2 DEF StateStays
        <3> QED BY <1>2, <1>4, <2>2, <3>1, <3>2 DEF Settled
    <2> QED BY <2>1, <2>2
<1>6. ASSUME NEW step, U!JobTo(r, step)
      PROVE  job'[r].step = step /\ job'[r].stalled = job[r].stalled
    BY <1>1, <1>6 DEF U!JobTo, U!Job
<1>7. CASE U!Fetch(r) \/ U!FindOther(r) \/ U!Ack(r) \/ U!CatchFails(r) \/ U!Stall(r)
    <2>1. UNCHANGED media
        BY <1>7 DEF U!Fetch, U!FindOther, U!Ack, U!CatchFails, U!Stall
    <2>2. CASE U!Ack(r)
        <3>1. job'[r].step = "ended" /\ VersionDecided(r)
            BY <1>6, <2>2 DEF U!Ack, U!JobAt, Settled
        <3> QED BY <1>5, <2>1, <3>1 DEF StateStays, VersionDecided
    <2>3. CASE ~U!Ack(r)
        <3>1. /\ job'[r].step \in {"parsed", "found", "broken", "waiting", "failed"}
              /\ job[r].stalled => job'[r].stalled
              /\ job[r].step \notin {"handled", "ended"} \/ job'[r].stalled
            <4>1. CASE U!Fetch(r)
                BY <1>6, <4>1 DEF U!Fetch, U!JobAt
            <4>2. CASE U!FindOther(r)
                BY <1>1, <4>2 DEF U!FindOther, U!JobAt, U!Job
            <4>3. CASE U!CatchFails(r)
                <5>1. CASE job[r].attempt < Attempts
                    BY <1>1, <4>3, <5>1 DEF U!CatchFails, U!JobAt, U!Job
                <5>2. CASE ~(job[r].attempt < Attempts)
                    BY <1>6, <4>3, <5>2 DEF U!CatchFails, U!JobAt
                <5> QED BY <5>1, <5>2
            <4>4. CASE U!Stall(r)
                <5>1. CASE ~job[r].stalled
                    BY <1>1, <4>4, <5>1 DEF U!Stall, U!Job
                <5>2. CASE job[r].stalled
                    BY <1>6, <4>4, <5>2 DEF U!Stall
                <5> QED BY <5>1, <5>2
            <4> QED BY <1>7, <2>3, <4>1, <4>2, <4>3, <4>4
        <3>2. VersionDecided(r) /\ media[r].state = "READY" => job'[r].stalled
            BY <3>1 DEF Settled
        <3> QED BY <1>5, <2>1, <3>1, <3>2 DEF StateStays, VersionDecided
    <2> QED BY <2>2, <2>3
<1>8. CASE U!Catch(r)
    <2>1. media' = [media EXCEPT ![r].state = "FAILED"] /\ job'[r].step = "handled"
        BY <1>6, <1>8 DEF U!Catch
    <2>2. /\ media'[r] = [media[r] EXCEPT !.state = "FAILED"]
          /\ \A s \in Completions \ {r} : media'[s] = media[s]
        BY <1>1, <2>1
    <2>3. media'[r] \in U!Version /\ media'[r].state = "FAILED"
        BY <1>3, <2>2 DEF U!Version, U!ProcessingState
    <2>4. VersionDecided(r)'
        BY <1>1, <2>3 DEF VersionDecided
    <2> QED BY <1>5, <2>1, <2>2, <2>4 DEF StateStays
<1>9. CASE U!Commit(r)
    <2>1. CASE U!JobTo(r, "broken") /\ UNCHANGED media
        <3>1. job'[r].step = "broken" /\ job'[r].stalled = job[r].stalled
            BY <1>6, <2>1
        <3>2. VersionDecided(r) /\ media[r].state = "READY" => job[r].stalled
            BY <1>9 DEF U!Commit, U!JobAt, Settled
        <3> QED BY <1>5, <2>1, <3>1, <3>2 DEF StateStays, VersionDecided
    <2>2. CASE media' = U!Processed(r, job[r].other) /\ U!JobTo(r, "handled")
        <3>1. /\ media'[r] = [media[r] EXCEPT !.state = U!Outcome(r),
                                              !.current = U!Outcome(r) = "READY"]
              /\ \A s \in Completions \ {r} : \/ media'[s] = media[s]
                                              \/ /\ s = job[r].other
                                                 /\ media'[s] = [media[s] EXCEPT !.current = FALSE]
            BY <2>2 DEF U!Processed
        <3>2. U!Outcome(r) \in {"READY", "FAILED"}
            BY DEF U!Outcome
        <3>3. media'[r] \in U!Version /\ media'[r].state = U!Outcome(r)
            BY <1>3, <3>1, <3>2 DEF U!Version, U!ProcessingState
        <3>4. VersionDecided(r)'
            BY <1>1, <3>2, <3>3 DEF VersionDecided
        <3>5. ASSUME NEW s \in Completions \ {r} PROVE StateStays(s)
            <4>1. CASE media'[s] = media[s]
                BY <4>1 DEF StateStays
            <4>2. CASE s = job[r].other /\ media'[s] = [media[s] EXCEPT !.current = FALSE]
                <5>1. media[s] # Null
                    <6>1. Null \notin Completions
                        BY DEF Media, Rows, U!RowsAssumption
                    <6> QED BY <1>9, <4>2, <6>1 DEF U!Commit, U!JobAt, Media, Rows, ProperJob
                <5>2. media[s] \in U!Version
                    BY <1>1, <5>1
                <5>3. media'[s] \in U!Version /\ media'[s].state = media[s].state
                    BY <4>2, <5>2 DEF U!Version
                <5> QED BY <1>1, <5>1, <5>3 DEF StateStays
            <4> QED BY <3>1, <3>5, <4>1, <4>2
        <3>6. job'[r].step = "handled"
            BY <1>6, <2>2
        <3> QED BY <1>5, <3>4, <3>5, <3>6
    <2> QED BY <1>9, <2>1, <2>2 DEF U!Commit
<1> QED BY <1>7, <1>8, <1>9 DEF U!Process

\* A job's version is decided in the end, and what is decided stays a reason to
\* have had a job.
LEMMA SettledNext ==
    Media /\ (\A r \in Completions : Settled(r)) /\ [U!Next]_(U!vars)
       => (\A r \in Completions : Settled(r))'
<1> SUFFICES ASSUME Media, \A r \in Completions : Settled(r), [U!Next]_(U!vars)
             PROVE  \A r \in Completions : Settled(r)'
    OBVIOUS
<1>1. CASE U!Library \/ UNCHANGED U!vars
    <2>1. UNCHANGED <<completion, media, job>>
        BY <1>1 DEF U!Library, U!createUploadUrl, U!createReplaceAudioUrl,
                    U!createArtworkUploadUrl, U!NewIntent, U!deleteTrack, U!Expire, U!Vanish,
                    U!Put, U!vars
    <2> QED BY <2>1 DEF Settled, VersionDecided
<1>2. CASE \E r \in Completions :
              U!Complete(r) \/ U!Die(r) \/ U!Process(r) \/ U!CatchFails(r) \/ U!Stall(r)
    BY <1>2, RequestSettles, JobSettles
<1> QED BY <1>1, <1>2 DEF U!Next

\* A track that is READY has a current version that is READY and can be played,
\* in whatever order its uploads are completed and processed, and whatever fails
\* in between, unless the version's job stalled and failed when it was run again
\* (ReadyTrackHasCurrent): a job that demotes the version it found current makes
\* its own current and READY in the same transaction, or fails the track; the
\* catch clause meets a READY version only in a second run.
THEOREM ReadyIsPlayable == U!Spec => []ReadyTrackHasCurrent
<1> DEFINE AllSettled == \A r \in Completions : Settled(r)
<1>1. Media => ReadyTrackHasCurrent
    BY DEF Media, ReadyTrackHasCurrent
<1> QED BY <1>1, MediaInit, MediaNext, SettledNext, PTL DEF U!Spec

\* The worker leaves no version in processing: once a job was handled, or was
\* taken off the queue, its version is READY or FAILED, whatever the requests
\* and the jobs of other versions do meanwhile.
THEOREM HandledIsDecided ==
    U!Spec => [](\A r \in Completions : job[r].step \in {"handled", "ended"} => VersionDecided(r))
<1> DEFINE AllSettled == \A r \in Completions : Settled(r)
<1>1. AllSettled => \A r \in Completions : job[r].step \in {"handled", "ended"} => VersionDecided(r)
    BY DEF Settled
<1> QED BY <1>1, MediaInit, MediaNext, SettledNext, PTL DEF U!Spec

=============================================================================
