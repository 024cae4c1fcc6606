-------------------------- MODULE MigrationsProofs --------------------------
(***************************************************************************)
(* For any processes, migrations, lock, number of runs and of faults: runs *)
(* never overlap, the lock comes back, the journal is a prefix of the      *)
(* migrations and tells what the database holds, and no migration is run   *)
(* up when recorded or down when not.                                      *)
(***************************************************************************)
EXTENDS Migrations, FiniteSetTheorems, TLAPS

(***************************************************************************)
(* The invariant.  Who works holds the lock, so what a run read of the     *)
(* journal stays true of it until the run itself changes it.               *)
(***************************************************************************)
Locked ==
    /\ \A r \in Run : pc[r] \in Working => holder = r
    /\ \A r \in lost : holder = r /\ pc[r] \notin Working
    /\ LockComesBack

\* What a run has left follows what is recorded: the next ones to run up, or the last ones to revert.
Follows(r, n, k) == todo[r] = IF Up(r) THEN (n + 1)..k ELSE (k + 1)..n

Ordered ==
    /\ \E n \in 0..Latest : journal = 1..n
    /\ \A r \in Run :
         pc[r] \in {"work", "log", "commit"} =>
            \E n \in 0..Latest, k \in 0..Latest : journal = 1..n /\ Follows(r, n, k)
    /\ \A r \in Run : pc[r] \in {"log", "commit"} => todo[r] # {}

\* While nothing failed, the two differ by a migration just run outside a transaction, and by no other.
BareRan(r) == pc[r] = "log" /\ Current(r) \in Bare

Journaled ==
    /\ \A m \in Migration \ Bare : m \in journal <=> m \in schema
    /\ faults = 0 =>
         /\ \A r \in Run : BareRan(r) => schema = With(r, journal)
         /\ (\A r \in Run : ~ BareRan(r)) => schema = journal

-----------------------------------------------------------------------------
LEMMA CurrentIsNext ==
    ASSUME NEW r \in Run, NEW n \in Nat, NEW k \in Nat, Follows(r, n, k), todo[r] # {}
    PROVE  Current(r) = (IF Up(r) THEN n + 1 ELSE n) /\ Current(r) \in todo[r]
<1> DEFINE next == IF Up(r) THEN n + 1 ELSE n
           First1(m) == m \in todo[r] /\ \A x \in todo[r] \ {m} : Before(request[r], m, x)
<1>1. First1(next)
      BY DEF Follows, Before, Up
<1>2. \A m \in todo[r] : First1(m) => m = next
      BY DEF Follows, Before, Up
<1>3. Current(r) = CHOOSE m \in todo[r] : \A x \in todo[r] \ {m} : Before(request[r], m, x)
      BY DEF Current
<1> QED BY <1>1, <1>2, <1>3

LEMMA SelectedIsNext ==
    ASSUME NEW n \in 0..Latest, journal = 1..n, NEW req \in Request
    PROVE  \E k \in 0..Latest :
              Selected(req) = IF req.direction = "up" THEN (n + 1)..k ELSE (k + 1)..n
<1> USE MigrationAssumption DEF Request
<1>1. CASE req.direction = "up"
  <2> DEFINE names == (n + 1)..Latest
             k == IF n + req.step < Latest THEN n + req.step ELSE Latest
  <2>1. Selected(req) = {m \in names : Cardinality({x \in names : x < m}) < req.step}
        BY <1>1 DEF Selected, First, Before, Migration
  <2>2. ASSUME NEW m \in names
        PROVE  Cardinality({x \in names : x < m}) = m - 1 - n
    <3>1. {x \in names : x < m} = (n + 1)..(m - 1)
          OBVIOUS
    <3>2. ASSUME NEW i \in Int, NEW j \in Int PROVE Cardinality(i..j) = IF i > j THEN 0 ELSE j - i + 1
          BY FS_Interval
    <3>3. Cardinality((n + 1)..(m - 1)) = m - 1 - n
          BY <3>2
    <3> QED BY <3>1, <3>3
  <2>3. Selected(req) = (n + 1)..k
        BY <2>1, <2>2
  <2> QED BY <1>1, <2>3
<1>2. CASE req.direction = "down"
  <2> DEFINE names == 1..n
             k == IF req.step < n THEN n - req.step ELSE 0
  <2>1. Selected(req) = {m \in names : Cardinality({x \in names : m < x}) < req.step}
        BY <1>2 DEF Selected, First, Before
  <2>2. ASSUME NEW m \in names
        PROVE  Cardinality({x \in names : m < x}) = n - m
    <3>1. {x \in names : m < x} = (m + 1)..n
          OBVIOUS
    <3>2. ASSUME NEW i \in Int, NEW j \in Int PROVE Cardinality(i..j) = IF i > j THEN 0 ELSE j - i + 1
          BY FS_Interval
    <3>3. Cardinality((m + 1)..n) = n - m
          BY <3>2
    <3> QED BY <3>1, <3>3
  <2>3. Selected(req) = (k + 1)..n
        BY <2>1, <2>2
  <2> QED BY <1>2, <2>3
<1> QED BY <1>1, <1>2

-----------------------------------------------------------------------------
(***************************************************************************)
(* The types, with what a run has left.                                    *)
(***************************************************************************)
LEMMA CurrentIsAMigration ==
    ASSUME TypeOK, Ordered, NEW r \in Run, pc[r] \in {"work", "log", "commit"}, todo[r] # {}
    PROVE  Current(r) \in todo[r] /\ Current(r) \in Migration
<1>1. PICK n \in 0..Latest, k \in 0..Latest : Follows(r, n, k)
      BY DEF Ordered
<1>2. Current(r) \in todo[r]
      BY <1>1, CurrentIsNext, MigrationAssumption
<1> QED BY <1>2 DEF TypeOK

LEMMA TypeInit == Init => TypeOK
BY MigrationAssumption, BoundAssumption
   DEF Init, TypeOK, NoRequest, Request, Migration, Place, Working

LEMMA TypeStep == TypeOK /\ Ordered /\ [Next]_vars => TypeOK'
<1> SUFFICES ASSUME TypeOK, Ordered, [Next]_vars PROVE TypeOK'
    OBVIOUS
<1> USE MigrationAssumption, BoundAssumption DEF TypeOK, Place, Working, Go
<1>1. NoRequest \in Request
      BY DEF NoRequest, Request
<1>2. ASSUME NEW r \in Run, NEW req \in Request, Start(r, req) PROVE TypeOK'
      BY <1>2 DEF Start
<1>3. ASSUME NEW r \in Run, Take(r) PROVE TypeOK'
      BY <1>3 DEF Take
<1>4. ASSUME NEW r \in Run, Wait(r) PROVE TypeOK'
      BY <1>1, <1>4 DEF Wait, End
<1>5. ASSUME NEW r \in Run, Read(r) PROVE TypeOK'
  <2>1. Selected(request[r]) \subseteq Migration
        BY DEF Selected, First
  <2> QED BY <1>5, <2>1 DEF Read, Fault
<1>6. ASSUME NEW r \in Run, Work(r) \/ WorkFails(r) PROVE TypeOK'
  <2>1. Current(r) \in Migration
        BY <1>6, CurrentIsAMigration DEF Work, WorkFails
  <2>2. With(r, schema) \subseteq Migration
        BY <2>1 DEF With
  <2>3. CASE Work(r)
        BY <2>2, <2>3 DEF Work
  <2>4. CASE WorkFails(r)
        BY <2>2, <2>4 DEF WorkFails, Fault
  <2> QED BY <1>6, <2>3, <2>4
<1>7. ASSUME NEW r \in Run, Log(r) \/ Commit(r) PROVE TypeOK'
  <2>1. Current(r) \in Migration
        BY <1>7, CurrentIsAMigration DEF Log, Commit, Ordered
  <2>2. With(r, schema) \subseteq Migration /\ With(r, journal) \subseteq Migration
        BY <2>1 DEF With
  <2>3. CASE Log(r)
        BY <2>2, <2>3 DEF Log, Advance
  <2>4. CASE Commit(r)
        BY <2>2, <2>4 DEF Commit, Advance, Fault
  <2> QED BY <1>7, <2>3, <2>4
<1>8. ASSUME NEW r \in Run, LogFails(r) PROVE TypeOK'
  <2>1. Current(r) \in Migration
        BY <1>8, CurrentIsAMigration DEF LogFails, Ordered
  <2>2. With(r, journal) \subseteq Migration
        BY <2>1 DEF With
  <2> QED BY <1>8, <2>2 DEF LogFails, Fault
<1>9. ASSUME NEW r \in Run, Done(r) PROVE TypeOK'
      BY <1>9 DEF Done
<1>10. ASSUME NEW r \in Run, Release(r) \/ ReleaseFails(r) PROVE TypeOK'
       BY <1>1, <1>10 DEF Release, ReleaseFails, End, Fault
<1>11. ASSUME NEW r \in Run, TakeUnanswered(r) \/ Kill(r) PROVE TypeOK'
       BY <1>1, <1>11 DEF TakeUnanswered, Kill, End, Fault
<1>12. CASE Unstick
       BY <1>12 DEF Unstick
<1>13. CASE UNCHANGED vars
       BY <1>13 DEF vars
<1> QED BY <1>2, <1>3, <1>4, <1>5, <1>6, <1>7, <1>8, <1>9, <1>10, <1>11, <1>12, <1>13 DEF Next, RunStep

-----------------------------------------------------------------------------
(***************************************************************************)
(* The lock.                                                               *)
(***************************************************************************)
LEMMA LockedInit == Init => Locked
BY DEF Init, Locked, LockComesBack, Working

LEMMA LockedStep == TypeOK /\ Locked /\ [Next]_vars => Locked'
<1> SUFFICES ASSUME TypeOK, Locked, [Next]_vars PROVE Locked'
    OBVIOUS
<1> USE RunAssumption DEF TypeOK, Locked, LockComesBack, Working, Go
<1>1. ASSUME NEW r \in Run, NEW req \in Request, Start(r, req) PROVE Locked'
      BY <1>1 DEF Start
<1>2. ASSUME NEW r \in Run, Take(r) PROVE Locked'
      BY <1>2 DEF Take
<1>3. ASSUME NEW r \in Run, Wait(r) PROVE Locked'
      BY <1>3 DEF Wait, End
<1>4. ASSUME NEW r \in Run, Read(r) \/ Work(r) \/ WorkFails(r) \/ Log(r) \/ LogFails(r) \/ Commit(r) \/ Done(r)
      PROVE  Locked'
  <2>1. /\ pc[r] \in Working
        /\ \E place \in Working : pc' = [pc EXCEPT ![r] = place]
        /\ UNCHANGED <<holder, lost>>
        BY <1>4 DEF Read, Work, WorkFails, Log, LogFails, Commit, Done
  <2> QED BY <2>1
<1>5. ASSUME NEW r \in Run, Release(r) \/ ReleaseFails(r) PROVE Locked'
      BY <1>5 DEF Release, ReleaseFails, End
<1>6. ASSUME NEW r \in Run, TakeUnanswered(r) PROVE Locked'
      BY <1>6 DEF TakeUnanswered, End
<1>7. ASSUME NEW r \in Run, Kill(r) PROVE Locked'
      BY <1>7 DEF Kill, End
<1>8. CASE Unstick
      BY <1>8 DEF Unstick
<1>9. CASE UNCHANGED vars
      BY <1>9 DEF vars
<1> QED BY <1>1, <1>2, <1>3, <1>4, <1>5, <1>6, <1>7, <1>8, <1>9 DEF Next, RunStep

-----------------------------------------------------------------------------
(***************************************************************************)
(* The order.                                                              *)
(***************************************************************************)
Migrating == {"work", "log", "commit"}

\* A step that leaves the journal, and what each run that goes on has left.
LEMMA OrderedFrame ==
    ASSUME Ordered, journal' = journal,
           \A q \in Run : pc'[q] \in Migrating =>
              /\ pc[q] \in Migrating
              /\ todo'[q] = todo[q]
              /\ request'[q] = request[q]
              /\ pc'[q] \in {"log", "commit"} => pc[q] \in {"log", "commit"} \/ todo[q] # {}
    PROVE  Ordered'
BY DEF Ordered, Follows, Up, Migrating

\* A step that records the current migration of the run that holds the lock, or removes its record.
LEMMA OrderedWith ==
    ASSUME TypeOK, Locked, Ordered, NEW r \in Run, pc[r] \in {"log", "commit"}, journal' = With(r, journal),
           request' = request, NEW place \in {"work", "release"}, pc' = [pc EXCEPT ![r] = place],
           place = "work" => Advance(r)
    PROVE  Ordered'
<1> USE MigrationAssumption
<1>1. PICK n \in 0..Latest, k \in 0..Latest : journal = 1..n /\ Follows(r, n, k)
      BY DEF Ordered
<1>2. todo[r] # {} /\ Current(r) = (IF Up(r) THEN n + 1 ELSE n) /\ Current(r) \in todo[r]
      BY <1>1, CurrentIsNext DEF Ordered
<1> DEFINE next == IF Up(r) THEN n + 1 ELSE n - 1
           left == IF Up(r) THEN (next + 1)..k ELSE (k + 1)..next
           Moved == next \in 0..Latest /\ journal' = 1..next /\ (place = "work" => todo'[r] = left)
<1>3. ASSUME Up(r) PROVE Moved
  <2>1. n + 1 \in 0..Latest /\ journal' = 1..(n + 1)
    <3>1. n + 1 \in (n + 1)..k
          BY <1>1, <1>2, <1>3 DEF Follows
    <3>2. journal' = 1..n \cup {n + 1}
          BY <1>1, <1>2, <1>3 DEF With
    <3> QED BY <3>1, <3>2
  <2>2. place = "work" => todo'[r] = (next + 1)..k
    <3>1. todo[r] = (n + 1)..k
          BY <1>1, <1>3 DEF Follows
    <3>2. place = "work" => todo'[r] = todo[r] \ {n + 1}
          BY <1>2, <1>3 DEF Advance, TypeOK
    <3>3. ((n + 1)..k) \ {n + 1} = ((n + 1) + 1)..k
          OBVIOUS
    <3>4. next = n + 1
          BY <1>3
    <3> HIDE DEF next
    <3> QED BY <3>1, <3>2, <3>3, <3>4
  <2> QED BY <1>3, <2>1, <2>2
<1>4. ASSUME ~ Up(r) PROVE Moved
  <2>1. n - 1 \in 0..Latest /\ journal' = 1..(n - 1)
    <3>1. n \in (k + 1)..n
          BY <1>1, <1>2, <1>4 DEF Follows
    <3>2. journal' = (1..n) \ {n}
          BY <1>1, <1>2, <1>4 DEF With
    <3> QED BY <3>1, <3>2
  <2>2. place = "work" => todo'[r] = (k + 1)..next
    <3>1. todo[r] = (k + 1)..n
          BY <1>1, <1>4 DEF Follows
    <3>2. place = "work" => todo'[r] = todo[r] \ {n}
          BY <1>2, <1>4 DEF Advance, TypeOK
    <3>3. ((k + 1)..n) \ {n} = (k + 1)..(n - 1)
          OBVIOUS
    <3>4. next = n - 1
          BY <1>4
    <3> HIDE DEF next
    <3> QED BY <3>1, <3>2, <3>3, <3>4
  <2> QED BY <1>4, <2>1, <2>2
<1>5. \A q \in Run \ {r} : pc'[q] \notin Migrating
      BY DEF Locked, Working, TypeOK, Migrating
<1> QED BY <1>3, <1>4, <1>5 DEF Ordered, Follows, Up, TypeOK, Migrating

LEMMA OrderedInit == Init => Ordered
BY MigrationAssumption DEF Init, Ordered

LEMMA OrderedStep == TypeOK /\ Locked /\ Ordered /\ [Next]_vars => Ordered'
<1> SUFFICES ASSUME TypeOK, Locked, Ordered, [Next]_vars PROVE Ordered'
    OBVIOUS
<1>1. ASSUME NEW r \in Run, NEW req \in Request, Start(r, req) PROVE Ordered'
      BY <1>1, OrderedFrame DEF Start, Go, TypeOK, Migrating
<1>2. ASSUME NEW r \in Run, Take(r) PROVE Ordered'
      BY <1>2, OrderedFrame DEF Take, Go, TypeOK, Migrating
<1>3. ASSUME NEW r \in Run, Wait(r) PROVE Ordered'
      BY <1>3, OrderedFrame DEF Wait, End, Go, TypeOK, Migrating
<1>4. ASSUME NEW r \in Run, Read(r) PROVE Ordered'
  <2>1. CASE todo' = [todo EXCEPT ![r] = Selected(request[r])] /\ Go(r, "work")
    <3>1. PICK n \in 0..Latest : journal = 1..n
          BY DEF Ordered
    <3>2. PICK k \in 0..Latest :
             Selected(request[r]) = IF request[r].direction = "up" THEN (n + 1)..k ELSE (k + 1)..n
          BY <3>1, SelectedIsNext DEF TypeOK
    <3>3. journal' = journal /\ request' = request
          BY <1>4 DEF Read
    <3>4. \A q \in Run \ {r} : pc'[q] \notin Migrating
          BY <1>4, <2>1 DEF Read, Go, Locked, Working, TypeOK, Migrating
    <3> QED BY <2>1, <3>1, <3>2, <3>3, <3>4 DEF Ordered, Follows, Up, TypeOK, Go, Migrating
  <2>2. CASE Go(r, "release")
        BY <1>4, <2>2, OrderedFrame DEF Read, Go, TypeOK, Migrating
  <2> QED BY <1>4, <2>1, <2>2 DEF Read
<1>5. ASSUME NEW r \in Run, Work(r) PROVE Ordered'
      BY <1>5, OrderedFrame DEF Work, Go, TypeOK, Migrating
<1>6. ASSUME NEW r \in Run, Log(r) PROVE Ordered'
  <2>1. CASE UNCHANGED <<journal, todo>>
        BY <1>6, <2>1, OrderedFrame DEF Log, Go, TypeOK, Migrating
  <2>2. CASE journal' = With(r, journal) /\ Advance(r) /\ Go(r, "work")
    <3>1. pc[r] = "log" /\ request' = request /\ pc' = [pc EXCEPT ![r] = "work"]
          BY <1>6, <2>2 DEF Log, Go
    <3> QED BY <2>2, <3>1, OrderedWith
  <2> QED BY <1>6, <2>1, <2>2 DEF Log
<1>7. ASSUME NEW r \in Run, Commit(r) PROVE Ordered'
  <2>1. CASE journal' = journal /\ Go(r, "release")
        BY <1>7, <2>1, OrderedFrame DEF Commit, Go, TypeOK, Migrating
  <2>2. CASE journal' = With(r, journal)
    <3>1. \/ Advance(r) /\ pc' = [pc EXCEPT ![r] = "work"]
          \/ pc' = [pc EXCEPT ![r] = "release"]
          BY <1>7 DEF Commit, Go
    <3> QED BY <1>7, <2>2, <3>1, OrderedWith DEF Commit
  <2> QED BY <1>7, <2>1, <2>2 DEF Commit
<1>8. ASSUME NEW r \in Run, WorkFails(r) \/ LogFails(r) \/ Done(r) PROVE Ordered'
  <2>1. CASE journal' = journal
        BY <1>8, <2>1, OrderedFrame DEF WorkFails, LogFails, Done, Go, TypeOK, Migrating
  <2>2. CASE LogFails(r) /\ journal' = With(r, journal)
    <3>1. pc[r] = "log" /\ request' = request /\ pc' = [pc EXCEPT ![r] = "release"]
          BY <2>2 DEF LogFails, Go
    <3> QED BY <2>2, <3>1, OrderedWith
  <2> QED BY <1>8, <2>1, <2>2 DEF WorkFails, LogFails, Done
<1>9. ASSUME NEW r \in Run, Release(r) \/ ReleaseFails(r) \/ TakeUnanswered(r) \/ Kill(r) PROVE Ordered'
      BY <1>9, OrderedFrame DEF Release, ReleaseFails, TakeUnanswered, Kill, End, Go, TypeOK, Migrating
<1>10. CASE Unstick
       BY <1>10, OrderedFrame DEF Unstick, Migrating
<1>11. CASE UNCHANGED vars
       BY <1>11, OrderedFrame DEF vars, Migrating
<1> QED BY <1>1, <1>2, <1>3, <1>4, <1>5, <1>6, <1>7, <1>8, <1>9, <1>10, <1>11 DEF Next, RunStep

-----------------------------------------------------------------------------
(***************************************************************************)
(* The journal and the schema.                                             *)
(***************************************************************************)

\* A step that leaves both, and the runs about to journal, or one a fault made.
LEMMA JournaledFrame ==
    ASSUME Journaled, journal' = journal, schema' = schema,
           \/ faults' # 0
           \/ /\ faults' = faults
              /\ \A q \in Run : pc[q] = "log" \/ pc'[q] = "log" =>
                    UNCHANGED <<pc[q], todo[q], request[q]>>
    PROVE  Journaled'
BY DEF Journaled, BareRan, Current, With, Up

LEMMA JournaledInit == Init => Journaled
BY DEF Init, Journaled, BareRan

\* Nobody else is about to journal while a run works.
LEMMA OneLogs ==
    ASSUME Locked, NEW r \in Run, pc[r] \in Working, NEW q \in Run \ {r}
    PROVE  pc[q] \notin Working
BY DEF Locked

LEMMA JournaledStep == TypeOK /\ Locked /\ Journaled /\ [Next]_vars => Journaled'
<1> SUFFICES ASSUME TypeOK, Locked, Journaled, [Next]_vars PROVE Journaled'
    OBVIOUS
<1>1. ASSUME NEW r \in Run, NEW req \in Request, Start(r, req) PROVE Journaled'
      BY <1>1, JournaledFrame DEF Start, Go, TypeOK
<1>2. ASSUME NEW r \in Run, Take(r) \/ Wait(r) PROVE Journaled'
      BY <1>2, JournaledFrame DEF Take, Wait, End, Go, TypeOK
<1>3. ASSUME NEW r \in Run, Read(r) PROVE Journaled'
      BY <1>3, JournaledFrame DEF Read, Fault, Go, TypeOK
<1>4. ASSUME NEW r \in Run, Work(r) PROVE Journaled'
  <2>1. \A q \in Run \ {r} : pc[q] # "log" /\ pc'[q] # "log"
        BY <1>4, OneLogs DEF Work, Go, Working, TypeOK
  <2>2. pc[r] # "log" /\ pc'[r] = "log" /\ UNCHANGED <<todo, request, journal, faults>>
        BY <1>4 DEF Work, Go, TypeOK
  <2>3. Current(r)' = Current(r) /\ With(r, journal)' = With(r, journal)
        BY <2>2 DEF Current, With, Up
  <2>4. faults = 0 => schema = journal
        BY <2>1, <2>2 DEF Journaled, BareRan
  <2>5. schema' = IF Current(r) \in Bare THEN With(r, schema) ELSE schema
        BY <1>4 DEF Work
  <2>6. \A m \in Migration \ Bare : m \in schema' <=> m \in schema
        BY <2>5 DEF With
  <2> QED BY <2>1, <2>2, <2>3, <2>4, <2>5, <2>6 DEF Journaled, BareRan, With
<1>5. ASSUME NEW r \in Run, Log(r) PROVE Journaled'
  <2>1. \A q \in Run \ {r} : pc[q] # "log" /\ pc'[q] # "log"
        BY <1>5, OneLogs DEF Log, Go, Working, TypeOK
  <2>2. pc[r] = "log" /\ pc'[r] # "log" /\ UNCHANGED <<schema, faults>>
        BY <1>5 DEF Log, Go, TypeOK
  <2>3. \A q \in Run : ~ BareRan(q)'
        BY <2>1, <2>2 DEF BareRan
  <2>4. \/ journal' = journal /\ (Current(r) \notin Bare \/ With(r, journal) = journal)
        \/ journal' = With(r, journal) /\ Current(r) \in Bare
        BY <1>5 DEF Log, With
  <2>5. faults = 0 => schema = IF Current(r) \in Bare THEN With(r, journal) ELSE journal
        BY <2>1, <2>2 DEF Journaled, BareRan
  <2>6. \A m \in Migration \ Bare : m \in journal' <=> m \in journal
        BY <2>4 DEF With
  <2> QED BY <2>2, <2>3, <2>4, <2>5, <2>6 DEF Journaled
<1>6. ASSUME NEW r \in Run, Commit(r) PROVE Journaled'
  <2>1. \A q \in Run : pc[q] # "log" /\ pc'[q] # "log"
        BY <1>6, OneLogs DEF Commit, Go, Working, TypeOK
  <2>2. \/ schema' = With(r, schema) /\ journal' = With(r, journal) /\ faults' \in {faults, faults + 1}
        \/ UNCHANGED <<schema, journal>> /\ faults' = faults + 1
        BY <1>6 DEF Commit, Fault
  <2>3. faults = 0 => schema = journal
        BY <2>1 DEF Journaled, BareRan
  <2>4. \A q \in Run : ~ BareRan(q)'
        BY <2>1 DEF BareRan
  <2>5. ASSUME faults' = 0 PROVE schema' = journal'
    <3>1. faults = 0 /\ schema' = With(r, schema) /\ journal' = With(r, journal)
          BY <2>2, <2>5 DEF TypeOK
    <3>2. schema = journal
          BY <2>3, <3>1
    <3> QED BY <3>1, <3>2 DEF With
  <2>6. \A m \in Migration \ Bare : m \in journal' <=> m \in schema'
        BY <2>2 DEF Journaled, With
  <2> QED BY <2>4, <2>5, <2>6 DEF Journaled
<1>7. ASSUME NEW r \in Run, WorkFails(r) PROVE Journaled'
  <2>1. faults' # 0 /\ journal' = journal
        BY <1>7 DEF WorkFails, Fault, TypeOK
  <2>2. \A m \in Migration \ Bare : m \in schema' <=> m \in schema
        BY <1>7 DEF WorkFails, With
  <2> QED BY <2>1, <2>2 DEF Journaled
<1>8. ASSUME NEW r \in Run, LogFails(r) \/ Done(r) PROVE Journaled'
  <2>1. CASE Done(r)
        BY <2>1, JournaledFrame DEF Done, Go, TypeOK
  <2>2. CASE LogFails(r)
    <3>1. faults' # 0 /\ schema' = schema
          BY <2>2 DEF LogFails, Fault, TypeOK
    <3>2. \A m \in Migration \ Bare : m \in journal' <=> m \in journal
          BY <2>2 DEF LogFails, With
    <3> QED BY <3>1, <3>2 DEF Journaled
  <2> QED BY <1>8, <2>1, <2>2
<1>9. ASSUME NEW r \in Run, Release(r) \/ ReleaseFails(r) PROVE Journaled'
      BY <1>9, JournaledFrame DEF Release, ReleaseFails, Fault, End, Go, TypeOK
<1>10. ASSUME NEW r \in Run, TakeUnanswered(r) \/ Kill(r) PROVE Journaled'
       BY <1>10, JournaledFrame DEF TakeUnanswered, Kill, Fault, TypeOK
<1>11. CASE Unstick
       BY <1>11, JournaledFrame DEF Unstick
<1>12. CASE UNCHANGED vars
       BY <1>12, JournaledFrame DEF vars
<1> QED BY <1>1, <1>2, <1>3, <1>4, <1>5, <1>6, <1>7, <1>8, <1>9, <1>10, <1>11, <1>12 DEF Next, RunStep

-----------------------------------------------------------------------------
Inv == TypeOK /\ Locked /\ Ordered /\ Journaled

LEMMA Invariance == Spec => []Inv
<1>1. Init => Inv
      BY TypeInit, LockedInit, OrderedInit, JournaledInit DEF Inv
<1>2. Inv /\ [Next]_vars => Inv'
      BY TypeStep, LockedStep, OrderedStep, JournaledStep DEF Inv
<1> QED BY <1>1, <1>2, PTL DEF Spec

\* The variables keep their types: what a run has left to migrate are migrations, whatever it selected.
THEOREM TypeCorrect == Spec => []TypeOK
<1>1. Inv => TypeOK
      BY DEF Inv
<1> QED BY Invariance, <1>1, PTL

\* The lock does what it is for: no two runs are between its taking and its release at once.
THEOREM RunsDoNotOverlap == Spec => []OneRunAtATime
<1>1. Inv => OneRunAtATime
  <2> SUFFICES ASSUME Locked PROVE OneRunAtATime
      BY DEF Inv
  <2>1. {r \in Run : pc[r] \in Working} \in SUBSET {holder}
        BY DEF Locked
  <2>2. IsFiniteSet({holder}) /\ Cardinality({holder}) = 1
        BY FS_Singleton
  <2> QED BY <2>1, <2>2, FS_Subset, FS_CardinalityType DEF OneRunAtATime
<1> QED BY Invariance, <1>1, PTL

\* The lock is free once the run that took it is over, unless that run was killed or an answer was lost.
THEOREM LockIsReleased == Spec => []LockComesBack
<1>1. Inv => LockComesBack
      BY DEF Inv, Locked
<1> QED BY Invariance, <1>1, PTL

\* What the journal records of a migration in a transaction is what the database holds of it, whatever fails.
THEOREM JournalTellsSchema == Spec => []JournalIsSchema
<1>1. Inv => JournalIsSchema
      BY DEF Inv, Journaled, JournalIsSchema, BareRan, Working
<1> QED BY Invariance, <1>1, PTL

\* No run leaves a hole in the journal, whichever way the runs before it went and wherever they stopped.
THEOREM JournalHasNoHole == Spec => []JournalIsPrefix
<1>1. Inv => JournalIsPrefix
  <2> SUFFICES ASSUME NEW n \in 0..Latest, journal = 1..n PROVE Cardinality(journal) = n
      BY DEF Inv, Ordered, JournalIsPrefix
  <2>1. Cardinality(1..n) = IF 1 > n THEN 0 ELSE n - 1 + 1
        BY FS_Interval, MigrationAssumption
  <2> QED BY <2>1, MigrationAssumption
<1> QED BY Invariance, <1>1, PTL

\* A migration runs up only when it is not recorded and down only when it is: a run that waited saw the journal
\* of the run before it.
THEOREM NoneRunsTwice == Spec => NeverRunAgain
<1>1. ASSUME Inv, NEW r \in Run, Work(r) PROVE Up(r) <=> Current(r) \notin journal
  <2>1. PICK n \in 0..Latest, k \in 0..Latest : journal = 1..n /\ Follows(r, n, k)
        BY <1>1 DEF Inv, Ordered, Work
  <2>2. Current(r) = (IF Up(r) THEN n + 1 ELSE n) /\ Current(r) \in todo[r]
        BY <1>1, <2>1, CurrentIsNext, MigrationAssumption DEF Work
  <2> QED BY <2>1, <2>2, MigrationAssumption DEF Follows
<1>2. Inv /\ [Next]_vars => [\A r \in Run : Work(r) => (Up(r) <=> Current(r) \notin journal)]_vars
      BY <1>1
<1> QED BY Invariance, <1>2, PTL DEF Spec, NeverRunAgain
=============================================================================
