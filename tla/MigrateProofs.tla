----------------------------- MODULE MigrateProofs ----------------------------
(***************************************************************************)
(* Migrations are recorded truthfully, completely and in order, for any    *)
(* binaries, any number of migrators and any mishaps.                      *)
(***************************************************************************)
EXTENDS Migrate, TLAPS

AtFile == {"apply", "record"}

(* What a migrator knows of the database at each statement. *)
LoopInv ==
    \A m \in Migrators :
        /\ applied[m] \subseteq recorded
        /\ pc[m] \in AtFile =>
            /\ name[m] \in Files[m]
            /\ \A v \in Files[m] : v < name[m] => v \in recorded
        /\ pc[m] = "record" => times[name[m]] > 0
        /\ pc[m] = "done" => Files[m] \subseteq recorded

Undisturbed == mishaps = 0 /\ ~overlap

(* While nothing disturbs it, a migrator is alone, *)
OneRunning ==
    Undisturbed => \A m, o \in Migrators : ~Stopped(m) /\ ~Stopped(o) => m = o

(* has seen every row that is behind its file, *)
SeesRows ==
    Undisturbed => \A m \in Migrators : pc[m] \in AtFile =>
        \A v \in recorded : v \in applied[m] \/ v < name[m]

(* works on a file that is not recorded yet, *)
WorksOnNew ==
    Undisturbed => \A m \in Migrators : pc[m] \in AtFile => name[m] \notin recorded

(* and what is applied is recorded or about to be. *)
Accounted ==
    Undisturbed => \A v \in Versions : times[v] > 0 =>
        v \in recorded \/ \E m \in Migrators : pc[m] = "record" /\ name[m] = v

AloneInv == OneRunning /\ SeesRows /\ WorksOnNew /\ Accounted

MInv ==
    TypeOK /\ RecordedIsApplied /\ LoopInv /\ AloneInv /\ SkippedUnlessDisturbed

-------------------------------------------------------------------------------
(* File names are positive numbers. *)
LEMMA NamesAreNumbers ==
    /\ \A v \in Versions : v \in Nat /\ v > 0
    /\ \A m \in Migrators : \A v \in Files[m] : v \in Versions
  BY MigrateAssumption

(* Having gone on behind the file from: the next file is the first that is  *)
(* pending, and everything before it is in rec.                             *)
WentOn(m, rows, from, rec) ==
    /\ applied' = [applied EXCEPT ![m] = rows]
    /\ \/ /\ pc' = [pc EXCEPT ![m] = "done"] /\ name' = name
          /\ Files[m] \subseteq rec
       \/ \E v \in Files[m] \ rows :
            /\ v > from
            /\ name' = [name EXCEPT ![m] = v]
            /\ pc' = [pc EXCEPT ![m] = "apply"]
            /\ \A w \in Files[m] : w < v => w \in rec

(* The loop goes on that way when the rows it skips, and the files it has   *)
(* passed, are in rec.                                                      *)
LEMMA GoOnFacts ==
    ASSUME NEW m \in Migrators, NEW rows \in SUBSET Versions, NEW from \in Nat,
           NEW rec \in SUBSET Versions, rows \subseteq rec,
           \A v \in Files[m] : v <= from => v \in rec,
           GoOn(m, rows, from)
    PROVE  WentOn(m, rows, from, rec)
  <1> DEFINE pending == {v \in Files[m] \ rows : v > from}
  <1>1. \A w \in Files[m] : w \in Nat
    BY NamesAreNumbers
  <1>2. \A w \in Files[m] : w \notin pending => w \in rec
    <2> TAKE w \in Files[m]
    <2>1. CASE w \in rows
      BY <2>1
    <2>2. CASE w \notin rows
      <3>1. w \in Nat
        BY <1>1
      <3>2. w > from \/ w <= from
        BY <3>1
      <3> QED
        BY <2>2, <3>2
    <2> QED
      BY <2>1, <2>2
  <1>3. CASE pending = {} /\ Goto(m, "done") /\ UNCHANGED name
    BY <1>2, <1>3 DEF GoOn, Goto, WentOn
  <1>4. ASSUME NEW v \in pending,
               \A w \in pending : v <= w,
               name' = [name EXCEPT ![m] = v],
               Goto(m, "apply")
        PROVE  \E u \in Files[m] \ rows :
                    /\ u > from
                    /\ name' = [name EXCEPT ![m] = u]
                    /\ pc' = [pc EXCEPT ![m] = "apply"]
                    /\ \A w \in Files[m] : w < u => w \in rec
    <2>1. \A w \in Files[m] : w < v => w \in rec
      <3> SUFFICES ASSUME NEW w \in Files[m], w < v, w \notin rec PROVE FALSE
        OBVIOUS
      <3>1. w \in pending
        BY <1>2
      <3>2. v <= w
        BY <1>4, <3>1
      <3>3. v \in Nat /\ w \in Nat
        BY <1>1
      <3> QED
        BY <3>2, <3>3
    <2>2. v \in Files[m] \ rows /\ v > from
      OBVIOUS
    <2> HIDE DEF pending
    <2> QED
      BY <1>4, <2>1, <2>2 DEF Goto
  <1> QED
    BY <1>3, <1>4 DEF GoOn, WentOn

(* What one migrator's step leaves alone. *)
OthersStay(m) ==
    /\ \A o \in Migrators \ {m} : /\ pc'[o] = pc[o] /\ applied'[o] = applied[o]
                                  /\ name'[o] = name[o]
    /\ recorded \subseteq recorded'
    /\ \A v \in Versions : times'[v] >= times[v]

(* LoopInv and the other invariants, of one migrator after its own step. *)
Knows(m) ==
    /\ applied'[m] \subseteq recorded'
    /\ pc'[m] \in AtFile =>
        /\ name'[m] \in Files[m]
        /\ \A v \in Files[m] : v < name'[m] => v \in recorded'
    /\ pc'[m] = "record" => times'[name'[m]] > 0
    /\ pc'[m] = "done" => Files[m] \subseteq recorded'

KnowsAlone(m) ==
    /\ pc'[m] \in AtFile =>
        /\ name'[m] \notin recorded'
        /\ \A v \in recorded' : v \in applied'[m] \/ v < name'[m]
    /\ \A v \in Versions : times'[v] > 0 =>
            v \in recorded' \/ (pc'[m] = "record" /\ name'[m] = v)

(* A step of one migrator leaves the others what they know. *)
LEMMA OthersKnow ==
    ASSUME MInv, TypeOK', NEW m \in Migrators, OthersStay(m), Knows(m)
    PROVE  LoopInv'
  <1> SUFFICES ASSUME NEW o \in Migrators, o # m
               PROVE  /\ applied'[o] \subseteq recorded'
                      /\ pc'[o] \in AtFile =>
                          /\ name'[o] \in Files[o]
                          /\ \A v \in Files[o] : v < name'[o] => v \in recorded'
                      /\ pc'[o] = "record" => times'[name'[o]] > 0
                      /\ pc'[o] = "done" => Files[o] \subseteq recorded'
    BY DEF LoopInv, Knows
  <1>1. pc'[o] = pc[o] /\ applied'[o] = applied[o] /\ name'[o] = name[o]
    BY DEF OthersStay
  <1>2. pc[o] = "record" => times'[name[o]] > 0
    <2> SUFFICES ASSUME pc[o] = "record" PROVE times'[name[o]] > 0
      OBVIOUS
    <2>1. name[o] \in Versions /\ times[name[o]] > 0
      BY NamesAreNumbers DEF MInv, LoopInv, AtFile
    <2>2. times'[name[o]] >= times[name[o]] /\ times'[name[o]] \in Int /\ times[name[o]] \in Int
      BY <2>1 DEF OthersStay, MInv, TypeOK
    <2> QED
      BY <2>1, <2>2
  <1> QED
    BY <1>1, <1>2 DEF MInv, LoopInv, OthersStay

(* A statement that fails, or a crash: from then on the run is disturbed. *)
LEMMA MishapKeepsInv ==
    ASSUME MInv, NEW m \in Migrators, Mishap, TypeOK', RecordedIsApplied', OthersStay(m),
           pc'[m] \in {"idle", "failed"}, applied'[m] = applied[m]
    PROVE  MInv'
  <1>1. mishaps' # 0
    BY DEF Mishap, MInv, TypeOK
  <1>2. AloneInv' /\ SkippedUnlessDisturbed'
    BY <1>1 DEF AloneInv, OneRunning, SeesRows, WorksOnNew, Accounted, Undisturbed,
                SkippedUnlessDisturbed
  <1>3. Knows(m)
    BY DEF Knows, MInv, LoopInv, OthersStay, AtFile
  <1> QED
    BY <1>2, <1>3, OthersKnow DEF MInv

(* A statement that works: undisturbed, the others stand still meanwhile.   *)
LEMMA WorkKeepsInv ==
    ASSUME MInv, NEW m \in Migrators, ~Stopped(m), UNCHANGED <<overlap, mishaps>>,
           TypeOK', RecordedIsApplied', SkippedUnlessDisturbed', OthersStay(m), Knows(m),
           Undisturbed => KnowsAlone(m)
    PROVE  MInv'
  <1>1. LoopInv'
    BY OthersKnow
  <1>2. AloneInv'
    <2> SUFFICES ASSUME Undisturbed PROVE AloneInv'
      BY DEF AloneInv, OneRunning, SeesRows, WorksOnNew, Accounted, Undisturbed
    <2>1. \A o \in Migrators \ {m} : Stopped(o) /\ pc'[o] = pc[o]
      BY DEF MInv, AloneInv, OneRunning, OthersStay
    <2>2. KnowsAlone(m)
      OBVIOUS
    <2>3. OneRunning'
      BY <2>1 DEF OneRunning, Stopped
    <2>4. SeesRows' /\ WorksOnNew'
      BY <2>1, <2>2 DEF SeesRows, WorksOnNew, KnowsAlone, Stopped, AtFile
    <2>5. Accounted'
      BY <2>2 DEF Accounted, KnowsAlone
    <2> QED
      BY <2>3, <2>4, <2>5 DEF AloneInv
  <1> QED
    BY <1>1, <1>2 DEF MInv

(* Starting keeps the invariant: undisturbed, nobody else is at work. *)
LEMMA StartKeepsInv ==
    ASSUME MInv, NEW m \in Migrators, Start(m)
    PROVE  MInv'
  <1>1. TypeOK' /\ RecordedIsApplied' /\ OthersStay(m)
    BY DEF Start, MInv, TypeOK, RecordedIsApplied, OthersStay, Goto, database
  <1>2. pc'[m] = "create" /\ applied'[m] = {} /\ UNCHANGED <<recorded, times>>
    BY DEF Start, MInv, TypeOK, Goto, database
  <1>3. LoopInv'
    BY <1>1, <1>2, OthersKnow DEF Knows, AtFile
  <1>4. SkippedUnlessDisturbed'
    BY DEF Start, MInv, SkippedUnlessDisturbed, database
  <1>5. AloneInv'
    <2> SUFFICES ASSUME Undisturbed' PROVE AloneInv'
      BY DEF AloneInv, OneRunning, SeesRows, WorksOnNew, Accounted
    <2>1. Undisturbed /\ \A o \in Migrators \ {m} : Stopped(o)
      BY DEF Undisturbed, Start, MInv, TypeOK
    <2>2. \A o \in Migrators : o # m => pc'[o] = pc[o] /\ Stopped(o)
      BY <1>1, <2>1 DEF OthersStay
    <2>3. OneRunning' /\ SeesRows' /\ WorksOnNew'
      BY <1>2, <2>2 DEF OneRunning, SeesRows, WorksOnNew, Stopped, AtFile
    <2>4. \A o \in Migrators : pc[o] # "record"
      BY <2>1 DEF Start, Stopped
    <2>5. Accounted'
      BY <1>2, <2>1, <2>4 DEF Accounted, MInv, AloneInv
    <2> QED
      BY <2>3, <2>5 DEF AloneInv
  <1> QED
    BY <1>1, <1>3, <1>4, <1>5 DEF MInv

(* A crash keeps it. *)
LEMMA CrashKeepsInv ==
    ASSUME MInv, NEW m \in Migrators, Crash(m)
    PROVE  MInv'
  <1>1. TypeOK' /\ RecordedIsApplied' /\ OthersStay(m)
    BY DEF Crash, Mishap, MInv, TypeOK, RecordedIsApplied, OthersStay, Goto, database, local
  <1>2. Mishap /\ pc'[m] \in {"idle", "failed"} /\ applied'[m] = applied[m]
    BY DEF Crash, MInv, TypeOK, Goto, local
  <1> QED
    BY <1>1, <1>2, MishapKeepsInv

(* Creating the table keeps it. *)
LEMMA CreateKeepsInv ==
    ASSUME MInv, NEW m \in Migrators, Create(m)
    PROVE  MInv'
  <1>1. TypeOK' /\ RecordedIsApplied' /\ OthersStay(m) /\ UNCHANGED <<recorded, times, overlap>>
    <2>1. UNCHANGED <<recorded, times, overlap, applied, name>>
      BY DEF Create, Breaks, local
    <2>2. \E at \in {"load", "failed"} : pc' = [pc EXCEPT ![m] = at]
      BY DEF Create, Breaks, Goto
    <2>3. created' \in BOOLEAN
      BY DEF Create, MInv, TypeOK
    <2>4. mishaps' = mishaps \/ mishaps' = mishaps + 1
      BY Zenon DEF Create, Works, Breaks, Mishap
    <2>5. mishaps' \in Nat
      BY <2>4 DEF MInv, TypeOK
    <2>6. TypeOK'
      BY <2>1, <2>2, <2>3, <2>5 DEF MInv, TypeOK
    <2>7. RecordedIsApplied' /\ OthersStay(m)
      BY <2>1, <2>2 DEF MInv, TypeOK, RecordedIsApplied, OthersStay
    <2> QED
      BY <2>1, <2>6, <2>7
  <1>2. CASE Breaks(m)
    BY <1>1, <1>2, MishapKeepsInv DEF Breaks, Goto, local, MInv, TypeOK
  <1>3. CASE Works /\ Goto(m, "load") /\ UNCHANGED local
    <2>1. pc[m] = "create" /\ pc'[m] = "load" /\ UNCHANGED <<applied, name, mishaps>>
      BY <1>3 DEF Create, Works, Goto, local, MInv, TypeOK
    <2>2. ~Stopped(m) /\ Knows(m)
      BY <1>1, <2>1 DEF Stopped, Knows, MInv, LoopInv, AtFile
    <2>3. SkippedUnlessDisturbed'
      BY <1>1, <2>1 DEF MInv, SkippedUnlessDisturbed
    <2>4. Undisturbed => KnowsAlone(m)
      <3> SUFFICES ASSUME Undisturbed PROVE KnowsAlone(m)
        OBVIOUS
      <3>1. \A o \in Migrators : pc[o] # "record"
        BY <2>1, <2>2 DEF MInv, AloneInv, OneRunning, Stopped
      <3> QED
        BY <1>1, <2>1, <3>1 DEF KnowsAlone, AtFile, MInv, AloneInv, Accounted
    <2> QED
      BY <1>1, <2>1, <2>2, <2>3, <2>4, WorkKeepsInv
  <1> QED
    BY <1>2, <1>3 DEF Create

(* Loading the rows keeps it. *)
LEMMA LoadKeepsInv ==
    ASSUME MInv, NEW m \in Migrators, Load(m)
    PROVE  MInv'
  <1>0. pc[m] = "load" /\ UNCHANGED <<created, recorded, times, overlap>>
    BY DEF Load, database
  <1>1. CASE Breaks(m)
    <2>1. TypeOK' /\ RecordedIsApplied' /\ OthersStay(m)
      BY <1>0, <1>1 DEF Breaks, Mishap, MInv, TypeOK, RecordedIsApplied, OthersStay, Goto, local
    <2> QED
      BY <1>1, <2>1, MishapKeepsInv DEF Breaks, Goto, local, MInv, TypeOK
  <1>2. CASE Works /\ GoOn(m, recorded, 0)
    <2>1. /\ recorded \in SUBSET Versions /\ recorded \subseteq recorded /\ 0 \in Nat
          /\ \A v \in Files[m] : v <= 0 => v \in recorded
      BY NamesAreNumbers DEF MInv, TypeOK
    <2>2. WentOn(m, recorded, 0, recorded)
      BY <1>2, <2>1, GoOnFacts, Zenon
    <2>3. TypeOK' /\ RecordedIsApplied' /\ OthersStay(m)
      <3>1. \E at \in {"done", "apply"} : pc' = [pc EXCEPT ![m] = at]
        BY <2>2 DEF WentOn
      <3>2. name' = name \/ \E v \in Versions : name' = [name EXCEPT ![m] = v]
        BY <2>2, NamesAreNumbers DEF WentOn
      <3>3. TypeOK'
        BY <1>0, <1>2, <2>2, <3>1, <3>2 DEF Works, MInv, TypeOK, WentOn
      <3>4. RecordedIsApplied' /\ OthersStay(m)
        BY <1>0, <2>2, <3>1, <3>2 DEF MInv, TypeOK, RecordedIsApplied, OthersStay, WentOn
      <3> QED
        BY <3>3, <3>4
    <2>4. /\ ~Stopped(m) /\ UNCHANGED <<overlap, mishaps>>
          /\ SkippedUnlessDisturbed'
      BY <1>0, <1>2 DEF Stopped, Works, MInv, SkippedUnlessDisturbed
    <2>5. applied'[m] = recorded
      BY <2>2 DEF MInv, TypeOK, WentOn
    <2>6. \/ pc'[m] = "done" /\ Files[m] \subseteq recorded
          \/ /\ pc'[m] = "apply" /\ name'[m] \in Files[m] \ recorded
             /\ \A w \in Files[m] : w < name'[m] => w \in recorded
      BY <2>2 DEF MInv, TypeOK, WentOn
    <2>7. Knows(m)
      BY <1>0, <2>5, <2>6 DEF Knows, AtFile
    <2>8. Undisturbed => KnowsAlone(m)
      <3> SUFFICES ASSUME Undisturbed PROVE KnowsAlone(m)
        OBVIOUS
      <3>1. \A o \in Migrators : pc[o] # "record"
        BY <1>0 DEF MInv, AloneInv, OneRunning, Stopped
      <3>2. \A v \in Versions : times'[v] > 0 => v \in recorded'
        BY <1>0, <3>1 DEF MInv, AloneInv, Accounted
      <3> QED
        BY <1>0, <2>5, <2>6, <3>2 DEF KnowsAlone, AtFile
    <2> QED
      BY <2>3, <2>4, <2>7, <2>8, WorkKeepsInv
  <1> QED
    BY <1>1, <1>2 DEF Load

(* Applying a file keeps it: undisturbed, the file was never applied. *)
LEMMA ApplyKeepsInv ==
    ASSUME MInv, NEW m \in Migrators, Apply(m)
    PROVE  MInv'
  <1>1. /\ pc[m] = "apply" /\ name[m] \in Versions
        /\ UNCHANGED <<created, recorded, overlap, applied, name>>
    BY NamesAreNumbers DEF Apply, Breaks, local, MInv, LoopInv, AtFile
  <1>2. \/ UNCHANGED times
        \/ times' = [times EXCEPT ![name[m]] = IF times[name[m]] < 2 THEN times[name[m]] + 1
                                               ELSE times[name[m]]]
    BY DEF Apply
  <1>3. times \in [Versions -> 0 .. 2]
    BY DEF MInv, TypeOK
  <1>4. /\ times' \in [Versions -> 0 .. 2]
        /\ \A v \in Versions : times'[v] >= times[v] /\ (v # name[m] => times'[v] = times[v])
    BY <1>1, <1>2, <1>3
  <1>5. TypeOK' /\ RecordedIsApplied' /\ OthersStay(m)
    <2>1. TypeOK'
      BY <1>1, <1>4 DEF Apply, Works, Breaks, Mishap, Goto, MInv, TypeOK
    <2>2. RecordedIsApplied'
      <3> SUFFICES ASSUME NEW v \in recorded PROVE times'[v] > 0
        BY <1>1 DEF RecordedIsApplied
      <3>1. v \in Versions /\ times[v] > 0
        BY DEF MInv, TypeOK, RecordedIsApplied
      <3>2. times[v] \in Int /\ times'[v] \in Int
        BY <1>3, <1>4, <3>1
      <3> QED
        BY <1>4, <3>1, <3>2
    <2>3. OthersStay(m)
      BY <1>1, <1>4 DEF OthersStay, Apply, Breaks, Goto, MInv, TypeOK
    <2> QED
      BY <2>1, <2>2, <2>3
  <1>6. CASE Breaks(m)
    BY <1>5, <1>6, MishapKeepsInv DEF Breaks, Goto, local, MInv, TypeOK
  <1>7. CASE /\ Works /\ Goto(m, "record")
             /\ times' = [times EXCEPT ![name[m]] = IF times[name[m]] < 2
                                                    THEN times[name[m]] + 1
                                                    ELSE times[name[m]]]
    <2>1. pc'[m] = "record" /\ ~Stopped(m) /\ UNCHANGED <<overlap, mishaps>>
      BY <1>1, <1>7 DEF Works, Goto, Stopped, MInv, TypeOK
    <2>2. times'[name[m]] > 0 /\ (times[name[m]] = 0 => times'[name[m]] = 1)
      BY <1>1, <1>3, <1>7
    <2>3. Knows(m)
      BY <1>1, <2>1, <2>2 DEF Knows, MInv, LoopInv, AtFile
    <2>4. ASSUME Undisturbed
          PROVE  /\ times[name[m]] = 0
                 /\ \A v \in Versions : times[v] > 0 => v \in recorded
      <3>1. \A o \in Migrators : pc[o] # "record"
        BY <1>1, <2>4 DEF MInv, AloneInv, OneRunning, Stopped
      <3>2. \A v \in Versions : times[v] > 0 => v \in recorded
        BY <2>4, <3>1 DEF MInv, AloneInv, Accounted
      <3>3. name[m] \notin recorded
        BY <1>1, <2>4 DEF MInv, AloneInv, WorksOnNew, AtFile
      <3>4. times[name[m]] \in 0 .. 2
        BY <1>1, <1>3
      <3> QED
        BY <1>1, <3>2, <3>3, <3>4
    <2>5. SkippedUnlessDisturbed'
      <3> SUFFICES ASSUME Undisturbed, NEW v \in Versions PROVE times'[v] < 2
        BY <2>1 DEF SkippedUnlessDisturbed, Undisturbed
      <3>1. times[v] < 2
        BY DEF MInv, SkippedUnlessDisturbed, Undisturbed
      <3>2. CASE v = name[m]
        BY <2>2, <2>4, <3>2
      <3>3. CASE v # name[m]
        BY <1>4, <3>1, <3>3
      <3> QED
        BY <3>2, <3>3
    <2>6. Undisturbed => KnowsAlone(m)
      <3> SUFFICES ASSUME Undisturbed PROVE KnowsAlone(m)
        OBVIOUS
      <3>1. /\ name[m] \notin recorded
            /\ \A v \in recorded : v \in applied[m] \/ v < name[m]
        BY <1>1 DEF MInv, AloneInv, WorksOnNew, SeesRows, AtFile
      <3>2. \A v \in Versions : times'[v] > 0 => v \in recorded \/ v = name[m]
        BY <1>4, <2>4
      <3> QED
        BY <1>1, <2>1, <3>1, <3>2 DEF KnowsAlone
    <2> QED
      BY <1>5, <2>1, <2>3, <2>5, <2>6, WorkKeepsInv
  <1> QED
    BY <1>6, <1>7 DEF Apply

(* Recording a file keeps it: undisturbed, nobody else has recorded it. *)
LEMMA RecordKeepsInv ==
    ASSUME MInv, NEW m \in Migrators, Record(m)
    PROVE  MInv'
  <1> DEFINE rec == recorded \cup {name[m]}
  <1>1. /\ pc[m] = "record" /\ name[m] \in Files[m] /\ times[name[m]] > 0
        /\ UNCHANGED <<created, times, overlap>>
    BY DEF Record, MInv, LoopInv, AtFile
  <1>2. name[m] \in Versions /\ name[m] \in Nat /\ rec \in SUBSET Versions
    BY <1>1, NamesAreNumbers DEF MInv, TypeOK
  <1>3. ~Stopped(m)
    BY <1>1 DEF Stopped
  <1>4. recorded' = recorded \/ recorded' = rec
    BY DEF Record
  <1>5. recorded' \subseteq Versions /\ recorded \subseteq recorded' /\ RecordedIsApplied'
    BY <1>1, <1>2, <1>4 DEF MInv, TypeOK, RecordedIsApplied
  <1>6. CASE Breaks(m)
    <2>1. TypeOK' /\ OthersStay(m)
      BY <1>1, <1>5, <1>6 DEF Breaks, Mishap, Goto, local, MInv, TypeOK, OthersStay
    <2> QED
      BY <1>5, <1>6, <2>1, MishapKeepsInv DEF Breaks, Goto, local, MInv, TypeOK
  <1>7. CASE name[m] \in recorded /\ Works /\ Goto(m, "failed") /\ UNCHANGED <<recorded, local>>
    <2>1. TypeOK' /\ OthersStay(m)
      BY <1>1, <1>7 DEF Works, Goto, local, MInv, TypeOK, OthersStay
    <2>2. pc'[m] = "failed" /\ UNCHANGED <<applied, overlap, mishaps>>
      BY <1>1, <1>7 DEF Works, Goto, local, MInv, TypeOK
    <2>3. Knows(m)
      BY <1>7, <2>2 DEF Knows, AtFile, MInv, LoopInv
    <2>4. SkippedUnlessDisturbed'
      BY <1>1, <2>2 DEF MInv, SkippedUnlessDisturbed
    <2>5. ~Undisturbed
      BY <1>1, <1>7 DEF MInv, AloneInv, WorksOnNew, AtFile
    <2> QED
      BY <1>3, <1>5, <2>1, <2>2, <2>3, <2>4, <2>5, WorkKeepsInv
  <1>8. CASE /\ name[m] \notin recorded /\ Works
             /\ recorded' = rec
             /\ GoOn(m, applied[m], name[m])
    <2>0. /\ applied[m] \in SUBSET Versions /\ applied[m] \subseteq rec
          /\ \A v \in Files[m] : v <= name[m] => v \in rec
      <3>1. \A v \in Files[m] : v \in Nat /\ (v < name[m] => v \in recorded)
        BY <1>1, NamesAreNumbers DEF MInv, LoopInv, AtFile
      <3> QED
        BY <1>2, <3>1 DEF MInv, TypeOK, LoopInv
    <2>1. WentOn(m, applied[m], name[m], rec)
      <3> HIDE DEF rec
      <3> QED
        BY <1>2, <1>8, <2>0, GoOnFacts, Zenon
    <2>2. applied' = applied /\ UNCHANGED <<overlap, mishaps>>
      BY <1>1, <1>8, <2>1 DEF Works, MInv, TypeOK, WentOn
    <2>3. /\ \E at \in {"done", "apply"} : pc' = [pc EXCEPT ![m] = at]
          /\ name' = name \/ \E v \in Versions : name' = [name EXCEPT ![m] = v]
      BY <2>1, NamesAreNumbers DEF WentOn
    <2>4. TypeOK'
      BY <1>1, <1>5, <2>2, <2>3 DEF MInv, TypeOK
    <2>5. OthersStay(m)
      BY <1>1, <1>5, <2>2, <2>3 DEF MInv, TypeOK, OthersStay
    <2>6. SkippedUnlessDisturbed'
      BY <1>1, <2>2 DEF MInv, SkippedUnlessDisturbed
    <2>7. \/ pc'[m] = "done" /\ Files[m] \subseteq rec
          \/ /\ pc'[m] = "apply" /\ name'[m] \in Files[m] \ applied[m] /\ name'[m] > name[m]
             /\ \A w \in Files[m] : w < name'[m] => w \in rec
      BY <2>1 DEF MInv, TypeOK, WentOn
    <2>8. Knows(m)
      BY <1>8, <2>0, <2>2, <2>7 DEF Knows, AtFile
    <2>9. Undisturbed => KnowsAlone(m)
      <3> SUFFICES ASSUME Undisturbed PROVE KnowsAlone(m)
        OBVIOUS
      <3>1. \A v \in recorded : v \in applied[m] \/ v < name[m]
        BY <1>1 DEF MInv, AloneInv, SeesRows, AtFile
      <3>2. \A v \in rec : v \in Nat /\ (v \in applied[m] \/ v <= name[m])
        <4> SUFFICES ASSUME NEW v \in rec
                     PROVE  v \in Nat /\ (v \in applied[m] \/ v <= name[m])
          OBVIOUS
        <4>1. v \in Nat
          BY <1>2, NamesAreNumbers
        <4>2. v \in recorded \/ v = name[m]
          OBVIOUS
        <4> QED
          BY <1>2, <3>1, <4>1, <4>2
      <3>3. \A o \in Migrators : pc[o] = "record" => o = m
        BY <1>1 DEF MInv, AloneInv, OneRunning, Stopped
      <3>4. \A v \in Versions : times'[v] > 0 => v \in rec
        BY <1>1, <3>3 DEF MInv, AloneInv, Accounted
      <3>5. pc'[m] \in AtFile => /\ name'[m] \in Nat /\ name'[m] > name[m]
                                 /\ name'[m] \notin applied[m]
        BY <2>7, NamesAreNumbers DEF AtFile
      <3>6. pc'[m] \in AtFile => /\ name'[m] \notin rec
                                 /\ \A v \in rec : v \in applied[m] \/ v < name'[m]
        BY <1>2, <3>2, <3>5
      <3> QED
        BY <1>8, <2>2, <3>4, <3>6 DEF KnowsAlone
    <2> QED
      BY <1>3, <1>5, <2>2, <2>4, <2>5, <2>6, <2>8, <2>9, WorkKeepsInv
  <1> QED
    BY <1>6, <1>7, <1>8 DEF Record

(* The invariant behind the theorems below. *)
THEOREM MigrateInvariant == Spec => []MInv
  <1>1. Init => MInv
    <2> SUFFICES ASSUME Init PROVE MInv
      OBVIOUS
    <2>0. times \in [Versions -> 0 .. 2] /\ \A v \in Versions : times[v] = 0
      BY DEF Init
    <2>1. TypeOK
      BY <2>0 DEF Init, TypeOK
    <2>2. RecordedIsApplied /\ SkippedUnlessDisturbed
      BY <2>0 DEF Init, RecordedIsApplied, SkippedUnlessDisturbed
    <2>3. LoopInv /\ AloneInv
      BY <2>0 DEF Init, LoopInv, AloneInv, OneRunning, SeesRows, WorksOnNew, Accounted, AtFile, Stopped
    <2> QED
      BY <2>1, <2>2, <2>3 DEF MInv
  <1>2. MInv /\ [Next]_vars => MInv'
    <2> SUFFICES ASSUME MInv, [Next]_vars PROVE MInv'
      OBVIOUS
    <2>1. ASSUME NEW m \in Migrators, Start(m) \/ Step(m) \/ Crash(m)
          PROVE  MInv'
      BY <2>1, StartKeepsInv, CrashKeepsInv, CreateKeepsInv, LoadKeepsInv, ApplyKeepsInv,
         RecordKeepsInv DEF Step
    <2>2. CASE UNCHANGED vars
      BY <2>2 DEF vars, database, local, MInv, TypeOK, RecordedIsApplied, LoopInv,
                  AloneInv, OneRunning, SeesRows, WorksOnNew, Accounted, Undisturbed,
                  SkippedUnlessDisturbed, AtFile, Stopped
    <2> QED
      BY <2>1, <2>2 DEF Next
  <1> QED
    BY <1>1, <1>2, PTL DEF Spec

(* No migrator, at whatever statement it is killed or started again, is at  *)
(* a file that is in no binary, and only files that exist are recorded.     *)
THEOREM MigrateTypes == Spec => []TypeOK
  <1>1. MInv => TypeOK
    BY DEF MInv
  <1> QED
    BY <1>1, MigrateInvariant, PTL

(* What is recorded, and skipped ever after, was applied. *)
THEOREM RecordsAreTrue == Spec => []RecordedIsApplied
  <1>1. MInv => RecordedIsApplied
    BY DEF MInv
  <1> QED
    BY <1>1, MigrateInvariant, PTL

(* A migrator that succeeds leaves its whole schema behind. *)
THEOREM SuccessIsComplete == Spec => []SuccessMeansComplete
  <1>1. MInv => SuccessMeansComplete
    BY DEF MInv, LoopInv, RecordedIsApplied, SuccessMeansComplete
  <1> QED
    BY <1>1, MigrateInvariant, PTL

(* No file is applied before the files its binary names before it. *)
THEOREM OrderIsKept == Spec => []AppliedInOrder
  <1>1. MInv => AppliedInOrder
    BY DEF MInv, LoopInv, AtFile, RecordedIsApplied, AppliedInOrder
  <1> QED
    BY <1>1, MigrateInvariant, PTL

(* Without a mishap, migrators that run one after the other apply no file   *)
(* twice.                                                                   *)
THEOREM SkippingWorks == Spec => []SkippedUnlessDisturbed
  <1>1. MInv => SkippedUnlessDisturbed
    BY DEF MInv
  <1> QED
    BY <1>1, MigrateInvariant, PTL

-------------------------------------------------------------------------------
(* How a run of migrations advances *)

(* m's next statement, behind the one it has made: after a file is recorded *)
(* only a later one of the binary is applied, and an error ends the run.    *)
Advances(m) ==
    \/ pc'[m] \in {"failed", "done"}
    \/ pc[m] = "create" /\ pc'[m] = "load"
    \/ pc[m] = "load"   /\ pc'[m] = "apply"
    \/ pc[m] = "apply"  /\ pc'[m] = "record" /\ name'[m] = name[m]
    \/ /\ pc[m] = "record" /\ pc'[m] = "apply"
       /\ name[m] \in recorded'
       /\ name'[m] \in Files[m] \ applied[m] /\ name'[m] > name[m]

LEMMA StepAdvances ==
    ASSUME MInv, NEW m \in Migrators, Step(m)
    PROVE  Advances(m)
  <1>0. pc = [o \in Migrators |-> pc[o]] /\ name \in [Migrators -> Versions \cup {0}]
    BY DEF MInv, TypeOK
  <1>1. CASE Create(m)
    BY <1>0, <1>1 DEF Create, Breaks, Goto, Advances
  <1>2. ASSUME NEW rows, NEW from, GoOn(m, rows, from)
        PROVE  \/ pc'[m] = "done"
               \/ pc'[m] = "apply" /\ name'[m] \in Files[m] \ rows /\ name'[m] > from
    BY <1>0, <1>2 DEF GoOn, Goto
  <1>3. CASE Load(m)
    BY <1>0, <1>2, <1>3 DEF Load, Breaks, Goto, Advances
  <1>4. CASE Apply(m)
    BY <1>0, <1>4 DEF Apply, Breaks, Goto, local, Advances
  <1>5. CASE Record(m)
    BY <1>0, <1>2, <1>5 DEF Record, Breaks, Goto, Advances
  <1> QED
    BY <1>1, <1>3, <1>4, <1>5 DEF Step

(* Whatever m does, the others stay where they are, and the database keeps  *)
(* what it has.                                                             *)
LEMMA StepLeavesOthers ==
    ASSUME MInv, NEW m \in Migrators, Start(m) \/ Step(m) \/ Crash(m)
    PROVE  OthersStay(m) /\ (created => created')
  <1>0. /\ pc = [o \in Migrators |-> pc[o]] /\ name \in [Migrators -> Versions \cup {0}]
        /\ applied \in [Migrators -> SUBSET Versions] /\ times \in [Versions -> 0 .. 2]
    BY DEF MInv, TypeOK
  <1>1. \A v \in Versions : times[v] >= times[v]
    BY <1>0
  <1>2. CASE Start(m)
    BY <1>0, <1>1, <1>2 DEF Start, Goto, database, OthersStay
  <1>3. CASE Crash(m)
    BY <1>0, <1>1, <1>3 DEF Crash, Goto, database, local, OthersStay
  <1>4. CASE Create(m)
    <2>0. created' = created \/ created' = TRUE
      BY <1>4 DEF Create
    <2>1. UNCHANGED <<recorded, times, local>> /\ (created => created')
      <3>1. created => created'
        BY <2>0, Zenon
      <3> QED
        BY <1>4, <3>1 DEF Create, Breaks
    <2>2. \E at : Goto(m, at)
      BY <1>4 DEF Create, Breaks
    <2> QED
      BY <1>0, <1>1, <2>1, <2>2 DEF Goto, local, OthersStay
  <1>5. CASE Load(m)
    <2>1. UNCHANGED database
      BY <1>5 DEF Load
    <2>2. \A o \in Migrators \ {m} : /\ pc'[o] = pc[o] /\ applied'[o] = applied[o]
                                     /\ name'[o] = name[o]
      BY <1>0, <1>5 DEF Load, Breaks, GoOn, Goto, local
    <2> QED
      BY <1>1, <2>1, <2>2 DEF OthersStay, database
  <1>6. CASE Apply(m)
    <2>1. UNCHANGED <<created, recorded, local>> /\ \E at : Goto(m, at)
      BY <1>6 DEF Apply, Breaks
    <2>2. name[m] \in Versions
      BY <1>6, NamesAreNumbers DEF Apply, MInv, LoopInv, AtFile
    <2>3. \/ UNCHANGED times
          \/ times' = [times EXCEPT ![name[m]] = IF times[name[m]] < 2
                                                 THEN times[name[m]] + 1
                                                 ELSE times[name[m]]]
      BY <1>6 DEF Apply
    <2>4. \A v \in Versions : times'[v] >= times[v]
      BY <1>0, <2>2, <2>3
    <2> QED
      BY <1>0, <2>1, <2>4 DEF OthersStay, Goto, local
  <1>7. CASE Record(m)
    <2>1. UNCHANGED <<created, times>> /\ recorded \subseteq recorded'
      BY <1>7 DEF Record
    <2>2. \A o \in Migrators \ {m} : /\ pc'[o] = pc[o] /\ applied'[o] = applied[o]
                                     /\ name'[o] = name[o]
      BY <1>0, <1>7 DEF Record, Breaks, GoOn, Goto, local
    <2> QED
      BY <1>1, <2>1, <2>2 DEF OthersStay
  <1> QED
    BY <1>2, <1>3, <1>4, <1>5, <1>6, <1>7 DEF Step

(* The safety half of Converges: each statement of a run leads to a later   *)
(* one or ends the run, so that it goes through its binary's files once and *)
(* never loops on one; no other migrator moves it; and what the database    *)
(* has of the schema it keeps, whoever crashes or fails.                    *)
THEOREM RunsOnlyAdvance ==
    Spec => [][/\ recorded \subseteq recorded' /\ (created => created')
               /\ \A v \in Versions : times'[v] >= times[v]
               /\ \A m \in Migrators :
                    /\ Step(m) => Advances(m)
                    /\ ~Stopped(m) => \/ pc'[m] = pc[m] /\ name'[m] = name[m]
                                      \/ Step(m) \/ Crash(m)]_vars
  <1>1. ASSUME MInv, [Next]_vars
        PROVE  /\ recorded \subseteq recorded' /\ (created => created')
               /\ \A v \in Versions : times'[v] >= times[v]
               /\ \A m \in Migrators :
                    /\ Step(m) => Advances(m)
                    /\ ~Stopped(m) => \/ pc'[m] = pc[m] /\ name'[m] = name[m]
                                      \/ Step(m) \/ Crash(m)
    <2>1. ASSUME NEW o \in Migrators, Start(o) \/ Step(o) \/ Crash(o)
          PROVE  (created => created') /\ OthersStay(o)
      BY <1>1, <2>1, StepLeavesOthers
    <2>2. /\ recorded \subseteq recorded' /\ (created => created')
          /\ \A v \in Versions : times'[v] >= times[v]
      <3>1. CASE UNCHANGED vars
        <4>1. \A v \in Versions : times[v] >= times[v]
          BY <1>1 DEF MInv, TypeOK
        <4> QED
          BY <3>1, <4>1 DEF vars, database
      <3> QED
        BY <1>1, <2>1, <3>1 DEF Next, OthersStay
    <2>3. ASSUME NEW m \in Migrators
          PROVE  \/ pc'[m] = pc[m] /\ name'[m] = name[m]
                 \/ Start(m) \/ Step(m) \/ Crash(m)
      BY <1>1, <2>1 DEF Next, OthersStay, vars, local
    <2>4. \A m \in Migrators : Start(m) => Stopped(m)
      BY DEF Start
    <2> QED
      BY <1>1, <2>2, <2>3, <2>4, StepAdvances
  <1> QED
    BY <1>1, MigrateInvariant, PTL DEF Spec
===============================================================================
