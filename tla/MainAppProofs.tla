----------------------------- MODULE MainAppProofs -----------------------------
(***************************************************************************)
(* Proofs about MainApp, for any number of signals, HTTP threads, requests *)
(* and files: what main() may rely on although signals run handlers on top *)
(* of whatever any thread does.                                            *)
(*                                                                         *)
(* Two facts carry them.  The depth of a recursive mutex is the number of  *)
(* frames of its owner that are between its lock and its unlock, whichever *)
(* frame is on top of which; so that a handler is on the stack of handlers *)
(* as long as it runs, and that only a call in progress is blocked while   *)
(* it holds a mutex.  And nothing but a final status wakes a frame that    *)
(* waits for the program.                                                  *)
(***************************************************************************)
EXTENDS MainApp, FiniteSetTheorems, TLAPS

FrameSet == [at : Places, signal : Signals \cup {"none"}, stage : 1..3, left : Nat]

\* A frame of thread t at this place is between the lock and the unlock of m.
Holds(m, t, i, at) ==
  \/ m = "signal" /\ i > 1 /\ at # "notify"
  \/ m = "signal" /\ t = Main /\ i = 1 /\ at \in {"pushing", "tested to await"}
  \/ m = "kill" /\ ~(t = Main /\ i = 1) /\ at \in KillPlaces \ {"lock kill"}
  \/ m = "wait" /\ at \in {"tested", "locked"}

Held(m, t) == {i \in 1..Len(frames[t]) : Holds(m, t, i, frames[t][i].at)}

MutexCounts(m) ==
  /\ mutex[m].by \in Threads \cup {"none"}
  /\ mutex[m].by = "none" <=> mutex[m].depth = 0
  /\ mutex[m].depth \in Nat
  /\ \A t \in Threads :
       Cardinality(Held(m, t)) = IF mutex[m].by = t THEN mutex[m].depth ELSE 0

\* Where the frames of the threads themselves may be; main() between two items of
\* its Script.
AtMain(at) ==
  \/ at \in {Script[step], "dead"}
  \/ step = 3 /\ at \in {"tested", "waiting", "woken"}
  \/ step = 17 /\ at \in {"tested to await", "awaiting", "woken"}
  \/ step \in {2, 6, 12, 16} /\ at = "pushing"

MainGood(at) ==
  /\ AtMain(at)
  /\ ~installed => step <= 2 /\ at \in {Script[step], "dead"}

ReaperGood(at) ==
  /\ at \in {"none", "waitpid", "reaped", "locked", "done"}
  /\ status = "NOT_STARTED" => at = "none"

HttpPlaces == {"idle", "kill", "done"} \cup KillPlaces

\* Where a handler may be.
HandlerPlaces == {"notify", "iterate", "kill"} \cup KillPlaces

HandlerGood(f) ==
  /\ f.at \in HandlerPlaces
  /\ f.left <= Len(handlers)
  /\ f.at \in KillPlaces \cup {"kill"} => f.left > 0 /\ handlers[f.left] = "kill"
  /\ IF f.at = "notify" THEN f.left = 0 ELSE interrupted

\* What holds where the i-th frame of thread t is.
FrameGood(t, i, f) ==
  /\ i > 1 => HandlerGood(f)
  /\ i = 1 /\ t = Main => MainGood(f.at)
  /\ i = 1 /\ t = Reaper => ReaperGood(f.at)
  /\ i = 1 /\ t \in Http => f.at \in HttpPlaces
  /\ f.at \in KillPlaces => status # "NOT_STARTED" \/ (t = Main /\ i = 1)
  /\ f.at = "woken" => status # "RUNNING" \/ (t = Main /\ i = 1 /\ step = 17)

FramesTyped ==
  /\ frames \in [Threads -> Seq(FrameSet)]
  /\ \A t \in Threads : frames[t] # <<>>

FramesGood ==
  \A t \in Threads : \A i \in 1..Len(frames[t]) : FrameGood(t, i, frames[t][i])

MutexInv ==
  /\ mutex \in [Mutexes -> [by : Threads \cup {"none"}, depth : Nat]]
  /\ \A m \in Mutexes : MutexCounts(m)

\* The variables that are not about threads, and how far main() has got.
Values ==
  /\ step \in 1..20
  /\ installed \in BOOLEAN /\ interrupted \in BOOLEAN /\ sizeInterrupted \in BOOLEAN
  /\ handlers \in Seq(DOMAIN Pushes)
  /\ status \in {"NOT_STARTED", "RUNNING", "EXITED", "CANNOT_KILL"}
  /\ child \in {"none", "alive", "zombie", "reaped"}
  /\ raised \in 0..MaxSignals
  /\ size \in Nat /\ lost \in Nat /\ size + lost <= Entries
  /\ workDirSize \in -1..Entries
  /\ reported \in {"none", "EXITED", "CANNOT_KILL"}

Progress ==
  /\ status = "NOT_STARTED" <=> step = 1
  /\ step > 3 => status # "RUNNING"
  /\ sizeInterrupted => interrupted
  /\ step > 7 => size + lost = Entries \/ sizeInterrupted
  /\ step > 8 => workDirSize = Entries - lost \/ (workDirSize = -1 /\ interrupted)
  /\ reported # "none" => step > 10

Inv == Values /\ Progress /\ FramesTyped /\ FramesGood /\ MutexInv

-------------------------------------------------------------------------------
(* The script of main(). *)

LEMMA ScriptAt ==
  /\ Len(Script) = 20 /\ DOMAIN Script = 1..20
  /\ Script[1] = "start" /\ Script[2] = "push kill" /\ Script[3] = "wait"
  /\ Script[4] = "pop" /\ Script[5] = "save" /\ Script[6] = "push size"
  /\ Script[7] = "walk" /\ Script[8] = "measured" /\ Script[9] = "pop"
  /\ Script[10] = "report" /\ Script[11] = "run after" /\ Script[12] = "push persist"
  /\ Script[13] = "join" /\ Script[14] = "pop" /\ Script[15] = "no exit"
  /\ Script[16] = "push exit" /\ Script[17] = "await" /\ Script[18] = "pop"
  /\ Script[19] = "stop" /\ Script[20] = "done"
BY DEF Script

ScriptPlaces == {"start", "push kill", "wait", "pop", "save", "push size", "walk",
                 "measured", "report", "run after", "push persist", "join", "no exit",
                 "push exit", "await", "stop", "done"}

LEMMA ScriptCases ==
  ASSUME NEW n \in 1..20
  PROVE  n = 1 \/ n = 2 \/ n = 3 \/ n = 4 \/ n = 5 \/ n = 6 \/ n = 7 \/ n = 8
         \/ n = 9 \/ n = 10 \/ n = 11 \/ n = 12 \/ n = 13 \/ n = 14 \/ n = 15
         \/ n = 16 \/ n = 17 \/ n = 18 \/ n = 19 \/ n = 20
OBVIOUS

LEMMA ScriptRange ==
  ASSUME NEW n \in 1..20
  PROVE  Script[n] \in ScriptPlaces
<1>1. /\ Script[1] \in ScriptPlaces /\ Script[2] \in ScriptPlaces
      /\ Script[3] \in ScriptPlaces /\ Script[4] \in ScriptPlaces
      /\ Script[5] \in ScriptPlaces /\ Script[6] \in ScriptPlaces
      /\ Script[7] \in ScriptPlaces /\ Script[8] \in ScriptPlaces
      /\ Script[9] \in ScriptPlaces /\ Script[10] \in ScriptPlaces
      /\ Script[11] \in ScriptPlaces /\ Script[12] \in ScriptPlaces
      /\ Script[13] \in ScriptPlaces /\ Script[14] \in ScriptPlaces
      /\ Script[15] \in ScriptPlaces /\ Script[16] \in ScriptPlaces
      /\ Script[17] \in ScriptPlaces /\ Script[18] \in ScriptPlaces
      /\ Script[19] \in ScriptPlaces /\ Script[20] \in ScriptPlaces
  BY ScriptAt DEF ScriptPlaces
<1> QED BY <1>1, ScriptCases

\* Each item, but the pops, is at one place of the script only.
LEMMA ScriptStep ==
  ASSUME NEW n \in 1..20
  PROVE  /\ Script[n] = "start" <=> n = 1
         /\ Script[n] = "wait" <=> n = 3
         /\ Script[n] = "walk" <=> n = 7
         /\ Script[n] = "measured" <=> n = 8
         /\ Script[n] = "report" <=> n = 10
         /\ Script[n] = "no exit" <=> n = 15
         /\ Script[n] = "await" <=> n = 17
         /\ Script[n] = "done" <=> n = 20
         /\ Script[n] \in {"push kill", "push size", "push persist", "push exit"}
              <=> n \in {2, 6, 12, 16}
<1>1. (Script[n] = "start" <=> n = 1) /\ (Script[n] = "wait" <=> n = 3)
  BY ScriptAt, ScriptCases
<1>2. (Script[n] = "walk" <=> n = 7) /\ (Script[n] = "measured" <=> n = 8)
  BY ScriptAt, ScriptCases
<1>3. (Script[n] = "report" <=> n = 10) /\ (Script[n] = "no exit" <=> n = 15)
  BY ScriptAt, ScriptCases
<1>4. (Script[n] = "await" <=> n = 17) /\ (Script[n] = "done" <=> n = 20)
  BY ScriptAt, ScriptCases
<1>5. Script[n] \in {"push kill", "push size", "push persist", "push exit"}
        <=> n \in {2, 6, 12, 16}
  BY ScriptAt, ScriptCases
<1> QED BY <1>1, <1>2, <1>3, <1>4, <1>5

LEMMA ScriptPlacesOK == ScriptPlaces \subseteq Places
<1>1. \A n \in 1..20 : Script[n] \in Places
  BY ScriptAt DEF Places
<1>2. /\ Script[1] \in Places /\ Script[2] \in Places /\ Script[3] \in Places
      /\ Script[4] \in Places /\ Script[5] \in Places /\ Script[6] \in Places
      /\ Script[7] \in Places /\ Script[8] \in Places /\ Script[10] \in Places
      /\ Script[11] \in Places /\ Script[12] \in Places /\ Script[13] \in Places
      /\ Script[15] \in Places /\ Script[16] \in Places /\ Script[17] \in Places
      /\ Script[19] \in Places /\ Script[20] \in Places
  BY <1>1
<1>3. /\ "start" \in Places /\ "push kill" \in Places /\ "wait" \in Places
      /\ "pop" \in Places /\ "save" \in Places /\ "push size" \in Places
      /\ "walk" \in Places /\ "measured" \in Places /\ "report" \in Places
      /\ "run after" \in Places /\ "push persist" \in Places /\ "join" \in Places
      /\ "no exit" \in Places /\ "push exit" \in Places /\ "await" \in Places
      /\ "stop" \in Places /\ "done" \in Places
  BY <1>2, ScriptAt, Zenon
<1> QED BY <1>3 DEF ScriptPlaces

-------------------------------------------------------------------------------
(* Frames. *)

\* gs is fs with the k-th frame of thread t replaced by f.
Replaces(fs, t, k, f, gs) == gs = [fs EXCEPT ![t][k] = f]

\* What that means.
Replaced(fs, t, k, f, gs) ==
  /\ gs \in [Threads -> Seq(FrameSet)]
  /\ \A u \in Threads : Len(gs[u]) = Len(fs[u])
  /\ gs[t][k] = f
  /\ \A u \in Threads : \A i \in 1..Len(fs[u]) :
       u # t \/ i # k => gs[u][i] = fs[u][i]

LEMMA ReplacesOne ==
  ASSUME NEW fs, fs \in [Threads -> Seq(FrameSet)], NEW t, t \in Threads,
         NEW f, f \in FrameSet, NEW k, k \in 1..Len(fs[t]), NEW gs, Replaces(fs, t, k, f, gs)
  PROVE  Replaced(fs, t, k, f, gs)
<1>1. gs = [fs EXCEPT ![t] = [fs[t] EXCEPT ![k] = f]]
  BY DEF Replaces
<1>2. [fs[t] EXCEPT ![k] = f] \in Seq(FrameSet) /\ Len([fs[t] EXCEPT ![k] = f]) = Len(fs[t])
  OBVIOUS
<1> QED BY <1>1, <1>2 DEF Replaced

\* The first frames of threads t and u are replaced.
ReplacedTwo(fs, t, u, f, g, gs) ==
  /\ gs \in [Threads -> Seq(FrameSet)]
  /\ \A w \in Threads : Len(gs[w]) = Len(fs[w])
  /\ gs[t][1] = f /\ gs[u][1] = g
  /\ \A w \in Threads : \A i \in 1..Len(fs[w]) :
       i # 1 \/ w \notin {t, u} => gs[w][i] = fs[w][i]

LEMMA ReplacesTwo ==
  ASSUME NEW fs, fs \in [Threads -> Seq(FrameSet)], NEW t \in Threads, NEW u \in Threads, u # t,
         NEW f \in FrameSet, NEW g \in FrameSet, fs[t] # <<>>, fs[u] # <<>>,
         NEW hs, Replaces(fs, t, 1, f, hs), NEW gs, Replaces(hs, u, 1, g, gs)
  PROVE  ReplacedTwo(fs, t, u, f, g, gs)
<1>1. 1 \in 1..Len(fs[t]) /\ 1 \in 1..Len(fs[u])
  OBVIOUS
<1>2. Replaced(fs, t, 1, f, hs)
  BY <1>1, ReplacesOne
<1>3. Replaced(hs, u, 1, g, gs)
  <2>1. 1 \in 1..Len(hs[u])
    BY <1>1, <1>2 DEF Replaced
  <2>2. hs \in [Threads -> Seq(FrameSet)]
    BY <1>2 DEF Replaced
  <2> QED BY <2>1, <2>2, ReplacesOne
<1>4. gs[t][1] = f
  <2>1. 1 \in 1..Len(hs[t])
    BY <1>1, <1>2 DEF Replaced
  <2>2. gs[t][1] = hs[t][1]
    BY <1>3, <2>1 DEF Replaced
  <2> QED BY <1>2, <2>2 DEF Replaced
<1>5. ASSUME NEW w \in Threads, NEW i \in 1..Len(fs[w]), i # 1 \/ w \notin {t, u}
      PROVE  gs[w][i] = fs[w][i]
  <2>1. i \in 1..Len(hs[w])
    BY <1>2 DEF Replaced
  <2>2. gs[w][i] = hs[w][i]
    <3>1. w # u \/ i # 1
      BY <1>5
    <3> QED BY <1>3, <2>1, <3>1 DEF Replaced
  <2>3. hs[w][i] = fs[w][i]
    BY <1>2, <1>5 DEF Replaced
  <2> QED BY <2>2, <2>3
<1> QED BY <1>2, <1>3, <1>4, <1>5 DEF Replaced, ReplacedTwo

\* W is fs with the frames that sleep at the place woken.
IsWoken(fs, place, W) ==
  /\ W \in [Threads -> Seq(FrameSet)]
  /\ \A u \in Threads : Len(W[u]) = Len(fs[u])
  /\ \A u \in Threads : \A i \in 1..Len(fs[u]) :
       W[u][i] = IF fs[u][i].at = place THEN [fs[u][i] EXCEPT !.at = "woken"] ELSE fs[u][i]

LEMMA WokenFrames ==
  ASSUME NEW fs, fs \in [Threads -> Seq(FrameSet)], NEW place
  PROVE  IsWoken(fs, place, Woken(fs, place))
<1> DEFINE W(u) == [i \in DOMAIN fs[u] |->
                      IF fs[u][i].at = place THEN [fs[u][i] EXCEPT !.at = "woken"]
                                             ELSE fs[u][i]]
<1>1. Woken(fs, place) = [u \in Threads |-> W(u)]
  BY DEF Woken
<1>2. "woken" \in Places
  BY DEF Places, KillPlaces
<1>3. ASSUME NEW u \in Threads PROVE W(u) \in Seq(FrameSet) /\ Len(W(u)) = Len(fs[u])
  <2>1. DOMAIN fs[u] = 1..Len(fs[u]) /\ Len(fs[u]) \in Nat
    OBVIOUS
  <2>2. ASSUME NEW i \in 1..Len(fs[u]) PROVE W(u)[i] \in FrameSet
    <3>1. fs[u][i] \in FrameSet
      OBVIOUS
    <3>2. [fs[u][i] EXCEPT !.at = "woken"] \in FrameSet
      BY <1>2, <3>1 DEF FrameSet
    <3> QED BY <2>1, <3>1, <3>2
  <2>3. W(u) \in [1..Len(fs[u]) -> FrameSet]
    BY <2>1, <2>2
  <2> QED BY <2>1, <2>3
<1>4. \A u \in Threads : \A i \in 1..Len(fs[u]) :
        W(u)[i] = IF fs[u][i].at = place THEN [fs[u][i] EXCEPT !.at = "woken"]
                                         ELSE fs[u][i]
  OBVIOUS
<1> HIDE DEF W
<1> QED BY <1>1, <1>3, <1>4 DEF IsWoken

LEMMA FrameAt ==
  ASSUME NEW f \in FrameSet, NEW place \in Places
  PROVE  /\ [f EXCEPT !.at = place] \in FrameSet
         /\ [f EXCEPT !.at = place].at = place
         /\ [f EXCEPT !.at = place].left = f.left
BY DEF FrameSet

\* A handler that goes on, with as many handlers left.
Onwards(f, place, left) == [f EXCEPT !.at = place, !.left = left, !.stage = 1]

LEMMA FrameOnwards ==
  ASSUME NEW f \in FrameSet, NEW place \in Places, NEW left \in Nat,
         NEW g, g = Onwards(f, place, left)
  PROVE  g \in FrameSet /\ g.at = place /\ g.left = left
<1>1. g = [at |-> place, signal |-> f.signal, stage |-> 1, left |-> left]
  BY DEF FrameSet, Onwards
<1> QED BY <1>1 DEF FrameSet

LEMMA TopGood ==
  ASSUME FramesTyped, FramesGood, NEW t \in Threads
  PROVE  /\ Len(frames[t]) \in Nat /\ Len(frames[t]) >= 1
         /\ Top(t) = frames[t][Len(frames[t])] /\ Top(t) \in FrameSet
         /\ FrameGood(t, Len(frames[t]), Top(t))
BY DEF FramesTyped, FramesGood, Top

LEMMA HowManyFrames ==
  ASSUME FramesTyped, NEW t \in Threads
  PROVE  (Len(frames[t]) > 1 /\ Len(frames[t]) # 1) \/ (Len(frames[t]) = 1 /\ ~(Len(frames[t]) > 1))
<1>1. PICK n \in Nat : n = Len(frames[t]) /\ n >= 1
  BY DEF FramesTyped
<1>2. n >= 1
  BY <1>1
<1>3. (n > 1 /\ n # 1) \/ (n = 1 /\ ~(n > 1))
  BY <1>2
<1> QED BY <1>1, <1>3

LEMMA InMainAlone ==
  ASSUME FramesTyped, NEW t \in Threads
  PROVE  InMain(t) <=> t = Main /\ Len(frames[t]) = 1
<1>1. PICK n \in Nat : n = Len(frames[t]) /\ n >= 1
  BY DEF FramesTyped
<1>2. n >= 1
  BY <1>1
<1>3. n > 1 <=> n # 1
  BY <1>2
<1> QED BY <1>1, <1>3 DEF InMain, Interrupting

LEMMA ThreadFacts ==
  /\ Main \in Threads /\ Reaper \in Threads /\ Http \subseteq Threads
  /\ Main # Reaper /\ Main \notin Http /\ Reaper \notin Http
  /\ "none" \notin Threads
BY ThreadsAssumption DEF Threads

LEMMA MainFrame ==
  ASSUME NEW f, MainGood(f.at)', f.at # "woken"
  PROVE  FrameGood(Main, 1, f)'
<1>1. ~(1 > 1)
  OBVIOUS
<1> QED BY <1>1, ThreadFacts DEF FrameGood

LEMMA ReaperFrame ==
  ASSUME NEW f, ReaperGood(f.at)', f.at \notin KillPlaces
  PROVE  FrameGood(Reaper, 1, f)'
<1>1. ~(1 > 1)
  OBVIOUS
<1>2. f.at # "woken"
  BY DEF KillPlaces
<1> QED BY <1>1, <1>2, ThreadFacts DEF FrameGood

-------------------------------------------------------------------------------
(* Mutexes. *)

LEMMA HeldFinite ==
  ASSUME FramesTyped, NEW m, NEW t \in Threads
  PROVE  IsFiniteSet(Held(m, t))
<1>1. Len(frames[t]) \in Nat
  BY DEF FramesTyped
<1>2. IsFiniteSet(1..Len(frames[t]))
  BY <1>1, FS_Interval
<1> QED BY <1>2, FS_Subset DEF Held

\* A thread that locks m has one frame more that holds it.
LEMMA LockCounts ==
  ASSUME FramesTyped, MutexInv, NEW t \in Threads, NEW m \in Mutexes, NEW n,
         Lock(m, t), n \notin Held(m, t), Held(m, t)' = Held(m, t) \cup {n},
         \A u \in Threads \ {t} : Held(m, u)' = Held(m, u)
  PROVE  MutexCounts(m)'
<1>1. mutex'[m] = [by |-> t, depth |-> mutex[m].depth + 1] /\ mutex[m].by \in {"none", t}
  BY DEF MutexInv, Lock, CanLock
<1>2. Cardinality(Held(m, t) \cup {n}) = Cardinality(Held(m, t)) + 1
  BY HeldFinite, FS_AddElement
<1>3. mutex[m].depth \in Nat /\ (mutex[m].by = "none" <=> mutex[m].depth = 0)
  BY DEF MutexInv, MutexCounts
<1>4. \A u \in Threads : Cardinality(Held(m, u)) = IF mutex[m].by = u THEN mutex[m].depth ELSE 0
  BY DEF MutexInv, MutexCounts
<1>5. Cardinality(Held(m, t)') = mutex[m].depth + 1
  BY <1>1, <1>2, <1>3, <1>4, ThreadFacts
<1>6. \A u \in Threads \ {t} : Cardinality(Held(m, u)') = 0
  BY <1>1, <1>4, ThreadFacts
<1>7. mutex'[m].by = t /\ mutex'[m].depth = mutex[m].depth + 1
  BY <1>1
<1>8. ASSUME NEW u \in Threads
      PROVE  Cardinality(Held(m, u))' = IF mutex'[m].by = u THEN mutex'[m].depth ELSE 0
  BY <1>5, <1>6, <1>7
<1> QED BY <1>3, <1>7, <1>8, ThreadFacts DEF MutexCounts

\* A frame that unlocks m is one of its owner's.
LEMMA UnlockCounts ==
  ASSUME FramesTyped, MutexInv, NEW t \in Threads, NEW m \in Mutexes, NEW n,
         Unlock(m), n \in Held(m, t), Held(m, t)' = Held(m, t) \ {n},
         \A u \in Threads \ {t} : Held(m, u)' = Held(m, u)
  PROVE  MutexCounts(m)'
<1>1. \A u \in Threads : Cardinality(Held(m, u)) = IF mutex[m].by = u THEN mutex[m].depth ELSE 0
  BY DEF MutexInv, MutexCounts
<1>2. Cardinality(Held(m, t) \ {n}) = Cardinality(Held(m, t)) - 1
  BY HeldFinite, FS_RemoveElement
<1>3. Cardinality(Held(m, t)) # 0
  BY HeldFinite, FS_EmptySet
<1>4. mutex[m].by = t /\ mutex[m].depth \in Nat \ {0}
      /\ mutex[m] \in [by : Threads \cup {"none"}, depth : Nat]
  BY <1>1, <1>3 DEF MutexInv, MutexCounts
<1>5. mutex'[m] = IF mutex[m].depth = 1 THEN [by |-> "none", depth |-> 0]
                  ELSE [by |-> t, depth |-> mutex[m].depth - 1]
  BY <1>4 DEF MutexInv, Unlock
<1>6. Cardinality(Held(m, t)') = mutex[m].depth - 1
  BY <1>1, <1>2, <1>4
<1>7. \A u \in Threads \ {t} : Cardinality(Held(m, u)') = 0
  BY <1>1, <1>4
<1>8. /\ mutex'[m].by = IF mutex[m].depth = 1 THEN "none" ELSE t
      /\ mutex'[m].depth = mutex[m].depth - 1
  BY <1>5
<1>9. ASSUME NEW u \in Threads
      PROVE  Cardinality(Held(m, u))' = IF mutex'[m].by = u THEN mutex'[m].depth ELSE 0
  <2>1. CASE u = t
    <3>1. Cardinality(Held(m, u))' = mutex[m].depth - 1
      BY <1>6, <2>1
    <3>2. CASE mutex[m].depth = 1
      BY <1>4, <1>8, <2>1, <3>1, <3>2, ThreadFacts
    <3>3. CASE mutex[m].depth # 1
      BY <1>8, <2>1, <3>1, <3>3
    <3> QED BY <3>2, <3>3
  <2>2. CASE u # t
    BY <1>4, <1>7, <1>8, <2>2, ThreadFacts
  <2> QED BY <2>1, <2>2
<1> QED BY <1>4, <1>8, <1>9, ThreadFacts DEF MutexCounts

LEMMA SameCounts ==
  ASSUME MutexInv, NEW m \in Mutexes, mutex'[m] = mutex[m],
         \A u \in Threads : Held(m, u)' = Held(m, u)
  PROVE  MutexCounts(m)'
BY DEF MutexInv, MutexCounts

\* What a step of thread t, whose n-th frame runs, may do to the mutexes, if this
\* frame goes from place p to place q.
MutexMoves(t, n, p, q) ==
  \/ /\ UNCHANGED mutex
     /\ \A m \in Mutexes : Holds(m, t, n, p) <=> Holds(m, t, n, q)
  \/ \E m \in Mutexes :
       /\ Lock(m, t)
       /\ ~Holds(m, t, n, p) /\ Holds(m, t, n, q)
       /\ \A k \in Mutexes \ {m} : Holds(k, t, n, p) <=> Holds(k, t, n, q)
  \/ \E m \in Mutexes :
       /\ Unlock(m)
       /\ Holds(m, t, n, p) /\ ~Holds(m, t, n, q)
       /\ \A k \in Mutexes \ {m} : Holds(k, t, n, p) <=> Holds(k, t, n, q)

\* The frames that hold m are then those that held it, with or without the n-th.
HeldMoves(t, n, q) ==
  \A m \in Mutexes :
    /\ Held(m, t)' = IF Holds(m, t, n, q) THEN Held(m, t) \cup {n} ELSE Held(m, t) \ {n}
    /\ \A u \in Threads \ {t} : Held(m, u)' = Held(m, u)

LEMMA MutexesMoved ==
  ASSUME FramesTyped, MutexInv, NEW t \in Threads, NEW n \in 1..Len(frames[t]), NEW q,
         MutexMoves(t, n, frames[t][n].at, q), HeldMoves(t, n, q)
  PROVE  MutexInv'
<1> DEFINE Was(m) == Holds(m, t, n, frames[t][n].at)
           Is(m) == Holds(m, t, n, q)
<1>1. \A m \in Mutexes : n \in Held(m, t) <=> Was(m)
  BY DEF Held
<1>2. ASSUME NEW m \in Mutexes, Was(m) <=> Is(m), mutex'[m] = mutex[m]
      PROVE  MutexCounts(m)'
  <2>1. \A u \in Threads : Held(m, u)' = Held(m, u)
    BY <1>1, <1>2 DEF HeldMoves
  <2> QED BY <1>2, <2>1, SameCounts
<1>3. CASE UNCHANGED mutex /\ \A m \in Mutexes : Was(m) <=> Is(m)
  BY <1>2, <1>3 DEF MutexInv
<1>4. ASSUME NEW m \in Mutexes, Lock(m, t), ~Was(m), Is(m),
             \A k \in Mutexes \ {m} : Was(k) <=> Is(k)
      PROVE  MutexInv'
  <2>1. MutexCounts(m)'
    <3>1. Held(m, t)' = Held(m, t) \cup {n} /\ n \notin Held(m, t)
      BY <1>1, <1>4 DEF HeldMoves
    <3>2. \A u \in Threads \ {t} : Held(m, u)' = Held(m, u)
      BY DEF HeldMoves
    <3> QED BY <1>4, <3>1, <3>2, LockCounts
  <2>2. \A k \in Mutexes \ {m} : mutex'[k] = mutex[k]
    BY <1>4 DEF MutexInv, Lock
  <2>3. \A k \in Mutexes \ {m} : MutexCounts(k)'
    BY <1>2, <1>4, <2>2
  <2>4. mutex' \in [Mutexes -> [by : Threads \cup {"none"}, depth : Nat]]
    BY <1>4 DEF MutexInv, Lock
  <2> QED BY <2>1, <2>3, <2>4 DEF MutexInv
<1>5. ASSUME NEW m \in Mutexes, Unlock(m), Was(m), ~Is(m),
             \A k \in Mutexes \ {m} : Was(k) <=> Is(k)
      PROVE  MutexInv'
  <2>1. MutexCounts(m)'
    <3>1. Held(m, t)' = Held(m, t) \ {n} /\ n \in Held(m, t)
      BY <1>1, <1>5 DEF HeldMoves
    <3>2. \A u \in Threads \ {t} : Held(m, u)' = Held(m, u)
      BY DEF HeldMoves
    <3> QED BY <1>5, <3>1, <3>2, UnlockCounts
  <2>2. \A k \in Mutexes \ {m} : mutex'[k] = mutex[k]
    BY <1>5 DEF MutexInv, Unlock
  <2>3. \A k \in Mutexes \ {m} : MutexCounts(k)'
    BY <1>2, <1>5, <2>2
  <2>4. mutex' \in [Mutexes -> [by : Threads \cup {"none"}, depth : Nat]]
    <3>1. /\ mutex'[m].by \in Threads \cup {"none"} /\ mutex'[m].depth \in Nat
      BY <2>1 DEF MutexCounts
    <3>2. DOMAIN mutex' = Mutexes /\ mutex' = [k \in Mutexes |-> mutex'[k]]
      BY <1>5 DEF MutexInv, Unlock
    <3>3. mutex'[m] \in [by : Threads \cup {"none"}, depth : Nat]
      <4>1. mutex'[m] = [by |-> mutex'[m].by, depth |-> mutex'[m].depth]
        BY <1>5 DEF MutexInv, Unlock
      <4> QED BY <3>1, <4>1
    <3>4. \A k \in Mutexes : mutex'[k] \in [by : Threads \cup {"none"}, depth : Nat]
      BY <2>2, <3>3 DEF MutexInv
    <3> QED BY <3>2, <3>4
  <2> QED BY <2>1, <2>3, <2>4 DEF MutexInv
<1> QED BY <1>3, <1>4, <1>5 DEF MutexMoves

-------------------------------------------------------------------------------
(* Steps of the frame that runs in one thread. *)

\* The frames other than the n-th of thread t stay good.
Keeps(t, n) ==
  \A u \in Threads : \A i \in 1..Len(frames[u]) : \A g \in FrameSet :
    (u # t \/ i # n) /\ g = frames[u][i] /\ FrameGood(u, i, g) => FrameGood(u, i, g)'

\* They do if the status becomes final, flags are set and handlers are added, and
\* if it is main() itself that goes on with its Script.
LEMMA KeepsOK ==
  ASSUME Values, FramesTyped, NEW t \in Threads, NEW n,
         status' = status \/ (status # "NOT_STARTED" /\ status' \in {"EXITED", "CANNOT_KILL"}),
         installed => installed', interrupted => interrupted',
         handlers' = handlers \/ (\E h : handlers' = Append(handlers, h)),
         step' = step \/ (t = Main /\ n = 1)
  PROVE  Keeps(t, n)
<1>1. /\ Len(handlers) \in Nat /\ Len(handlers') \in Nat
      /\ Len(handlers) <= Len(handlers')
      /\ \A j \in 1..Len(handlers) : handlers'[j] = handlers[j]
  BY DEF Values
<1> SUFFICES ASSUME NEW u \in Threads, NEW i \in 1..Len(frames[u]), NEW g \in FrameSet,
                    u # t \/ i # n, FrameGood(u, i, g)
             PROVE  FrameGood(u, i, g)'
  BY DEF Keeps
<1>2. g.left \in Nat
  BY DEF FrameSet
<1>3. i > 1 => HandlerGood(g)'
  BY <1>1, <1>2 DEF FrameGood, HandlerGood
<1>4. u = Main /\ i = 1 => step' = step
  OBVIOUS
<1>5. /\ i = 1 /\ u = Main => MainGood(g.at)'
      /\ i = 1 /\ u = Reaper => ReaperGood(g.at)'
  BY <1>4 DEF FrameGood, MainGood, AtMain, ReaperGood
<1>6. /\ g.at \in KillPlaces => status' # "NOT_STARTED" \/ (u = Main /\ i = 1)
      /\ g.at = "woken" => status' # "RUNNING" \/ (u = Main /\ i = 1 /\ step' = 17)
  BY <1>4 DEF FrameGood
<1> QED BY <1>3, <1>5, <1>6 DEF FrameGood

\* A step after which the frames are gs: the n-th one of thread t has gone to
\* another place, and the others hold the mutexes that they held.
LEMMA MovedAll ==
  ASSUME FramesTyped, MutexInv, NEW t \in Threads, NEW n \in 1..Len(frames[t]),
         NEW gs \in [Threads -> Seq(FrameSet)], frames' = gs,
         \A u \in Threads : Len(gs[u]) = Len(frames[u]),
         \A u \in Threads : \A i \in 1..Len(frames[u]) : \A m \in Mutexes :
           u # t \/ i # n => (Holds(m, u, i, gs[u][i].at) <=> Holds(m, u, i, frames[u][i].at)),
         \A u \in Threads : \A i \in 1..Len(frames[u]) : FrameGood(u, i, frames[u][i])',
         MutexMoves(t, n, frames[t][n].at, gs[t][n].at)
  PROVE  FramesTyped' /\ FramesGood' /\ MutexInv'
<1>1. FramesTyped' /\ FramesGood'
  BY DEF FramesTyped, FramesGood
<1>2. HeldMoves(t, n, gs[t][n].at)
  <2>1. ASSUME NEW m \in Mutexes, NEW u \in Threads \ {t} PROVE Held(m, u)' = Held(m, u)
    BY DEF Held
  <2>2. ASSUME NEW m \in Mutexes
        PROVE  Held(m, t)' = IF Holds(m, t, n, gs[t][n].at) THEN Held(m, t) \cup {n}
                                                            ELSE Held(m, t) \ {n}
    <3>1. Held(m, t)' = {i \in 1..Len(frames[t]) : Holds(m, t, i, gs[t][i].at)}
      BY DEF Held
    <3>2. \A i \in 1..Len(frames[t]) :
            i # n => (Holds(m, t, i, gs[t][i].at) <=> Holds(m, t, i, frames[t][i].at))
      OBVIOUS
    <3> QED BY <3>1, <3>2 DEF Held
  <2> QED BY <2>1, <2>2 DEF HeldMoves
<1> QED BY <1>1, <1>2, MutexesMoved

\* A step that replaces the n-th frame of thread t.
LEMMA MovedOne ==
  ASSUME FramesTyped, FramesGood, MutexInv,
         NEW t \in Threads, NEW f \in FrameSet, NEW n \in 1..Len(frames[t]),
         NEW gs, gs = frames', Replaces(frames, t, n, f, gs),
         Keeps(t, n), FrameGood(t, n, f)',
         MutexMoves(t, n, frames[t][n].at, f.at)
  PROVE  FramesTyped' /\ FramesGood' /\ MutexInv'
<1>1. frames \in [Threads -> Seq(FrameSet)]
  BY DEF FramesTyped
<1>2. /\ gs \in [Threads -> Seq(FrameSet)]
      /\ \A u \in Threads : Len(gs[u]) = Len(frames[u])
      /\ gs[t][n] = f
      /\ \A u \in Threads : \A i \in 1..Len(frames[u]) :
           u # t \/ i # n => gs[u][i] = frames[u][i]
  <2>1. Replaced(frames, t, n, f, gs)
    BY <1>1, ReplacesOne
  <2> QED BY <2>1 DEF Replaced
<1>3. ASSUME NEW u \in Threads, NEW i \in 1..Len(frames[u])
      PROVE  FrameGood(u, i, frames[u][i])'
  <2>1. CASE u = t /\ i = n
    BY <1>2, <2>1
  <2>2. CASE u # t \/ i # n
    <3>1. PICK g : g = frames[u][i]
      OBVIOUS
    <3>2. g \in FrameSet /\ FrameGood(u, i, g)
      BY <3>1 DEF FramesTyped, FramesGood
    <3>3. FrameGood(u, i, g)' /\ g = frames'[u][i]
      BY <1>2, <2>2, <3>1, <3>2 DEF Keeps
    <3> QED BY <3>3
  <2> QED BY <2>1, <2>2
<1>4. MutexMoves(t, n, frames[t][n].at, gs[t][n].at)
  BY <1>2
<1> QED BY <1>2, <1>3, <1>4, MovedAll

\* A step of the frame that runs in thread t.
LEMMA Moved ==
  ASSUME FramesTyped, FramesGood, MutexInv,
         NEW t \in Threads, NEW f \in FrameSet, NEW n, n = Len(frames[t]),
         Becomes(t, f), Keeps(t, n), FrameGood(t, n, f)',
         MutexMoves(t, n, Top(t).at, f.at)
  PROVE  FramesTyped' /\ FramesGood' /\ MutexInv'
<1>1. n \in 1..Len(frames[t])
  BY DEF FramesTyped
<1>2. PICK gs : gs = frames' /\ Replaces(frames, t, n, f, gs)
  BY DEF Becomes, Replaces
<1>3. MutexMoves(t, n, frames[t][n].at, f.at)
  BY DEF Top
<1> QED BY <1>1, <1>2, <1>3, MovedOne

\* A step that moves no frame.
LEMMA Unmoved ==
  ASSUME Values, FramesTyped, FramesGood, MutexInv,
         UNCHANGED <<frames, mutex, step, installed, interrupted, handlers, status>>
  PROVE  FramesTyped' /\ FramesGood' /\ MutexInv'
<1>1. Keeps(Main, 0)
  BY KeepsOK, ThreadFacts
<1>2. FramesTyped'
  BY DEF FramesTyped
<1>3. FramesGood'
  <2>1. ASSUME NEW t \in Threads, NEW i \in 1..Len(frames[t])
        PROVE  FrameGood(t, i, frames[t][i])'
    <3>1. PICK g : g = frames[t][i]
      OBVIOUS
    <3>2. g \in FrameSet /\ FrameGood(t, i, g)
      BY <3>1 DEF FramesTyped, FramesGood
    <3>3. FrameGood(t, i, g)' /\ g = frames'[t][i]
      BY <1>1, <3>1, <3>2 DEF Keeps
    <3> QED BY <3>3
  <2> QED BY <2>1 DEF FramesGood
<1>4. MutexInv'
  <2>1. \A m \in Mutexes : \A t \in Threads : Held(m, t)' = Held(m, t)
    BY DEF Held
  <2>2. \A m \in Mutexes : MutexCounts(m)'
    BY <2>1, SameCounts
  <2> QED BY <2>2 DEF MutexInv
<1> QED BY <1>2, <1>3, <1>4

\* Steps that change nothing of what is said about the values.
LEMMA SameValues ==
  ASSUME Inv, UNCHANGED <<step, installed, interrupted, handlers, status, child, raised, size, lost,
                          sizeInterrupted, workDirSize, reported>>
  PROVE  Values' /\ Progress'
<1>1. Values'
  BY DEF Inv, Values
<1>2. Progress'
  BY DEF Inv, Progress
<1> QED BY <1>1, <1>2

-------------------------------------------------------------------------------
(* main(). *)

\* Only the first frame of a thread is at a place that is none of a handler's.
LEMMA OwnFrame ==
  ASSUME NEW t, NEW n \in Nat, n >= 1, NEW f, FrameGood(t, n, f), f.at \notin HandlerPlaces
  PROVE  n = 1
<1>1. ~HandlerGood(f)
  BY DEF HandlerGood
<1>2. ~(n > 1)
  BY <1>1 DEF FrameGood
<1> QED BY <1>2

\* A place of the script that is none of a handler's.
LEMMA InScript ==
  ASSUME Inv, NEW place \in ScriptPlaces \ {"wait"}, At(Main, place)
  PROVE  /\ Len(frames[Main]) = 1
         /\ Top(Main).at = Script[step] /\ Script[step] = place
         /\ step > 2 => installed
<1>1. /\ FrameGood(Main, Len(frames[Main]), Top(Main))
      /\ Len(frames[Main]) \in Nat /\ Len(frames[Main]) >= 1
  BY ThreadFacts, TopGood DEF Inv
<1>2. place \notin HandlerPlaces
        /\ place \notin {"dead", "tested", "waiting", "woken", "tested to await",
                         "awaiting", "pushing"}
  BY DEF ScriptPlaces, HandlerPlaces, KillPlaces
<1>3. Len(frames[Main]) = 1
  BY <1>1, <1>2, OwnFrame DEF At
<1>4. MainGood(place)
  BY <1>1, <1>3 DEF FrameGood, At
<1>5. Script[step] = place
  BY <1>2, <1>4 DEF MainGood, AtMain
<1>6. step \in 1..20
  BY DEF Inv, Values
<1> QED BY <1>3, <1>4, <1>5, <1>6 DEF At, MainGood

LEMMA ScriptHoldsNothing ==
  ASSUME NEW n \in 1..20, NEW m
  PROVE  ~Holds(m, Main, 1, Script[n])
<1>1. Script[n] \notin {"pushing", "tested to await", "tested", "locked"}
  BY ScriptRange DEF ScriptPlaces
<1>2. ~(1 > 1)
  OBVIOUS
<1> HIDE DEF Script
<1> QED BY <1>1, <1>2, Zenon DEF Holds

\* main() goes on to the k-th item of its script.
LEMMA MainGoes ==
  ASSUME Inv, Len(frames[Main]) = 1, NEW k \in 2..20, MainGoto(k), Keeps(Main, 1),
         installed' \/ k = 2, status' # "NOT_STARTED",
         \/ UNCHANGED mutex /\ \A m \in Mutexes : ~Holds(m, Main, 1, Top(Main).at)
         \/ \E m \in Mutexes : /\ Unlock(m) /\ Holds(m, Main, 1, Top(Main).at)
                               /\ \A j \in Mutexes \ {m} : ~Holds(j, Main, 1, Top(Main).at)
  PROVE  FramesTyped' /\ FramesGood' /\ MutexInv'
<1>2. Script[k] \in Places /\ Script[k] # "woken"
  <2>1. Script[k] \in ScriptPlaces
    BY ScriptRange
  <2>2. "woken" \notin ScriptPlaces
    BY DEF ScriptPlaces
  <2> QED BY <2>1, <2>2, ScriptPlacesOK
<1>3. PICK old \in FrameSet : old = Top(Main)
  BY TopGood, ThreadFacts DEF Inv
<1> DEFINE f == [old EXCEPT !.at = Script[k]]
<1>0. f \in FrameSet /\ f.at = Script[k]
  BY <1>2, FrameAt
<1>1. Becomes(Main, f) /\ step' = k
  BY <1>3 DEF MainGoto, Goto
<1> HIDE DEF f
<1>4. FrameGood(Main, 1, f)'
  <2>1. MainGood(f.at)'
    BY <1>1, <1>0 DEF MainGood, AtMain
  <2> QED BY <1>2, <1>0, <2>1, ThreadFacts DEF FrameGood
<1>5. \A m \in Mutexes : ~Holds(m, Main, 1, f.at)
  BY <1>0, ScriptHoldsNothing
<1>6. MutexMoves(Main, 1, Top(Main).at, f.at)
  BY <1>5 DEF MutexMoves
<1>7. FramesTyped /\ FramesGood /\ MutexInv
  BY DEF Inv
<1> QED BY <1>1, <1>0, <1>4, <1>6, <1>7, Moved, ThreadFacts

\* The items at which main() is between the start of the program and its own end,
\* and is not in wait().
RunPlaces == ScriptPlaces \ {"wait", "start", "done", "push kill"}

\* The next item, or a later one, from a place of the script; no mutex is involved.
LEMMA MainGoesOn ==
  ASSUME Inv, NEW place \in RunPlaces,
         At(Main, place), NEW k \in 2..20, MainGoto(k), Keeps(Main, 1),
         UNCHANGED <<mutex, status, installed>>
  PROVE  /\ FramesTyped' /\ FramesGood' /\ MutexInv' /\ step' = k
         /\ Script[step] = place /\ step \in 4..19
<1>1. /\ Len(frames[Main]) = 1 /\ Top(Main).at = Script[step] /\ Script[step] = place
      /\ step > 2 => installed
  BY InScript DEF RunPlaces
<1>2. step \in 1..20
  BY DEF Inv, Values
<1>3. step # 1 /\ step # 2 /\ step # 3 /\ step # 20
  BY <1>1, <1>2, ScriptStep, ScriptAt DEF RunPlaces
<1>4. step \in 4..19
  BY <1>2, <1>3
<1>5. status' # "NOT_STARTED" /\ installed'
  <2>1. status # "NOT_STARTED"
    BY <1>3 DEF Inv, Progress
  <2>2. status' = status /\ installed' = installed
    OBVIOUS
  <2>3. step > 2
    BY <1>4
  <2>4. installed
    BY <1>1, <2>3
  <2> QED BY <2>1, <2>2, <2>4
<1>6. \A m \in Mutexes : ~Holds(m, Main, 1, Top(Main).at)
  BY <1>1, <1>2, ScriptHoldsNothing
<1>7. UNCHANGED mutex
  OBVIOUS
<1>8. FramesTyped' /\ FramesGood' /\ MutexInv'
  BY <1>1, <1>5, <1>6, <1>7, MainGoes
<1>9. step' = k
  BY DEF MainGoto
<1> QED BY <1>1, <1>4, <1>8, <1>9

\* The items that Proceed stands for.
Elsewhere == {"save", "run after", "join", "stop"}

LEMMA ProceedInv ==
  ASSUME Inv, Proceed
  PROVE  Inv'
<1>1. PICK place \in Elsewhere : At(Main, place)
  BY DEF Proceed, Elsewhere
<1>2. /\ place \in RunPlaces
      /\ place \notin {"walk", "measured", "report"}
  BY DEF ScriptPlaces, RunPlaces, Elsewhere
<1>3. MainGoto(step + 1) /\ UNCHANGED <<mutex, installed, interrupted, handlers, status, child,
                                       raised, size, lost, sizeInterrupted, workDirSize, reported>>
  BY DEF Proceed, MainNext, signalVars, executorVars, mainVars, sizeVars
<1>4. Keeps(Main, 1)
  BY <1>3, KeepsOK, ThreadFacts DEF Inv
<1>5. step \in 1..20 /\ Script[step] = place
  BY <1>1, <1>2, InScript DEF Inv, Values, RunPlaces
<1>6. step # 20 /\ step # 7 /\ step # 8 /\ step # 10
  BY <1>2, <1>5, ScriptStep DEF RunPlaces
<1>7. step + 1 \in 2..20
  BY <1>5, <1>6
<1>8. FramesTyped' /\ FramesGood' /\ MutexInv' /\ step' = step + 1 /\ step \in 4..19
  BY <1>1, <1>2, <1>3, <1>4, <1>7, MainGoesOn
<1>9. Values'
  BY <1>3, <1>7, <1>8 DEF Inv, Values
<1>10. Progress'
  BY <1>3, <1>6, <1>8 DEF Inv, Progress
<1> QED BY <1>8, <1>9, <1>10 DEF Inv

\* What main() does alone, and the place it leaves.
LEMMA MainGoesOnOne ==
  ASSUME Inv, NEW place \in RunPlaces, At(Main, place), NEW k \in 2..20, MainGoto(k),
         UNCHANGED <<mutex, installed, interrupted, handlers, status>>
  PROVE  /\ FramesTyped' /\ FramesGood' /\ MutexInv' /\ step' = k
         /\ Script[step] = place /\ step \in 4..19
<1>1. Keeps(Main, 1)
  BY KeepsOK, ThreadFacts DEF Inv
<1> QED BY <1>1, MainGoesOn

\* What the walk adds and drops.
LEMMA WalkInv ==
  ASSUME Inv, WalkOn \/ WalkFails
  PROVE  Inv'
<1>1. /\ UNCHANGED <<frames, step, mutex, installed, interrupted, handlers, status, child, raised,
                     sizeInterrupted, workDirSize, reported>>
      /\ At(Main, "walk")
  BY DEF WalkOn, WalkFails, signalVars, executorVars
<1>2. size' \in Nat /\ lost' \in Nat /\ size' + lost' <= Entries
  <2>1. size \in Nat /\ lost \in Nat /\ size + lost <= Entries /\ Entries \in Nat
    BY InputAssumption DEF Inv, Values
  <2>2. CASE WalkOn
    BY <2>1, <2>2 DEF WalkOn
  <2>3. CASE WalkFails
    <3>1. PICK counted \in 0..size, others \in 1..(Entries - size - lost) :
            size' = size - counted /\ lost' = lost + counted + others
      BY <2>3 DEF WalkFails
    <3> QED BY <2>1, <3>1
  <2> QED BY <2>2, <2>3
<1>3. Values'
  BY <1>1, <1>2 DEF Inv, Values
<1>4. step = 7
  <2>1. "walk" \in ScriptPlaces \ {"wait"}
    BY DEF ScriptPlaces
  <2>2. Script[step] = "walk" /\ step \in 1..20
    BY <1>1, <2>1, InScript DEF Inv, Values
  <2> QED BY <2>2, ScriptStep
<1>5. Progress'
  BY <1>1, <1>4 DEF Inv, Progress
<1>6. FramesTyped' /\ FramesGood' /\ MutexInv'
  BY <1>1, Unmoved DEF Inv
<1> QED BY <1>3, <1>5, <1>6 DEF Inv

LEMMA WalkEndsInv ==
  ASSUME Inv, WalkEnds
  PROVE  Inv'
<1>1. /\ MainGoto(step + 1) /\ At(Main, "walk")
      /\ UNCHANGED <<mutex, installed, interrupted, handlers, status, child, raised, size, lost,
                     sizeInterrupted, workDirSize, reported>>
  BY DEF WalkEnds, MainNext, signalVars, executorVars, mainVars, sizeVars
<1>2. size + lost = Entries \/ sizeInterrupted
  BY DEF WalkEnds
<1>3. "walk" \in RunPlaces
  BY DEF ScriptPlaces, RunPlaces
<1>4. step = 7
  <2>1. Script[step] = "walk" /\ step \in 1..20
    BY <1>1, <1>3, InScript DEF Inv, Values, RunPlaces
  <2> QED BY <2>1, ScriptStep
<1>5. FramesTyped' /\ FramesGood' /\ MutexInv' /\ step' = 8
  BY <1>1, <1>3, <1>4, MainGoesOnOne
<1>6. Values'
  BY <1>1, <1>5 DEF Inv, Values
<1>7. Progress'
  BY <1>1, <1>2, <1>4, <1>5 DEF Inv, Progress
<1> QED BY <1>5, <1>6, <1>7 DEF Inv

LEMMA KeepSizeInv ==
  ASSUME Inv, KeepSize
  PROVE  Inv'
<1>1. /\ MainGoto(step + 1) /\ At(Main, "measured")
      /\ UNCHANGED <<mutex, installed, interrupted, handlers, status, child, raised, size, lost,
                     sizeInterrupted, reported>>
      /\ workDirSize' = Measured
  BY DEF KeepSize, MainNext, signalVars, executorVars
<1>2. "measured" \in RunPlaces
  BY DEF ScriptPlaces, RunPlaces
<1>3. step = 8
  <2>1. Script[step] = "measured" /\ step \in 1..20
    BY <1>1, <1>2, InScript DEF Inv, Values, RunPlaces
  <2> QED BY <2>1, ScriptStep
<1>4. FramesTyped' /\ FramesGood' /\ MutexInv' /\ step' = 9
  BY <1>1, <1>2, <1>3, MainGoesOnOne
<1>5. Values'
  BY <1>1, <1>4, InputAssumption DEF Inv, Values, Measured
<1>6. size + lost = Entries \/ sizeInterrupted
  BY <1>3 DEF Inv, Progress
<1>7. workDirSize' = Entries - lost \/ (workDirSize' = -1 /\ interrupted)
  <2>1. size \in Nat /\ lost \in Nat /\ Entries \in Nat
    BY InputAssumption DEF Inv, Values
  <2>2. size + lost = Entries => size = Entries - lost
    BY <2>1
  <2> QED BY <1>1, <1>6, <2>2 DEF Inv, Progress, Measured
<1>8. Progress'
  BY <1>1, <1>3, <1>4, <1>7 DEF Inv, Progress
<1> QED BY <1>4, <1>5, <1>8 DEF Inv

LEMMA ReportInv ==
  ASSUME Inv, Report
  PROVE  Inv'
<1>1. /\ MainGoto(step + 1) /\ At(Main, "report")
      /\ UNCHANGED <<mutex, installed, interrupted, handlers, status, child, raised, size, lost,
                     sizeInterrupted, workDirSize>>
      /\ reported' = status
  BY DEF Report, MainNext, signalVars, executorVars, sizeVars
<1>2. "report" \in RunPlaces
  BY DEF ScriptPlaces, RunPlaces
<1>3. step = 10
  <2>1. Script[step] = "report" /\ step \in 1..20
    BY <1>1, <1>2, InScript DEF Inv, Values, RunPlaces
  <2> QED BY <2>1, ScriptStep
<1>4. FramesTyped' /\ FramesGood' /\ MutexInv' /\ step' = 11
  BY <1>1, <1>2, <1>3, MainGoesOnOne
<1>5. status \in {"EXITED", "CANNOT_KILL"}
  BY <1>3 DEF Inv, Values, Progress
<1>6. Values'
  BY <1>1, <1>4, <1>5 DEF Inv, Values
<1>7. Progress'
  BY <1>1, <1>3, <1>4, <1>5 DEF Inv, Progress
<1> QED BY <1>4, <1>6, <1>7 DEF Inv

LEMMA TestNoExitInv ==
  ASSUME Inv, TestNoExit
  PROVE  Inv'
<1>1. UNCHANGED <<mutex, installed, interrupted, handlers, status, child, raised, size, lost,
                  sizeInterrupted, workDirSize, reported>>
  BY DEF TestNoExit, signalVars, executorVars, mainVars, sizeVars
<1>2. MainGoto(step + 1) \/ MainGoto(19)
  <2>1. Len(Script) = 20
    BY ScriptAt
  <2>2. Len(Script) - 1 = 19
    BY <2>1
  <2>3. MainNext \/ MainGoto(19)
    BY <2>2 DEF TestNoExit
  <2> QED BY <2>3 DEF MainNext
<1>3. PICK place : place = "no exit"
  OBVIOUS
<1>4. place \in RunPlaces /\ At(Main, place)
  BY <1>3 DEF ScriptPlaces, RunPlaces, TestNoExit
<1>5. step = 15
  <2>1. Script[step] = place /\ step \in 1..20
    BY <1>4, InScript DEF Inv, Values, RunPlaces
  <2> QED BY <1>3, <2>1, ScriptStep
<1>6. FramesTyped' /\ FramesGood' /\ MutexInv' /\ (step' = 16 \/ step' = 19)
  <2>1. CASE MainGoto(step + 1)
    <3>1. MainGoto(16)
      BY <1>5, <2>1
    <3> QED BY <1>1, <1>4, <3>1, MainGoesOnOne
  <2>2. CASE MainGoto(19)
    BY <1>1, <1>4, <2>2, MainGoesOnOne
  <2> QED BY <1>2, <2>1, <2>2
<1>7. Values'
  BY <1>1, <1>6 DEF Inv, Values
<1>8. Progress'
  BY <1>1, <1>5, <1>6 DEF Inv, Progress
<1> QED BY <1>6, <1>7, <1>8 DEF Inv

\* While main() pops, no thread is inside notify().
LEMMA NoneInside ==
  ASSUME Inv, mutex["signal"].by \in {"none", Main}, Len(frames[Main]) = 1,
         ~Holds("signal", Main, 1, frames[Main][1].at),
         NEW t \in Threads, NEW i \in 2..Len(frames[t])
  PROVE  frames[t][i].at = "notify"
<1>1. "signal" \in Mutexes
  BY DEF Mutexes
<1>2. Cardinality(Held("signal", t)) = 0
  <2>1. Cardinality(Held("signal", Main)) = 0
    <3>1. Held("signal", Main) = {}
      BY DEF Held
    <3> QED BY <3>1, FS_EmptySet
  <2>2. CASE t = Main
    BY <2>1, <2>2
  <2>3. CASE t # Main
    <3>1. mutex["signal"].by # t
      BY <2>3, ThreadFacts
    <3> QED BY <1>1, <3>1 DEF Inv, MutexInv, MutexCounts
  <2> QED BY <2>2, <2>3
<1>3. Held("signal", t) = {}
  BY <1>2, HeldFinite, FS_EmptySet DEF Inv
<1>4. i \in 1..Len(frames[t]) /\ i > 1
  BY DEF Inv, FramesTyped
<1>5. ~Holds("signal", t, i, frames[t][i].at)
  BY <1>3, <1>4 DEF Held
<1> QED BY <1>4, <1>5 DEF Holds

LEMMA PopInv ==
  ASSUME Inv, Pop
  PROVE  Inv'
<1>1. UNCHANGED <<mutex, installed, interrupted, status, child, raised, size, lost,
                  sizeInterrupted, workDirSize, reported>>
  BY DEF Pop, signalVars, executorVars, mainVars, sizeVars
<1>2. MainGoto(step + 1)
  BY DEF Pop, MainNext
<1>3. "pop" \in RunPlaces /\ At(Main, "pop")
  BY DEF ScriptPlaces, RunPlaces, Pop
<1>4. /\ Len(frames[Main]) = 1 /\ Top(Main).at = Script[step]
      /\ Script[step] = "pop" /\ step \in 1..20
  BY <1>3, InScript DEF Inv, Values, RunPlaces
<1>5. step # 20 /\ step # 1 /\ step # 2 /\ step # 3 /\ step # 7 /\ step # 8 /\ step # 10
  BY <1>4, ScriptAt
<1>6. step + 1 \in 2..20 /\ step \in 4..19
  BY <1>4, <1>5
<1>7. \A t \in Threads : \A i \in 2..Len(frames[t]) : frames[t][i].at = "notify"
  <2>1. mutex["signal"].by \in {"none", Main}
    BY DEF Pop, CanLock
  <2>2. ~Holds("signal", Main, 1, frames[Main][1].at)
    BY <1>4, ScriptHoldsNothing DEF Top
  <2> QED BY <1>4, <2>1, <2>2, NoneInside
<1>8. Len(handlers') \in Nat /\ handlers' \in Seq(DOMAIN Pushes)
  BY DEF Pop, Inv, Values
<1>9. Keeps(Main, 1)
  <2> SUFFICES ASSUME NEW u \in Threads, NEW i \in 1..Len(frames[u]), NEW g \in FrameSet,
                      u # Main \/ i # 1, g = frames[u][i], FrameGood(u, i, g)
               PROVE  FrameGood(u, i, g)'
    BY DEF Keeps
  <2>1. Len(frames[u]) \in Nat
    BY DEF Inv, FramesTyped
  <2>2. i > 1 => HandlerGood(g)'
    <3>1. ASSUME i > 1 PROVE g.at = "notify" /\ g.left = 0
      <4>1. i \in 2..Len(frames[u])
        BY <2>1, <3>1
      <4>2. g.at = "notify"
        BY <1>7, <4>1
      <4> QED BY <3>1, <4>2 DEF FrameGood, HandlerGood
    <3>2. "notify" \in HandlerPlaces /\ "notify" \notin KillPlaces \cup {"kill"}
      BY DEF HandlerPlaces, KillPlaces
    <3> QED BY <1>8, <3>1, <3>2 DEF HandlerGood
  <2>3. ~(i = 1 /\ u = Main)
    OBVIOUS
  <2>4. i = 1 /\ u = Reaper => ReaperGood(g.at)'
    BY <1>1 DEF FrameGood, ReaperGood
  <2>5. /\ g.at \in KillPlaces => status' # "NOT_STARTED" \/ (u = Main /\ i = 1)
        /\ g.at = "woken" => status' # "RUNNING" \/ (u = Main /\ i = 1 /\ step' = 17)
    BY <1>1, <2>3 DEF FrameGood
  <2> QED BY <2>2, <2>3, <2>4, <2>5 DEF FrameGood
<1>10. FramesTyped' /\ FramesGood' /\ MutexInv' /\ step' = step + 1
  BY <1>1, <1>2, <1>3, <1>6, <1>9, MainGoesOn
<1>11. Values'
  BY <1>1, <1>6, <1>8, <1>10 DEF Inv, Values
<1>12. Progress'
  BY <1>1, <1>5, <1>6, <1>10 DEF Inv, Progress
<1> QED BY <1>10, <1>11, <1>12 DEF Inv

\* main() goes to a place inside an item of its script.
Inside == {"pushing", "tested to await", "awaiting", "tested", "waiting"}

LEMMA MainGoesInside ==
  ASSUME Inv, Len(frames[Main]) = 1, NEW place \in Inside, Goto(Main, place),
         UNCHANGED <<step, handlers, status, interrupted>>, AtMain(place), installed',
         MutexMoves(Main, 1, Top(Main).at, place)
  PROVE  FramesTyped' /\ FramesGood' /\ MutexInv'
<1>1. place \in Places /\ place # "woken"
  BY DEF Inside, Places, KillPlaces
<1>2. PICK old \in FrameSet : old = Top(Main)
  BY TopGood, ThreadFacts DEF Inv
<1> DEFINE f == [old EXCEPT !.at = place]
<1>3. f \in FrameSet /\ f.at = place
  BY <1>1, FrameAt
<1>4. Becomes(Main, f)
  BY <1>2 DEF Goto
<1> HIDE DEF f
<1>5. FrameGood(Main, 1, f)'
  <2>1. MainGood(place)'
    BY DEF MainGood, AtMain
  <2> QED BY <1>1, <1>3, <2>1, ThreadFacts DEF FrameGood
<1>6. Keeps(Main, 1)
  BY KeepsOK, ThreadFacts DEF Inv
<1>7. FramesTyped /\ FramesGood /\ MutexInv
  BY DEF Inv
<1> QED BY <1>3, <1>4, <1>5, <1>6, <1>7, Moved, ThreadFacts

LEMMA MainHolds ==
  /\ \A m : Holds(m, Main, 1, "pushing") <=> m = "signal"
  /\ \A m : Holds(m, Main, 1, "tested to await") <=> m = "signal"
  /\ \A m : Holds(m, Main, 1, "tested") <=> m = "wait"
  /\ \A m : ~Holds(m, Main, 1, "awaiting")
  /\ \A m : ~Holds(m, Main, 1, "waiting")
  /\ \A m : ~Holds(m, Main, 1, "woken")
<1>1. ~(1 > 1)
  OBVIOUS
<1> QED BY <1>1 DEF Holds

LEMMA AwaitInv ==
  ASSUME Inv, Await
  PROVE  Inv'
<1>1. UNCHANGED <<installed, interrupted, handlers, status, child, raised, size, lost,
                  sizeInterrupted, workDirSize, reported>>
  BY DEF Await, signalVars, executorVars, mainVars, sizeVars
<1>2. "await" \in RunPlaces /\ At(Main, "await")
  BY DEF ScriptPlaces, RunPlaces, Await
<1>3. /\ Len(frames[Main]) = 1 /\ Top(Main).at = Script[step]
      /\ Script[step] = "await" /\ step \in 1..20 /\ (step > 2 => installed)
  BY <1>2, InScript DEF Inv, Values, RunPlaces
<1>4. step = 17
  BY <1>3, ScriptStep
<1>5. CASE interrupted
  <2>1. UNCHANGED mutex /\ MainGoto(18)
    BY <1>4, <1>5 DEF Await, MainNext
  <2>2. FramesTyped' /\ FramesGood' /\ MutexInv' /\ step' = 18
    BY <1>1, <1>2, <2>1, MainGoesOnOne
  <2>3. Values'
    BY <1>1, <2>2 DEF Inv, Values
  <2>4. Progress'
    BY <1>1, <1>4, <2>2 DEF Inv, Progress
  <2> QED BY <2>2, <2>3, <2>4 DEF Inv
<1>6. CASE ~interrupted
  <2>1. Lock("signal", Main) /\ Goto(Main, "tested to await") /\ UNCHANGED step
    BY <1>6 DEF Await
  <2>2. MutexMoves(Main, 1, Top(Main).at, "tested to await")
    <3>1. "signal" \in Mutexes
      BY DEF Mutexes
    <3>2. \A m \in Mutexes : ~Holds(m, Main, 1, Top(Main).at)
      BY <1>3, ScriptHoldsNothing
    <3> QED BY <2>1, <3>1, <3>2, MainHolds DEF MutexMoves
  <2>3. "tested to await" \in Inside /\ AtMain("tested to await") /\ installed'
    BY <1>1, <1>3, <1>4 DEF Inside, AtMain
  <2>4. FramesTyped' /\ FramesGood' /\ MutexInv'
    BY <1>1, <1>3, <2>1, <2>2, <2>3, MainGoesInside
  <2>5. Values' /\ Progress'
    BY <1>1, <2>1, SameValues
  <2> QED BY <2>4, <2>5 DEF Inv
<1> QED BY <1>5, <1>6

\* Where main() is, when it is inside an item of its script.
LEMMA MainInside ==
  ASSUME Inv, NEW place \in {"pushing", "tested to await", "awaiting"}, At(Main, place)
  PROVE  /\ Len(frames[Main]) = 1 /\ Top(Main).at = place
         /\ installed /\ AtMain(place)
         /\ place = "pushing" => step \in {2, 6, 12, 16}
         /\ place # "pushing" => step = 17
<1>1. /\ FrameGood(Main, Len(frames[Main]), Top(Main))
      /\ Len(frames[Main]) \in Nat /\ Len(frames[Main]) >= 1
  BY ThreadFacts, TopGood DEF Inv
<1>2. place \notin HandlerPlaces /\ place \notin ScriptPlaces
        /\ place \notin {"dead", "tested", "waiting", "woken"}
  BY DEF ScriptPlaces, HandlerPlaces, KillPlaces
<1>3. Len(frames[Main]) = 1
  BY <1>1, <1>2, OwnFrame DEF At
<1>4. MainGood(place)
  BY <1>1, <1>3 DEF FrameGood, At
<1>5. step \in 1..20
  BY DEF Inv, Values
<1>6. Script[step] # place
  BY <1>2, <1>5, ScriptRange
<1>7. installed
  BY <1>2, <1>4, <1>6 DEF MainGood
<1>8. AtMain(place)
  BY <1>4 DEF MainGood
<1>9. /\ place = "pushing" => step \in {2, 6, 12, 16}
      /\ place # "pushing" => step = 17
  BY <1>2, <1>6, <1>8 DEF AtMain
<1> QED BY <1>3, <1>7, <1>8, <1>9 DEF At

LEMMA AwaitSleepsInv ==
  ASSUME Inv, AwaitSleeps
  PROVE  Inv'
<1>1. UNCHANGED <<step, installed, interrupted, handlers, status, child, raised, size, lost,
                  sizeInterrupted, workDirSize, reported>>
  BY DEF AwaitSleeps, signalVars, executorVars, mainVars, sizeVars
<1>2. At(Main, "tested to await") /\ Goto(Main, "awaiting") /\ Unlock("signal")
  BY DEF AwaitSleeps
<1>3. Len(frames[Main]) = 1 /\ Top(Main).at = "tested to await" /\ installed /\ step = 17
  BY <1>2, MainInside
<1>4. MutexMoves(Main, 1, Top(Main).at, "awaiting")
  <2>1. "signal" \in Mutexes
    BY DEF Mutexes
  <2> QED BY <1>2, <1>3, <2>1, MainHolds DEF MutexMoves
<1>5. "awaiting" \in Inside /\ AtMain("awaiting") /\ installed'
  BY <1>1, <1>3 DEF Inside, AtMain
<1>6. FramesTyped' /\ FramesGood' /\ MutexInv'
  BY <1>1, <1>2, <1>3, <1>4, <1>5, MainGoesInside
<1>7. Values' /\ Progress'
  BY <1>1, SameValues
<1> QED BY <1>6, <1>7 DEF Inv

LEMMA AwaitReturnsInv ==
  ASSUME Inv, AwaitReturns
  PROVE  Inv'
<1>1. UNCHANGED <<mutex, installed, interrupted, handlers, status, child, raised, size, lost,
                  sizeInterrupted, workDirSize, reported>>
  BY DEF AwaitReturns, signalVars, executorVars, mainVars, sizeVars
<1>2. At(Main, "woken") /\ InMain(Main) /\ Script[step] = "await" /\ MainGoto(step + 1)
  BY DEF AwaitReturns, MainNext
<1>3. FrameGood(Main, Len(frames[Main]), Top(Main)) /\ Len(frames[Main]) = 1
  <2>1. FrameGood(Main, Len(frames[Main]), Top(Main))
    BY ThreadFacts, TopGood DEF Inv
  <2>2. FramesTyped
    BY DEF Inv
  <2>3. Len(frames[Main]) = 1
    BY <1>2, <2>2, InMainAlone, ThreadFacts
  <2> QED BY <2>1, <2>3
<1>4. step \in 1..20
  BY DEF Inv, Values
<1>5. step = 17
  BY <1>2, <1>4, ScriptStep
<1>6. MainGood("woken")
  BY <1>2, <1>3 DEF FrameGood, At
<1>7. installed /\ status # "NOT_STARTED"
  <2>1. installed
    BY <1>2, <1>6 DEF MainGood
  <2>2. status # "NOT_STARTED"
    BY <1>5 DEF Inv, Progress
  <2> QED BY <2>1, <2>2
<1>8. Keeps(Main, 1)
  BY <1>1, KeepsOK, ThreadFacts DEF Inv
<1>9. \A m \in Mutexes : ~Holds(m, Main, 1, Top(Main).at)
  BY <1>2, MainHolds DEF At
<1>10. MainGoto(18)
  BY <1>2, <1>5
<1>11. installed' /\ status' # "NOT_STARTED" /\ UNCHANGED mutex
  BY <1>1, <1>7
<1>12. FramesTyped' /\ FramesGood' /\ MutexInv'
  BY <1>3, <1>8, <1>9, <1>10, <1>11, MainGoes
<1>13. step' = 18
  BY <1>10 DEF MainGoto
<1>14. Values'
  BY <1>1, <1>13 DEF Inv, Values
<1>15. Progress'
  BY <1>1, <1>5, <1>13 DEF Inv, Progress
<1> QED BY <1>12, <1>14, <1>15 DEF Inv

LEMMA PushesAt ==
  ASSUME NEW h \in DOMAIN Pushes
  PROVE  Pushes[h] \in {"push kill", "push size", "push persist", "push exit"}
<1>1. DOMAIN Pushes = {"kill", "size", "persist", "exit"}
  BY DEF Pushes
<1>2. /\ Pushes["kill"] = "push kill" /\ Pushes["size"] = "push size"
      /\ Pushes["persist"] = "push persist" /\ Pushes["exit"] = "push exit"
  BY DEF Pushes
<1> QED BY <1>1, <1>2

LEMMA PushInstallsInv ==
  ASSUME Inv, NEW h \in DOMAIN Pushes, PushInstalls(h)
  PROVE  Inv'
<1>1. UNCHANGED <<step, interrupted, handlers, status, child, raised, size, lost,
                  sizeInterrupted, workDirSize, reported>> /\ installed' = TRUE
  BY DEF PushInstalls, signalVars, executorVars, mainVars, sizeVars
<1>2. At(Main, Pushes[h]) /\ Goto(Main, "pushing") /\ Lock("signal", Main)
  BY DEF PushInstalls
<1>3. Pushes[h] \in {"push kill", "push size", "push persist", "push exit"}
  BY PushesAt
<1>4. PICK place : place = Pushes[h] /\ place \in ScriptPlaces \ {"wait"}
  BY <1>3 DEF ScriptPlaces
<1>5. Len(frames[Main]) = 1 /\ Top(Main).at = Script[step] /\ Script[step] = place
  BY <1>2, <1>4, InScript
<1>6. step \in 1..20
  BY DEF Inv, Values
<1>7. step \in {2, 6, 12, 16}
  <2>1. Script[step] \in {"push kill", "push size", "push persist", "push exit"}
    BY <1>3, <1>4, <1>5
  <2> QED BY <1>6, <2>1, ScriptStep
<1>8. MutexMoves(Main, 1, Top(Main).at, "pushing")
  <2>1. "signal" \in Mutexes
    BY DEF Mutexes
  <2>2. \A m \in Mutexes : ~Holds(m, Main, 1, Top(Main).at)
    BY <1>5, <1>6, ScriptHoldsNothing
  <2> QED BY <1>2, <2>1, <2>2, MainHolds DEF MutexMoves
<1>9. "pushing" \in Inside /\ AtMain("pushing") /\ installed'
  BY <1>1, <1>7 DEF Inside, AtMain
<1>10. FramesTyped' /\ FramesGood' /\ MutexInv'
  BY <1>1, <1>2, <1>5, <1>8, <1>9, MainGoesInside
<1>11. Values'
  BY <1>1 DEF Inv, Values
<1>12. Progress'
  BY <1>1 DEF Inv, Progress
<1> QED BY <1>10, <1>11, <1>12 DEF Inv

LEMMA PushAppendsInv ==
  ASSUME Inv, NEW h \in DOMAIN Pushes, PushAppends(h)
  PROVE  Inv'
<1>1. UNCHANGED <<installed, interrupted, status, child, raised, size, lost,
                  sizeInterrupted, workDirSize, reported>>
  BY DEF PushAppends, executorVars, mainVars, sizeVars
<1>2. /\ At(Main, "pushing") /\ Unlock("signal") /\ MainGoto(step + 1)
      /\ handlers' = Append(handlers, h)
  BY DEF PushAppends, MainNext
<1>3. Len(frames[Main]) = 1 /\ Top(Main).at = "pushing" /\ installed /\ step \in {2, 6, 12, 16}
  BY <1>2, MainInside
<1>4. step = 2 \/ step = 6 \/ step = 12 \/ step = 16
  BY <1>3
<1>5. status # "NOT_STARTED"
  BY <1>4 DEF Inv, Progress
<1>6. Keeps(Main, 1)
  BY <1>1, <1>2, KeepsOK, ThreadFacts DEF Inv
<1>7. installed' /\ status' # "NOT_STARTED" /\ step + 1 \in 2..20
  BY <1>1, <1>3, <1>4, <1>5
<1>8. \E m \in Mutexes : /\ Unlock(m) /\ Holds(m, Main, 1, Top(Main).at)
                         /\ \A j \in Mutexes \ {m} : ~Holds(j, Main, 1, Top(Main).at)
  <2>1. "signal" \in Mutexes
    BY DEF Mutexes
  <2> QED BY <1>2, <1>3, <2>1, MainHolds
<1>9. FramesTyped' /\ FramesGood' /\ MutexInv'
  BY <1>2, <1>3, <1>6, <1>7, <1>8, MainGoes
<1>10. step' = step + 1
  BY <1>2 DEF MainGoto
<1>11. Values'
  <2>1. handlers' \in Seq(DOMAIN Pushes)
    BY <1>2 DEF Inv, Values
  <2> QED BY <1>1, <1>7, <1>10, <2>1 DEF Inv, Values
<1>12. Progress'
  BY <1>1, <1>4, <1>10 DEF Inv, Progress
<1> QED BY <1>9, <1>11, <1>12 DEF Inv

LEMMA StartInv ==
  ASSUME Inv, Start
  PROVE  Inv'
<1>1. UNCHANGED <<mutex, installed, interrupted, handlers, raised, size, lost,
                  sizeInterrupted, workDirSize, reported>>
      /\ status' = "RUNNING" /\ child' = "alive" /\ step' = 2
  BY DEF Start, signalVars, mainVars, sizeVars
<1>2. At(Main, "start") /\ "start" \in ScriptPlaces \ {"wait"}
  BY DEF Start, ScriptPlaces
<1>3. Len(frames[Main]) = 1 /\ Top(Main).at = Script[step] /\ Script[step] = "start"
      /\ step \in 1..20
  BY <1>2, InScript DEF Inv, Values
<1>4. step = 1 /\ status = "NOT_STARTED"
  <2>1. step = 1
    BY <1>3, ScriptStep
  <2> QED BY <2>1 DEF Inv, Progress
<1>5. PICK old \in FrameSet, idle \in FrameSet : old = frames[Main][1] /\ idle = frames[Reaper][1]
  BY ThreadFacts DEF Inv, FramesTyped
<1>6. PICK f \in FrameSet, g \in FrameSet :
        /\ f = [old EXCEPT !.at = Script[2]] /\ f.at = "push kill"
        /\ g = [idle EXCEPT !.at = "waitpid"] /\ g.at = "waitpid"
  <2>1. Script[2] = "push kill"
    BY ScriptAt
  <2>2. Script[2] \in Places
    BY ScriptRange, ScriptPlacesOK
  <2>3. "waitpid" \in Places
    BY DEF Places
  <2>4. [old EXCEPT !.at = Script[2]] \in FrameSet /\ [old EXCEPT !.at = Script[2]].at = "push kill"
    BY <2>1, <2>2, FrameAt
  <2>5. [idle EXCEPT !.at = "waitpid"] \in FrameSet /\ [idle EXCEPT !.at = "waitpid"].at = "waitpid"
    BY <2>3, FrameAt
  <2> QED BY <2>4, <2>5
<1>7. PICK gs : gs = frames'
  OBVIOUS
<1>8. gs = [[frames EXCEPT ![Main][1] = f] EXCEPT ![Reaper][1] = g]
  BY <1>5, <1>6, <1>7, ThreadFacts DEF Start, Inv, FramesTyped
<1>9. f.at = "push kill" /\ g.at = "waitpid"
  BY <1>6
<1>10. /\ gs \in [Threads -> Seq(FrameSet)]
       /\ \A u \in Threads : Len(gs[u]) = Len(frames[u])
       /\ gs[Main][1] = f /\ gs[Reaper][1] = g
       /\ \A u \in Threads : \A i \in 1..Len(frames[u]) :
            i # 1 \/ u \in Http => gs[u][i] = frames[u][i]
  <2>1. Http \cap {Main, Reaper} = {} /\ Reaper # Main
    BY ThreadFacts
  <2>2. frames \in [Threads -> Seq(FrameSet)] /\ frames[Main] # <<>> /\ frames[Reaper] # <<>>
    BY ThreadFacts DEF Inv, FramesTyped
  <2>3. ReplacedTwo(frames, Main, Reaper, f, g, gs)
    <3>1. PICK hs : Replaces(frames, Main, 1, f, hs)
      BY DEF Replaces
    <3>2. Replaces(hs, Reaper, 1, g, gs)
      BY <1>8, <3>1 DEF Replaces
    <3> QED BY <2>1, <2>2, <3>1, <3>2, ReplacesTwo, ThreadFacts
  <2> QED BY <2>1, <2>3 DEF ReplacedTwo
<1>11. FrameGood(Reaper, 1, idle) /\ idle.at = "none"
  <2>1. FrameGood(Reaper, 1, idle)
    BY <1>5, ThreadFacts DEF Inv, FramesTyped, FramesGood
  <2> QED BY <1>4, <2>1, ThreadFacts DEF FrameGood, ReaperGood
<1>12. ASSUME NEW u \in Threads, NEW i \in 1..Len(frames[u])
       PROVE  FrameGood(u, i, frames[u][i])'
  <2>1. CASE u = Main /\ i = 1
    <3>1. MainGood("push kill")'
      <4>1. Script[step'] = "push kill"
        BY <1>1, ScriptAt
      <4>2. AtMain("push kill")'
        BY <4>1 DEF AtMain
      <4>3. step' <= 2
        BY <1>1
      <4> QED BY <4>1, <4>2, <4>3 DEF MainGood
    <3>2. "push kill" \notin KillPlaces /\ "push kill" # "woken"
      BY DEF KillPlaces
    <3>3. FrameGood(Main, 1, f)'
      BY <1>9, <3>1, <3>2, MainFrame
    <3>4. frames'[u][i] = f
      BY <1>7, <1>10, <2>1
    <3> QED BY <2>1, <3>3, <3>4
  <2>2. CASE u = Reaper /\ i = 1
    <3>1. "waitpid" \notin KillPlaces
      BY DEF KillPlaces
    <3>2. ReaperGood("waitpid")'
      BY <1>1 DEF ReaperGood
    <3>3. FrameGood(Reaper, 1, g)'
      BY <1>9, <3>1, <3>2, ReaperFrame
    <3>4. frames'[u][i] = g
      BY <1>7, <1>10, <2>2
    <3> QED BY <2>2, <3>3, <3>4
  <2>3. CASE i # 1 \/ u \in Http
    <3>1. PICK e \in FrameSet : e = frames[u][i]
      BY DEF Inv, FramesTyped
    <3>2. FrameGood(u, i, e)
      BY <3>1 DEF Inv, FramesGood
    <3>3. ~(u = Main /\ i = 1) /\ ~(u = Reaper /\ i = 1) /\ ~(u = Main /\ i = 1 /\ step' = 17)
      BY <2>3, ThreadFacts
    <3>4. e.at \notin KillPlaces
      BY <1>4, <3>2, <3>3 DEF FrameGood
    <3>5. e.at # "woken"
      BY <3>4 DEF KillPlaces
    <3>6. FrameGood(u, i, e)'
      BY <1>1, <3>2, <3>3, <3>4, <3>5 DEF FrameGood, HandlerGood
    <3>7. frames'[u][i] = e
      BY <1>7, <1>10, <2>3, <3>1
    <3> QED BY <3>6, <3>7
  <2> QED BY <2>1, <2>2, <2>3 DEF Threads
<1>13. \A m : ~Holds(m, Main, 1, "push kill") /\ ~Holds(m, Reaper, 1, "waitpid")
              /\ ~Holds(m, Reaper, 1, "none") /\ ~Holds(m, Main, 1, "start")
  <2>1. ~(1 > 1)
    OBVIOUS
  <2> QED BY <2>1, ThreadFacts DEF Holds, KillPlaces
<1>14. MutexMoves(Main, 1, frames[Main][1].at, gs[Main][1].at)
  BY <1>1, <1>3, <1>9, <1>10, <1>13 DEF MutexMoves, Top
<1>15. \A u \in Threads : \A i \in 1..Len(frames[u]) : \A m \in Mutexes :
         u # Main \/ i # 1 => (Holds(m, u, i, gs[u][i].at) <=> Holds(m, u, i, frames[u][i].at))
  <2> SUFFICES ASSUME NEW u \in Threads, NEW i \in 1..Len(frames[u]), NEW m \in Mutexes,
                      u # Main \/ i # 1
               PROVE  Holds(m, u, i, gs[u][i].at) <=> Holds(m, u, i, frames[u][i].at)
    OBVIOUS
  <2>1. CASE u = Reaper /\ i = 1
    BY <1>5, <1>9, <1>10, <1>11, <1>13, <2>1
  <2>2. CASE i # 1 \/ u \in Http
    BY <1>10, <2>2
  <2> QED BY <2>1, <2>2 DEF Threads
<1>16. FramesTyped' /\ FramesGood' /\ MutexInv'
  <2>1. 1 \in 1..Len(frames[Main])
    BY <1>3
  <2> QED BY <1>7, <1>10, <1>12, <1>14, <1>15, <2>1, MovedAll, ThreadFacts DEF Inv
<1>17. Values'
  BY <1>1 DEF Inv, Values
<1>18. Progress'
  BY <1>1, <1>4 DEF Inv, Progress
<1> QED BY <1>16, <1>17, <1>18 DEF Inv

-------------------------------------------------------------------------------
(* kill(), called by a handler or for a request. *)

CallPlaces == KillPlaces \cup {"kill"}

\* Thread t is in kill(), and the frame that is has a caller.
Calling(t) == ~InMain(t) /\ Top(t).at \in CallPlaces

LEMMA CallFacts ==
  ASSUME Inv, NEW t \in Threads, Calling(t)
  PROVE  /\ Top(t) \in FrameSet
         /\ Len(frames[t]) \in Nat /\ Len(frames[t]) >= 1
         /\ ~(t = Main /\ Len(frames[t]) = 1)
         /\ Len(frames[t]) = 1 => t \in Http
         /\ Len(frames[t]) > 1 => HandlerGood(Top(t))
         /\ FrameGood(t, Len(frames[t]), Top(t))
<1>1. /\ FrameGood(t, Len(frames[t]), Top(t)) /\ Top(t) \in FrameSet
      /\ Len(frames[t]) \in Nat /\ Len(frames[t]) >= 1
  BY TopGood DEF Inv
<1>2. ~(t = Main /\ Len(frames[t]) = 1)
  BY InMainAlone DEF Inv, Calling
<1>3. Len(frames[t]) = 1 => t # Reaper
  <2>1. ~ReaperGood(Top(t).at)
    BY DEF Calling, CallPlaces, KillPlaces, ReaperGood
  <2> QED BY <1>1, <2>1 DEF FrameGood
<1> QED BY <1>1, <1>2, <1>3 DEF FrameGood, Threads

\* A frame at this place has locked the mutex of kill(), or that of wait().
InKill(p) == p \in KillPlaces \ {"lock kill"}
InWait(p) == p \in {"tested", "locked"}

LEMMA CallHolds ==
  ASSUME NEW t, NEW n, ~(t = Main /\ n = 1), NEW p, p # "notify"
  PROVE  /\ Holds("signal", t, n, p) <=> n > 1
         /\ Holds("kill", t, n, p) <=> InKill(p)
         /\ Holds("wait", t, n, p) <=> InWait(p)
BY DEF Holds, InKill, InWait

LEMMA CallMutexes ==
  ASSUME NEW t, NEW n, ~(t = Main /\ n = 1), NEW p, p # "notify", NEW q, q # "notify",
         \/ UNCHANGED mutex /\ (InKill(p) <=> InKill(q)) /\ (InWait(p) <=> InWait(q))
         \/ Lock("kill", t) /\ ~InKill(p) /\ InKill(q) /\ (InWait(p) <=> InWait(q))
         \/ Unlock("kill") /\ InKill(p) /\ ~InKill(q) /\ (InWait(p) <=> InWait(q))
         \/ Lock("wait", t) /\ ~InWait(p) /\ InWait(q) /\ (InKill(p) <=> InKill(q))
         \/ Unlock("wait") /\ InWait(p) /\ ~InWait(q) /\ (InKill(p) <=> InKill(q))
  PROVE  MutexMoves(t, n, p, q)
<1>1. /\ Holds("signal", t, n, p) <=> Holds("signal", t, n, q)
      /\ Holds("kill", t, n, p) <=> InKill(p)
      /\ Holds("kill", t, n, q) <=> InKill(q)
      /\ Holds("wait", t, n, p) <=> InWait(p)
      /\ Holds("wait", t, n, q) <=> InWait(q)
  BY CallHolds
<1> QED BY <1>1 DEF MutexMoves, Mutexes

LEMMA PlacesLocked ==
  /\ ~InKill("kill") /\ ~InKill("lock kill") /\ ~InKill("iterate") /\ ~InKill("done")
  /\ InKill("signal") /\ InKill("wait") /\ InKill("tested") /\ InKill("waiting")
  /\ InKill("woken") /\ InKill("expired") /\ InKill("giveup")
  /\ ~InWait("kill") /\ ~InWait("lock kill") /\ ~InWait("iterate") /\ ~InWait("done")
  /\ ~InWait("signal") /\ ~InWait("wait") /\ InWait("tested") /\ ~InWait("waiting")
  /\ ~InWait("woken") /\ ~InWait("expired") /\ ~InWait("giveup")
BY DEF InKill, InWait, KillPlaces

LEMMA CallOnTop ==
  ASSUME Inv, NEW t \in Threads, Calling(t), NEW n, n = Len(frames[t])
  PROVE  ~(t = Main /\ n = 1)
BY CallFacts

\* A step inside kill().
LEMMA CallGoes ==
  ASSUME Inv, NEW t \in Threads, Calling(t), NEW f \in FrameSet, Becomes(t, f),
         f.left = Top(t).left, f.at \in KillPlaces, f.at # "woken", status # "NOT_STARTED",
         UNCHANGED <<step, installed, interrupted, handlers, status>>,
         MutexMoves(t, Len(frames[t]), Top(t).at, f.at)
  PROVE  FramesTyped' /\ FramesGood' /\ MutexInv'
<1>1. PICK n \in Nat : n = Len(frames[t])
  BY CallFacts
<1>2. Keeps(t, n)
  BY KeepsOK DEF Inv
<1>3. PICK old : old = Top(t)
  OBVIOUS
<1>4. n > 1 => HandlerGood(f)'
  <2>1. n > 1 => HandlerGood(old)
    BY <1>1, <1>3, CallFacts
  <2>2. f.at \in HandlerPlaces /\ f.at # "notify" /\ old.at # "notify" /\ old.at \in CallPlaces
    BY <1>3 DEF HandlerPlaces, KillPlaces, Calling, CallPlaces
  <2> QED BY <1>3, <2>1, <2>2 DEF HandlerGood, CallPlaces
<1>5. n = 1 => t \in Http
  BY <1>1, CallFacts
<1>6. f.at \in HttpPlaces
  BY DEF HttpPlaces
<1>7. FrameGood(t, n, f)'
  BY <1>4, <1>5, <1>6, ThreadFacts DEF FrameGood
<1>8. FramesTyped /\ FramesGood /\ MutexInv
  BY DEF Inv
<1> QED BY <1>1, <1>2, <1>7, <1>8, Moved

\* kill() has returned to its caller.
LEMMA CallEnds ==
  ASSUME Inv, NEW t \in Threads, Calling(t), NEW f, f = AfterKill(t),
         NEW n, n = Len(frames[t]), UNCHANGED <<installed, interrupted, handlers>>
  PROVE  /\ f \in FrameSet
         /\ (n > 1 /\ f.at = "iterate") \/ (n = 1 /\ f.at = "done")
         /\ FrameGood(t, n, f)'
<1>1. (n > 1 /\ n # 1) \/ (n = 1 /\ ~(n > 1))
  BY HowManyFrames DEF Inv
<1>2. PICK old \in FrameSet : old = Top(t)
  BY CallFacts
<1>3. "iterate" \in Places /\ "done" \in Places
  <2>1. "done" \in ScriptPlaces
    BY DEF ScriptPlaces
  <2>2. "iterate" \in Places
    BY DEF Places
  <2> QED BY <2>1, <2>2, ScriptPlacesOK
<1>4. "iterate" \notin CallPlaces /\ "done" \notin CallPlaces /\ "iterate" \in HandlerPlaces
  BY DEF CallPlaces, KillPlaces, HandlerPlaces
<1>5. CASE n > 1
  <2>1. HandlerGood(old) /\ old.at \in CallPlaces
    BY <1>2, <1>5, CallFacts DEF Calling
  <2>2. old.left > 0 /\ old.left <= Len(handlers) /\ interrupted
    <3>1. old.at # "notify"
      BY <2>1 DEF CallPlaces, KillPlaces
    <3> QED BY <2>1, <3>1 DEF HandlerGood, CallPlaces
  <2>3. f = [old EXCEPT !.at = "iterate", !.left = old.left - 1, !.stage = 1]
    BY <1>2, <1>5 DEF AfterKill, Interrupting
  <2>4. old.left \in Nat
    BY DEF FrameSet
  <2>5. PICK left : left = old.left - 1 /\ left \in Nat
    BY <2>2, <2>4
  <2>6. f \in FrameSet /\ f.at = "iterate" /\ f.left = left
    <3>1. f = Onwards(old, "iterate", left)
      BY <2>3, <2>5 DEF Onwards
    <3>2. left \in Nat
      BY <2>5
    <3>3. "iterate" \in Places
      BY <1>3
    <3>4. PICK place \in Places : place = "iterate"
      BY <3>3
    <3>5. f = Onwards(old, place, left)
      BY <3>1, <3>4
    <3>6. f \in FrameSet /\ f.at = place /\ f.left = left
      BY <3>2, <3>5, FrameOnwards
    <3> QED BY <3>4, <3>6
  <2>7. left <= Len(handlers)
    <3>1. PICK k \in Nat : k = Len(handlers)
      BY DEF Inv, Values
    <3> QED BY <2>2, <2>4, <2>5, <3>1
  <2>8. HandlerGood(f)'
    BY <1>4, <2>2, <2>6, <2>7 DEF HandlerGood, CallPlaces
  <2>9. FrameGood(t, n, f)'
    <3>1. n # 1
      BY <1>1, <1>5
    <3>2. f.at \notin KillPlaces /\ f.at # "woken"
      BY <2>6 DEF KillPlaces
    <3> QED BY <2>8, <3>1, <3>2 DEF FrameGood
  <2> QED BY <1>5, <2>6, <2>9
<1>6. CASE ~(n > 1)
  <2>1. n = 1
    BY <1>1, <1>6
  <2>2. t \in Http
    BY <2>1, CallFacts
  <2>3. f = [at |-> "done", signal |-> "none", stage |-> 1, left |-> 0]
    BY <1>6 DEF AfterKill, Interrupting, Frame
  <2>4. f \in FrameSet /\ f.at = "done"
    BY <1>3, <2>3 DEF FrameSet
  <2>5. FrameGood(t, n, f)'
    <3>1. f.at \notin KillPlaces /\ f.at # "woken" /\ f.at \in HttpPlaces
      BY <2>4 DEF KillPlaces, HttpPlaces
    <3> QED BY <1>6, <2>2, <3>1, ThreadFacts DEF FrameGood
  <2> QED BY <2>1, <2>4, <2>5
<1> QED BY <1>5, <1>6

\* It returns without or with the lock that it holds.
LEMMA CallEndsInv ==
  ASSUME Inv, NEW t \in Threads, Calling(t), KillReturns(t),
         UNCHANGED <<step, installed, interrupted, handlers, status>>,
         \/ UNCHANGED mutex /\ Top(t).at = "kill"
         \/ Unlock("kill") /\ Top(t).at \in {"wait", "woken", "giveup"}
  PROVE  FramesTyped' /\ FramesGood' /\ MutexInv'
<1>1. PICK n \in Nat : n = Len(frames[t]) /\ ~(t = Main /\ n = 1)
  BY CallFacts
<1>2. PICK f : f = AfterKill(t)
  OBVIOUS
<1>3. /\ f \in FrameSet /\ f.at \in {"iterate", "done"}
      /\ FrameGood(t, n, f)'
  <2>1. UNCHANGED <<installed, interrupted, handlers>>
    OBVIOUS
  <2>2. /\ f \in FrameSet
        /\ (n > 1 /\ f.at = "iterate") \/ (n = 1 /\ f.at = "done")
        /\ FrameGood(t, n, f)'
    BY <1>1, <1>2, <2>1, CallEnds
  <2> QED BY <2>2
<1>4. MutexMoves(t, n, Top(t).at, f.at)
  <2>1. Top(t).at # "notify" /\ f.at # "notify" /\ ~InKill(f.at) /\ ~InWait(f.at) /\ ~InWait(Top(t).at)
    BY <1>3, PlacesLocked
  <2>2. \/ UNCHANGED mutex /\ ~InKill(Top(t).at)
        \/ Unlock("kill") /\ InKill(Top(t).at)
    BY PlacesLocked
  <2> QED BY <1>1, <2>1, <2>2, CallMutexes
<1>5. Keeps(t, n)
  BY KeepsOK DEF Inv
<1>6. FramesTyped /\ FramesGood /\ MutexInv /\ Becomes(t, f)
  BY <1>2 DEF Inv, KillReturns
<1> QED BY <1>1, <1>3, <1>4, <1>5, <1>6, Moved

\* Where main() itself is, in wait().
LEMMA MainWaits ==
  ASSUME Inv, InMain(Main), Top(Main).at \in CallPlaces,
         Top(Main).at = "woken" => Script[step] = "wait"
  PROVE  /\ Len(frames[Main]) = 1 /\ step = 3 /\ installed
         /\ Top(Main).at \in {"wait", "tested", "waiting", "woken"}
         /\ Top(Main).at = "woken" => status # "RUNNING"
<1>1. Len(frames[Main]) = 1 /\ FrameGood(Main, 1, Top(Main))
  <2>1. Len(frames[Main]) = 1
    BY InMainAlone, ThreadFacts DEF Inv
  <2>2. FrameGood(Main, Len(frames[Main]), Top(Main))
    BY TopGood, ThreadFacts DEF Inv
  <2> QED BY <2>1, <2>2
<1>2. MainGood(Top(Main).at)
  BY <1>1 DEF FrameGood
<1>3. step \in 1..20
  BY DEF Inv, Values
<1>4. Top(Main).at \notin ScriptPlaces \ {"wait"}
      /\ Top(Main).at \notin {"dead", "tested to await", "awaiting", "pushing"}
  BY DEF CallPlaces, KillPlaces, ScriptPlaces
<1>5. Top(Main).at = Script[step] => Script[step] = "wait"
  BY <1>3, <1>4, ScriptRange
<1>6. /\ Script[step] = "wait" \/ step = 3 \/ (step = 17 /\ Top(Main).at = "woken")
      /\ Top(Main).at \in {"wait", "tested", "waiting", "woken"}
  BY <1>2, <1>4, <1>5 DEF MainGood, AtMain
<1>7. step = 3
  <2>1. CASE step = 17 /\ Top(Main).at = "woken"
    <3>1. Script[step] = "wait"
      BY <2>1
    <3> QED BY <1>3, <3>1, ScriptStep
  <2>2. CASE Script[step] = "wait"
    BY <1>3, <2>2, ScriptStep
  <2> QED BY <1>6, <2>1, <2>2
<1>8. installed
  <2>1. ~(step <= 2)
    BY <1>7
  <2> QED BY <1>2, <2>1 DEF MainGood
<1>9. Top(Main).at = "woken" => status # "RUNNING"
  <2>1. step # 17
    BY <1>7
  <2> QED BY <1>1, <2>1 DEF FrameGood
<1> QED BY <1>1, <1>6, <1>7, <1>8, <1>9

\* wait() returns to main().
LEMMA MainWaitReturns ==
  ASSUME Inv, InMain(Main), Top(Main).at \in {"wait", "woken"},
         Top(Main).at = "woken" => Script[step] = "wait", status # "RUNNING", MainNext,
         UNCHANGED <<mutex, installed, interrupted, handlers, status, child, raised, size, lost,
                     sizeInterrupted, workDirSize, reported>>
  PROVE  Inv'
<1>1. Len(frames[Main]) = 1 /\ step = 3 /\ installed
  BY MainWaits DEF CallPlaces, KillPlaces
<1>2. MainGoto(4)
  BY <1>1 DEF MainNext
<1>3. status # "NOT_STARTED"
  BY <1>1 DEF Inv, Progress
<1>4. Keeps(Main, 1)
  BY KeepsOK, ThreadFacts DEF Inv
<1>5. \A m : ~Holds(m, Main, 1, Top(Main).at)
  <2>1. ~(1 > 1)
    OBVIOUS
  <2> QED BY <2>1 DEF Holds
<1>6. installed' /\ status' # "NOT_STARTED" /\ UNCHANGED mutex
  BY <1>1, <1>3
<1>7. FramesTyped' /\ FramesGood' /\ MutexInv'
  BY <1>1, <1>2, <1>4, <1>5, <1>6, MainGoes
<1>8. step' = 4
  BY <1>2 DEF MainGoto
<1>9. Values'
  BY <1>8 DEF Inv, Values
<1>10. Progress'
  BY <1>1, <1>8 DEF Inv, Progress
<1> QED BY <1>7, <1>9, <1>10 DEF Inv

LEMMA CallingAt ==
  ASSUME Inv, NEW t \in Threads,
         Top(t).at \in {"kill", "lock kill", "signal", "expired", "giveup"}
  PROVE  Calling(t)
<1>1. Top(t).at \in CallPlaces
  BY DEF CallPlaces, KillPlaces
<1>2. ~InMain(t)
  <2> SUFFICES ASSUME InMain(t) PROVE FALSE
    OBVIOUS
  <2>1. t = Main
    BY DEF InMain
  <2>2. Top(Main).at \in {"wait", "tested", "waiting", "woken"}
    BY <1>1, <2>1, MainWaits
  <2> QED BY <2>1, <2>2
<1> QED BY <1>1, <1>2 DEF Calling

LEMMA CallStarted ==
  ASSUME Inv, NEW t \in Threads, Calling(t), Top(t).at \in KillPlaces
  PROVE  status # "NOT_STARTED"
BY CallFacts DEF FrameGood

\* kill() goes to another of its places.
LEMMA CallGoesInv ==
  ASSUME Inv, NEW t \in Threads, Calling(t), NEW place \in KillPlaces, place # "woken",
         Goto(t, place), status # "NOT_STARTED",
         UNCHANGED <<step, installed, interrupted, handlers, status, child, raised, size, lost,
                     sizeInterrupted, workDirSize, reported>>,
         MutexMoves(t, Len(frames[t]), Top(t).at, place)
  PROVE  Inv'
<1>1. PICK old \in FrameSet : old = Top(t)
  BY CallFacts
<1>2. place \in Places
  BY DEF Places
<1>3. PICK f : f = [old EXCEPT !.at = place]
  OBVIOUS
<1>4. f \in FrameSet /\ f.at = place /\ f.left = old.left
  BY <1>2, <1>3, FrameAt
<1>5. Becomes(t, f)
  BY <1>1, <1>3 DEF Goto
<1>6. FramesTyped' /\ FramesGood' /\ MutexInv'
  BY <1>1, <1>4, <1>5, CallGoes
<1>7. Values' /\ Progress'
  BY SameValues
<1> QED BY <1>6, <1>7 DEF Inv

LEMMA KillInv ==
  ASSUME Inv, NEW t \in Threads, Kill(t)
  PROVE  Inv'
<1>1. At(t, "kill") /\ Calling(t)
  BY CallingAt DEF Kill, At
<1>2. UNCHANGED <<mutex, step, installed, interrupted, handlers, status, child, raised, size, lost,
                  sizeInterrupted, workDirSize, reported>>
  BY DEF Kill, signalVars, executorVars, mainVars, sizeVars
<1>3. CASE status = "RUNNING"
  <2>1. Goto(t, "lock kill")
    BY <1>3 DEF Kill
  <2>2. PICK n : n = Len(frames[t])
    OBVIOUS
  <2>3. MutexMoves(t, n, "kill", "lock kill")
    BY <1>1, <1>2, <2>2, CallOnTop, CallMutexes, PlacesLocked
  <2>4. "lock kill" \in KillPlaces
    BY DEF KillPlaces
  <2> QED BY <1>1, <1>2, <1>3, <2>1, <2>2, <2>3, <2>4, CallGoesInv DEF At
<1>4. CASE status # "RUNNING"
  <2>1. KillReturns(t)
    BY <1>4 DEF Kill
  <2>2. FramesTyped' /\ FramesGood' /\ MutexInv'
    BY <1>1, <1>2, <2>1, CallEndsInv DEF At
  <2>3. Values' /\ Progress'
    BY <1>2, SameValues
  <2> QED BY <2>2, <2>3 DEF Inv
<1> QED BY <1>3, <1>4

LEMMA LockKillInv ==
  ASSUME Inv, NEW t \in Threads, LockKill(t)
  PROVE  Inv'
<1>1. At(t, "lock kill") /\ Calling(t) /\ Goto(t, "signal") /\ Lock("kill", t)
  BY CallingAt DEF LockKill, At
<1>2. UNCHANGED <<step, installed, interrupted, handlers, status, child, raised, size, lost,
                  sizeInterrupted, workDirSize, reported>>
  BY DEF LockKill, signalVars, executorVars, mainVars, sizeVars
<1>3. PICK n : n = Len(frames[t])
  OBVIOUS
<1>4. MutexMoves(t, n, "lock kill", "signal")
  BY <1>1, <1>3, CallOnTop, CallMutexes, PlacesLocked
<1>5. "signal" \in KillPlaces /\ "lock kill" \in KillPlaces
  BY DEF KillPlaces
<1>6. status # "NOT_STARTED"
  BY <1>1, <1>5, CallStarted DEF At
<1> QED BY <1>1, <1>2, <1>3, <1>4, <1>5, <1>6, CallGoesInv DEF At

LEMMA KillIfRunningInv ==
  ASSUME Inv, NEW t \in Threads, KillIfRunning(t)
  PROVE  Inv'
<1>1. At(t, "signal") /\ Calling(t) /\ Goto(t, "wait")
  BY CallingAt DEF KillIfRunning, At
<1>2. UNCHANGED <<mutex, step, installed, interrupted, handlers, status, child, raised, size, lost,
                  sizeInterrupted, workDirSize, reported>>
  BY DEF KillIfRunning, signalVars, executorVars, mainVars, sizeVars
<1>3. PICK n : n = Len(frames[t])
  OBVIOUS
<1>4. "signal" \in KillPlaces /\ "wait" \in KillPlaces
  BY DEF KillPlaces
<1>5. MutexMoves(t, n, "signal", "wait")
  BY <1>1, <1>2, <1>3, CallOnTop, CallMutexes, PlacesLocked
<1>6. status # "NOT_STARTED"
  BY <1>1, <1>4, CallStarted DEF At
<1> QED BY <1>1, <1>2, <1>3, <1>4, <1>5, <1>6, CallGoesInv DEF At

LEMMA ExpireInv ==
  ASSUME Inv, NEW t \in Threads, Expire(t)
  PROVE  Inv'
<1>1. At(t, "waiting") /\ ~InMain(t) /\ Goto(t, "expired")
  BY DEF Expire
<1>2. UNCHANGED <<mutex, step, installed, interrupted, handlers, status, child, raised, size, lost,
                  sizeInterrupted, workDirSize, reported>>
  BY DEF Expire, signalVars, executorVars, mainVars, sizeVars
<1>3. "waiting" \in KillPlaces /\ "expired" \in KillPlaces
  BY DEF KillPlaces
<1>4. Calling(t)
  BY <1>1, <1>3 DEF Calling, CallPlaces, At
<1>5. PICK n : n = Len(frames[t])
  OBVIOUS
<1>6. MutexMoves(t, n, "waiting", "expired")
  BY <1>2, <1>4, <1>5, CallOnTop, CallMutexes, PlacesLocked
<1>7. status # "NOT_STARTED"
  BY <1>1, <1>3, <1>4, CallStarted DEF At
<1> QED BY <1>1, <1>2, <1>3, <1>4, <1>5, <1>6, <1>7, CallGoesInv DEF At

\* main() goes on inside wait().
LEMMA MainGoesInWait ==
  ASSUME Inv, InMain(Main), NEW place \in {"tested", "waiting"}, Goto(Main, place),
         Top(Main).at \in {"wait", "tested"},
         UNCHANGED <<step, installed, interrupted, handlers, status, child, raised, size, lost,
                     sizeInterrupted, workDirSize, reported>>,
         MutexMoves(Main, 1, Top(Main).at, place)
  PROVE  Inv'
<1>1. Len(frames[Main]) = 1 /\ step = 3 /\ installed
  BY MainWaits DEF CallPlaces, KillPlaces
<1>2. place \in Inside /\ AtMain(place) /\ installed'
  BY <1>1 DEF Inside, AtMain
<1>3. FramesTyped' /\ FramesGood' /\ MutexInv'
  BY <1>1, <1>2, MainGoesInside
<1>4. Values' /\ Progress'
  BY SameValues
<1> QED BY <1>3, <1>4 DEF Inv

LEMMA WaitInv ==
  ASSUME Inv, NEW t \in Threads, Wait(t)
  PROVE  Inv'
<1>1. At(t, "wait") /\ Top(t).at = "wait" /\ "wait" \in CallPlaces /\ "wait" \in KillPlaces
  BY DEF Wait, At, CallPlaces, KillPlaces
<1>2. UNCHANGED <<installed, interrupted, handlers, status, child, raised, size, lost,
                  sizeInterrupted, workDirSize, reported>>
  BY DEF Wait, signalVars, executorVars, mainVars, sizeVars
<1>3. CASE status = "RUNNING"
  <2>1. Lock("wait", t) /\ Goto(t, "tested") /\ UNCHANGED step
    BY <1>3 DEF Wait
  <2>2. CASE InMain(t)
    <3>1. t = Main
      BY <2>2 DEF InMain
    <3>2. MutexMoves(Main, 1, "wait", "tested")
      <4>1. \A m : ~Holds(m, Main, 1, "wait")
        <5>1. ~(1 > 1)
          OBVIOUS
        <5> QED BY <5>1 DEF Holds
      <4>2. "wait" \in Mutexes
        BY DEF Mutexes
      <4> QED BY <2>1, <3>1, <4>1, <4>2, MainHolds DEF MutexMoves
    <3> QED BY <1>1, <1>2, <2>1, <2>2, <3>1, <3>2, MainGoesInWait
  <2>3. CASE ~InMain(t)
    <3>1. Calling(t)
      BY <1>1, <2>3 DEF Calling
    <3>2. PICK n : n = Len(frames[t])
      OBVIOUS
    <3>3. MutexMoves(t, n, "wait", "tested")
      BY <2>1, <3>1, <3>2, CallOnTop, CallMutexes, PlacesLocked
    <3>4. "tested" \in KillPlaces /\ status # "NOT_STARTED"
      BY <1>3 DEF KillPlaces
    <3> QED BY <1>1, <1>2, <2>1, <3>1, <3>2, <3>3, <3>4, CallGoesInv
  <2> QED BY <2>2, <2>3
<1>4. CASE status # "RUNNING"
  <2>1. WaitReturns(t, TRUE)
    BY <1>4 DEF Wait
  <2>2. CASE InMain(t)
    <3>1. t = Main /\ MainNext /\ UNCHANGED mutex
      BY <2>1, <2>2 DEF WaitReturns, InMain
    <3> QED BY <1>1, <1>2, <1>4, <2>2, <3>1, MainWaitReturns
  <2>3. CASE ~InMain(t)
    <3>1. Calling(t)
      BY <1>1, <2>3 DEF Calling
    <3>2. UNCHANGED step /\ KillReturns(t) /\ Unlock("kill")
      BY <2>1, <2>3 DEF WaitReturns
    <3>3. FramesTyped' /\ FramesGood' /\ MutexInv'
      BY <1>1, <1>2, <3>1, <3>2, CallEndsInv
    <3>4. Values' /\ Progress'
      BY <1>2, <3>2, SameValues
    <3> QED BY <3>3, <3>4 DEF Inv
  <2> QED BY <2>2, <2>3
<1> QED BY <1>3, <1>4

LEMMA WaitSleepsInv ==
  ASSUME Inv, NEW t \in Threads, WaitSleeps(t)
  PROVE  Inv'
<1>1. Top(t).at = "tested" /\ "tested" \in CallPlaces /\ "tested" \in KillPlaces
      /\ Goto(t, "waiting") /\ Unlock("wait")
  BY DEF WaitSleeps, At, CallPlaces, KillPlaces
<1>2. UNCHANGED <<step, installed, interrupted, handlers, status, child, raised, size, lost,
                  sizeInterrupted, workDirSize, reported>>
  BY DEF WaitSleeps, signalVars, executorVars, mainVars, sizeVars
<1>3. CASE InMain(t)
  <2>1. t = Main
    BY <1>3 DEF InMain
  <2>2. MutexMoves(Main, 1, "tested", "waiting")
    <3>1. "wait" \in Mutexes
      BY DEF Mutexes
    <3> QED BY <1>1, <2>1, <3>1, MainHolds DEF MutexMoves
  <2> QED BY <1>1, <1>2, <1>3, <2>1, <2>2, MainGoesInWait
<1>4. CASE ~InMain(t)
  <2>1. Calling(t)
    BY <1>1, <1>4 DEF Calling
  <2>2. PICK n : n = Len(frames[t])
    OBVIOUS
  <2>3. MutexMoves(t, n, "tested", "waiting")
    BY <1>1, <2>1, <2>2, CallOnTop, CallMutexes, PlacesLocked
  <2>4. "waiting" \in KillPlaces
    BY DEF KillPlaces
  <2>5. status # "NOT_STARTED"
    BY <1>1, <2>1, CallStarted
  <2> QED BY <1>1, <1>2, <2>1, <2>2, <2>3, <2>4, <2>5, CallGoesInv
<1> QED BY <1>3, <1>4

\* The next attempt of kill().
LEMMA NextAttempt ==
  ASSUME NEW f \in FrameSet, f.stage < 3, NEW g,
         g = [f EXCEPT !.at = "signal", !.stage = f.stage + 1]
  PROVE  g \in FrameSet /\ g.at = "signal" /\ g.left = f.left
<1>1. f.stage + 1 \in 1..3
  BY DEF FrameSet
<1>2. "signal" \in Places
  BY DEF Places, KillPlaces
<1>3. g = [at |-> "signal", signal |-> f.signal, stage |-> f.stage + 1, left |-> f.left]
  BY DEF FrameSet
<1> QED BY <1>1, <1>2, <1>3 DEF FrameSet

LEMMA LeaveWaitInv ==
  ASSUME Inv, NEW t \in Threads, LeaveWait(t)
  PROVE  Inv'
<1>1. /\ Top(t).at \in {"woken", "expired"}
      /\ Top(t).at \in CallPlaces /\ Top(t).at \in KillPlaces
      /\ InMain(t) => Script[step] = "wait"
      /\ WaitReturns(t, Top(t).at = "woken")
  BY DEF LeaveWait, At, CallPlaces, KillPlaces
<1>2. UNCHANGED <<installed, interrupted, handlers, status, child, raised, size, lost,
                  sizeInterrupted, workDirSize, reported>>
  BY DEF LeaveWait, signalVars, executorVars, mainVars, sizeVars
<1>3. CASE InMain(t)
  <2>1. t = Main /\ MainNext /\ UNCHANGED mutex
    BY <1>1, <1>3 DEF WaitReturns, InMain
  <2>2. Top(Main).at = "woken" /\ status # "RUNNING"
    BY <1>1, <1>3, <2>1, MainWaits
  <2> QED BY <1>1, <1>2, <1>3, <2>1, <2>2, MainWaitReturns
<1>4. CASE ~InMain(t)
  <2>1. Calling(t) /\ UNCHANGED step
    BY <1>1, <1>4 DEF Calling, WaitReturns
  <2>2. Values' /\ Progress'
    BY <1>2, <2>1, SameValues
  <2>3. CASE Top(t).at = "woken"
    <3>1. KillReturns(t) /\ Unlock("kill")
      BY <1>1, <1>4, <2>3 DEF WaitReturns
    <3>2. FramesTyped' /\ FramesGood' /\ MutexInv'
      BY <1>2, <2>1, <2>3, <3>1, CallEndsInv
    <3> QED BY <2>2, <3>2 DEF Inv
  <2>4. CASE Top(t).at = "expired"
    <3>1. status # "NOT_STARTED"
      BY <1>1, <2>1, CallStarted
    <3>2. PICK n : n = Len(frames[t])
      OBVIOUS
    <3>3. UNCHANGED mutex
      BY <1>1, <1>4, <2>4 DEF WaitReturns
    <3>4. CASE Top(t).stage < 3
      <4>1. PICK old \in FrameSet : old = Top(t)
        BY <2>1, CallFacts
      <4>2. PICK f : f = [old EXCEPT !.at = "signal", !.stage = old.stage + 1]
        OBVIOUS
      <4>3. f \in FrameSet /\ f.at = "signal" /\ f.left = old.left
        <5>1. old.stage < 3
          BY <3>4, <4>1
        <5> QED BY <4>2, <5>1, NextAttempt
      <4>4. Becomes(t, f)
        BY <1>1, <1>4, <2>4, <3>4, <4>1, <4>2 DEF WaitReturns
      <4>5. MutexMoves(t, n, "expired", "signal")
        BY <2>1, <3>2, <3>3, CallOnTop, CallMutexes, PlacesLocked
      <4>6. "signal" \in KillPlaces
        BY DEF KillPlaces
      <4>7. FramesTyped' /\ FramesGood' /\ MutexInv'
        BY <1>2, <2>1, <2>4, <3>1, <3>2, <4>1, <4>3, <4>4, <4>5, <4>6, CallGoes
      <4> QED BY <2>2, <4>7 DEF Inv
    <3>5. CASE ~(Top(t).stage < 3)
      <4>1. Goto(t, "giveup")
        BY <1>1, <1>4, <2>4, <3>5 DEF WaitReturns
      <4>2. MutexMoves(t, n, "expired", "giveup")
        BY <2>1, <3>2, <3>3, CallOnTop, CallMutexes, PlacesLocked
      <4>3. "giveup" \in KillPlaces
        BY DEF KillPlaces
      <4> QED BY <1>2, <2>1, <2>4, <3>1, <3>2, <4>1, <4>2, <4>3, CallGoesInv
    <3> QED BY <3>4, <3>5
  <2> QED BY <1>1, <2>3, <2>4
<1> QED BY <1>3, <1>4

-------------------------------------------------------------------------------
(* Steps that wake threads. *)

WakingPlaces == {"waiting", "awaiting"}

\* A frame that is woken is in its place.
LEMMA WokenGood ==
  ASSUME NEW u \in Threads, NEW i \in Nat \ {0}, NEW g \in FrameSet, NEW h \in FrameSet,
         g.at \in WakingPlaces, h.at = "woken", h.left = g.left, FrameGood(u, i, g)',
         step' \in 1..20, g.at = "waiting" => status' # "RUNNING"
  PROVE  FrameGood(u, i, h)'
<1>1. CASE i > 1
  <2>1. HandlerGood(g)' /\ g.at = "waiting"
    BY <1>1 DEF FrameGood, HandlerGood, HandlerPlaces, KillPlaces, WakingPlaces
  <2>2. g.at \in KillPlaces /\ g.at # "notify" /\ "woken" \in KillPlaces
        /\ "woken" \in HandlerPlaces /\ "woken" # "notify"
    BY <2>1 DEF KillPlaces, HandlerPlaces
  <2>3. HandlerGood(h)'
    BY <2>1, <2>2 DEF HandlerGood
  <2>4. i # 1
    BY <1>1
  <2>5. status' # "NOT_STARTED"
    BY <2>2, <2>4 DEF FrameGood
  <2> QED BY <2>1, <2>3, <2>4, <2>5 DEF FrameGood
<1>2. CASE ~(i > 1)
  <2>1. i = 1
    BY <1>2
  <2>2. u # Reaper
    <3>1. ~ReaperGood(g.at)'
      BY DEF ReaperGood, WakingPlaces
    <3> QED BY <2>1, <3>1 DEF FrameGood
  <2>3. CASE u = Main
    <3>1. MainGood(g.at)'
      BY <2>1, <2>3 DEF FrameGood
    <3>2. Script[step'] # g.at /\ g.at # "dead"
      <4>1. g.at \notin ScriptPlaces /\ g.at # "dead"
        BY DEF ScriptPlaces, WakingPlaces
      <4> QED BY <4>1, ScriptRange
    <3>3. (g.at = "waiting" /\ step' = 3) \/ step' = 17
      BY <3>1, <3>2 DEF MainGood, AtMain, WakingPlaces
    <3>4. MainGood("woken")'
      BY <3>1, <3>2, <3>3 DEF MainGood, AtMain
    <3>5. status' # "RUNNING" \/ step' = 17
      BY <3>3
    <3> QED BY <1>2, <2>1, <2>3, <3>4, <3>5, ThreadFacts DEF FrameGood
  <2>4. CASE u \in Http
    <3>1. g.at \in HttpPlaces
      BY <2>1, <2>4 DEF FrameGood
    <3>2. g.at = "waiting" /\ "woken" \in HttpPlaces /\ g.at \in KillPlaces
      BY <3>1 DEF HttpPlaces, KillPlaces, WakingPlaces
    <3>3. u # Main
      BY <2>4, ThreadFacts
    <3>4. status' # "NOT_STARTED"
      BY <3>2, <3>3 DEF FrameGood
    <3> QED BY <1>2, <2>4, <3>2, <3>3, <3>4, ThreadFacts DEF FrameGood
  <2> QED BY <2>2, <2>3, <2>4 DEF Threads
<1> QED BY <1>1, <1>2

\* It holds the mutexes that it held.
LEMMA WokenHolds ==
  ASSUME NEW u \in Threads, NEW i \in Nat \ {0}, NEW g, g.at \in WakingPlaces,
         FrameGood(u, i, g), step \in 1..20, NEW m
  PROVE  Holds(m, u, i, "woken") <=> Holds(m, u, i, g.at)
<1>1. CASE g.at = "waiting"
  BY <1>1 DEF Holds, KillPlaces
<1>2. CASE g.at = "awaiting"
  <2>1. "awaiting" \notin HandlerPlaces /\ "awaiting" \notin HttpPlaces
    BY DEF HandlerPlaces, HttpPlaces, KillPlaces
  <2>2. ~HandlerGood(g) /\ ~ReaperGood(g.at)
    BY <1>2, <2>1 DEF HandlerGood, ReaperGood
  <2>3. i = 1
    <3>1. ~(i > 1)
      BY <2>2 DEF FrameGood
    <3> QED BY <3>1
  <2>4. u = Main
    BY <1>2, <2>1, <2>2, <2>3 DEF FrameGood, Threads
  <2> QED BY <1>2, <2>3, <2>4, MainHolds
<1> QED BY <1>1, <1>2 DEF WakingPlaces

\* Whether it is woken or not, a frame that stays good does, and holds what it held.
LEMMA WokenFrame ==
  ASSUME Inv, NEW place \in WakingPlaces, NEW W, IsWoken(frames, place, W),
         NEW u \in Threads, NEW i \in 1..Len(frames[u]), NEW t, NEW n, u # t \/ i # n, Keeps(t, n),
         step' \in 1..20, place = "waiting" => status' # "RUNNING",
         NEW h, h = W[u][i]
  PROVE  /\ FrameGood(u, i, h)'
         /\ \A m \in Mutexes : Holds(m, u, i, h.at) <=> Holds(m, u, i, frames[u][i].at)
<1>1. PICK g : g = frames[u][i]
  OBVIOUS
<1>2. g \in FrameSet /\ FrameGood(u, i, g) /\ i \in Nat \ {0} /\ step \in 1..20
  BY <1>1 DEF Inv, FramesTyped, FramesGood, Values
<1>3. FrameGood(u, i, g)'
  BY <1>1, <1>2 DEF Keeps
<1>4. CASE g.at = place
  <2>1. h = [g EXCEPT !.at = "woken"]
    BY <1>1, <1>4 DEF IsWoken
  <2>2. "woken" \in Places
    BY DEF Places, KillPlaces
  <2>3. h \in FrameSet /\ h.at = "woken" /\ h.left = g.left
    BY <1>2, <2>1, <2>2, FrameAt
  <2>4. g.at \in WakingPlaces /\ (g.at = "waiting" => status' # "RUNNING")
    BY <1>4
  <2>5. FrameGood(u, i, h)'
    BY <1>2, <1>3, <2>3, <2>4, WokenGood
  <2>6. \A m \in Mutexes : Holds(m, u, i, h.at) <=> Holds(m, u, i, g.at)
    BY <1>2, <2>3, <2>4, WokenHolds
  <2> QED BY <1>1, <2>5, <2>6
<1>5. CASE g.at # place
  <2>1. h = g
    BY <1>1, <1>5 DEF IsWoken
  <2> QED BY <1>1, <1>3, <2>1
<1> QED BY <1>4, <1>5

\* The n-th frame of thread t is replaced by f, and the sleepers at a place are woken.
LEMMA MovedWoken ==
  ASSUME Inv, NEW t \in Threads, NEW n \in 1..Len(frames[t]), NEW place \in WakingPlaces,
         NEW f \in FrameSet, NEW gs, frames' = gs,
         Replaces(Woken(frames, place), t, n, f, gs),
         Keeps(t, n), FrameGood(t, n, f)', step' \in 1..20,
         place = "waiting" => status' # "RUNNING",
         MutexMoves(t, n, frames[t][n].at, f.at)
  PROVE  FramesTyped' /\ FramesGood' /\ MutexInv'
<1>1. PICK W : W = Woken(frames, place)
  OBVIOUS
<1>2. /\ frames \in [Threads -> Seq(FrameSet)] /\ FramesTyped /\ FramesGood /\ MutexInv
      /\ step \in 1..20
  BY DEF Inv, FramesTyped, Values
<1>3. IsWoken(frames, place, W)
  BY <1>1, <1>2, WokenFrames
<1>4. Replaced(W, t, n, f, gs)
  <2>1. n \in 1..Len(W[t]) /\ W \in [Threads -> Seq(FrameSet)]
    BY <1>3 DEF IsWoken
  <2>2. Replaces(W, t, n, f, gs)
    BY <1>1
  <2> QED BY <2>1, <2>2, ReplacesOne
<1>5. /\ gs \in [Threads -> Seq(FrameSet)]
      /\ \A u \in Threads : Len(gs[u]) = Len(frames[u])
      /\ gs[t][n] = f
  BY <1>3, <1>4 DEF Replaced, IsWoken
<1>6. ASSUME NEW u \in Threads, NEW i \in 1..Len(frames[u]), u # t \/ i # n
      PROVE  gs[u][i] = W[u][i]
  <2>1. i \in 1..Len(W[u])
    BY <1>3 DEF IsWoken
  <2> QED BY <1>4, <1>6, <2>1 DEF Replaced
<1>7. ASSUME NEW u \in Threads, NEW i \in 1..Len(frames[u]), u # t \/ i # n
      PROVE  /\ FrameGood(u, i, gs[u][i])'
             /\ \A m \in Mutexes : Holds(m, u, i, gs[u][i].at) <=> Holds(m, u, i, frames[u][i].at)
  <2>1. PICK h : h = W[u][i]
    OBVIOUS
  <2>2. FrameGood(u, i, h)'
        /\ \A m \in Mutexes : Holds(m, u, i, h.at) <=> Holds(m, u, i, frames[u][i].at)
    BY <1>3, <1>7, <2>1, WokenFrame
  <2>3. gs[u][i] = h
    BY <1>6, <1>7, <2>1
  <2>4. gs[u][i]' = h
    BY <2>3
  <2> QED BY <2>2, <2>3, <2>4
<1>8. \A u \in Threads : \A i \in 1..Len(frames[u]) : FrameGood(u, i, frames[u][i])'
  <2> SUFFICES ASSUME NEW u \in Threads, NEW i \in 1..Len(frames[u])
               PROVE  FrameGood(u, i, frames[u][i])'
    OBVIOUS
  <2>1. CASE u = t /\ i = n
    BY <1>5, <2>1
  <2>2. CASE u # t \/ i # n
    BY <1>7, <2>2
  <2> QED BY <2>1, <2>2
<1>9. MutexMoves(t, n, frames[t][n].at, gs[t][n].at)
  BY <1>5
<1> QED BY <1>2, <1>5, <1>7, <1>8, <1>9, MovedAll

LEMMA GiveUpInv ==
  ASSUME Inv, NEW t \in Threads, GiveUp(t)
  PROVE  Inv'
<1>1. Top(t).at = "giveup" /\ Calling(t) /\ status' = "CANNOT_KILL" /\ Unlock("kill")
  BY CallingAt DEF GiveUp, At
<1>2. UNCHANGED <<step, installed, interrupted, handlers, child, raised, size, lost,
                  sizeInterrupted, workDirSize, reported>>
  BY DEF GiveUp, signalVars, mainVars, sizeVars
<1>3. status # "NOT_STARTED"
  <2>1. "giveup" \in KillPlaces
    BY DEF KillPlaces
  <2> QED BY <1>1, <2>1, CallStarted
<1>4. PICK n : n = Len(frames[t])
  OBVIOUS
<1>5. n \in 1..Len(frames[t]) /\ Top(t) = frames[t][n] /\ ~(t = Main /\ n = 1)
  <2>1. n \in 1..Len(frames[t])
    BY <1>4, TopGood DEF Inv
  <2> QED BY <1>1, <1>4, <2>1, CallOnTop DEF Top
<1>6. PICK f : f = AfterKill(t)
  OBVIOUS
<1>7. f \in FrameSet /\ f.at \in {"iterate", "done"} /\ FrameGood(t, n, f)'
  <2>1. UNCHANGED <<installed, interrupted, handlers>>
    BY <1>2
  <2>2. /\ f \in FrameSet
        /\ (n > 1 /\ f.at = "iterate") \/ (n = 1 /\ f.at = "done")
        /\ FrameGood(t, n, f)'
    BY <1>1, <1>4, <1>6, <2>1, CallEnds
  <2> QED BY <2>2
<1>8. MutexMoves(t, n, frames[t][n].at, f.at)
  <2>1. frames[t][n].at = "giveup"
    BY <1>1, <1>5
  <2>2. f.at # "notify" /\ ~InKill(f.at) /\ ~InWait(f.at)
    BY <1>7, PlacesLocked
  <2>3. MutexMoves(t, n, "giveup", f.at)
    BY <1>1, <1>5, <2>2, CallMutexes, PlacesLocked
  <2> QED BY <2>1, <2>3
<1>9. Keeps(t, n)
  BY <1>1, <1>2, <1>3, KeepsOK DEF Inv
<1>10. PICK gs : gs = frames'
  OBVIOUS
<1>11. Replaces(Woken(frames, "waiting"), t, n, f, gs)
  BY <1>4, <1>6, <1>10 DEF GiveUp, Replaces
<1>12. step' \in 1..20 /\ status' # "RUNNING" /\ "waiting" \in WakingPlaces
  BY <1>1, <1>2 DEF Inv, Values, WakingPlaces
<1>13. FramesTyped' /\ FramesGood' /\ MutexInv'
  BY <1>5, <1>7, <1>8, <1>9, <1>10, <1>11, <1>12, MovedWoken
<1>14. Values'
  BY <1>1, <1>2 DEF Inv, Values
<1>15. Progress'
  BY <1>1, <1>2, <1>3 DEF Inv, Progress
<1> QED BY <1>13, <1>14, <1>15 DEF Inv

-------------------------------------------------------------------------------
(* The background thread. *)

LEMMA ReaperAt ==
  ASSUME Inv, NEW place \in {"waitpid", "reaped", "locked"}, At(Reaper, place)
  PROVE  /\ Len(frames[Reaper]) = 1 /\ Top(Reaper).at = place
         /\ status # "NOT_STARTED"
<1>1. /\ FrameGood(Reaper, Len(frames[Reaper]), Top(Reaper))
      /\ Len(frames[Reaper]) \in Nat /\ Len(frames[Reaper]) >= 1
  BY ThreadFacts, TopGood DEF Inv
<1>2. Top(Reaper).at \notin HandlerPlaces /\ Top(Reaper).at # "none"
  BY DEF HandlerPlaces, KillPlaces, At
<1>3. Len(frames[Reaper]) = 1
  BY <1>1, <1>2, OwnFrame
<1>4. ReaperGood(Top(Reaper).at)
  BY <1>1, <1>3 DEF FrameGood
<1> QED BY <1>2, <1>3, <1>4 DEF ReaperGood, At

LEMMA ReaperHolds ==
  /\ \A m : ~Holds(m, Reaper, 1, "waitpid")
  /\ \A m : ~Holds(m, Reaper, 1, "reaped")
  /\ \A m : ~Holds(m, Reaper, 1, "done")
  /\ \A m : Holds(m, Reaper, 1, "locked") <=> m = "wait"
<1>1. ~(1 > 1)
  OBVIOUS
<1> QED BY <1>1, ThreadFacts DEF Holds, KillPlaces

\* The background thread goes on to another of its places.
LEMMA ReaperGoes ==
  ASSUME Inv, Len(frames[Reaper]) = 1, NEW place \in {"reaped", "locked"}, Goto(Reaper, place),
         UNCHANGED <<step, installed, interrupted, handlers, status>>, status # "NOT_STARTED",
         MutexMoves(Reaper, 1, Top(Reaper).at, place)
  PROVE  FramesTyped' /\ FramesGood' /\ MutexInv'
<1>1. PICK old \in FrameSet : old = Top(Reaper)
  BY TopGood, ThreadFacts DEF Inv
<1>2. place \in Places
  BY DEF Places
<1>3. PICK f : f = [old EXCEPT !.at = place]
  OBVIOUS
<1>4. f \in FrameSet /\ f.at = place
  BY <1>2, <1>3, FrameAt
<1>5. Becomes(Reaper, f)
  BY <1>1, <1>3 DEF Goto
<1>6. FrameGood(Reaper, 1, f)'
  <2>1. ReaperGood(f.at)' /\ f.at \notin KillPlaces
    BY <1>4 DEF ReaperGood, KillPlaces
  <2> QED BY <2>1, ReaperFrame
<1>7. Keeps(Reaper, 1)
  BY KeepsOK, ThreadFacts DEF Inv
<1>8. FramesTyped /\ FramesGood /\ MutexInv
  BY DEF Inv
<1> QED BY <1>4, <1>5, <1>6, <1>7, <1>8, Moved, ThreadFacts

LEMMA WaitPidInv ==
  ASSUME Inv, WaitPid
  PROVE  Inv'
<1>1. At(Reaper, "waitpid") /\ Goto(Reaper, "reaped") /\ child' = "reaped"
  BY DEF WaitPid
<1>2. UNCHANGED <<mutex, step, installed, interrupted, handlers, status, raised, size, lost,
                  sizeInterrupted, workDirSize, reported>>
  BY DEF WaitPid, signalVars, mainVars, sizeVars
<1>3. Len(frames[Reaper]) = 1 /\ Top(Reaper).at = "waitpid" /\ status # "NOT_STARTED"
  BY <1>1, ReaperAt
<1>4. MutexMoves(Reaper, 1, "waitpid", "reaped")
  BY <1>2, ReaperHolds DEF MutexMoves
<1>5. FramesTyped' /\ FramesGood' /\ MutexInv'
  BY <1>1, <1>2, <1>3, <1>4, ReaperGoes
<1>6. Values' /\ Progress'
  BY <1>1, <1>2 DEF Inv, Values, Progress
<1> QED BY <1>5, <1>6 DEF Inv

LEMMA LockToStoreInv ==
  ASSUME Inv, LockToStore
  PROVE  Inv'
<1>1. At(Reaper, "reaped") /\ Goto(Reaper, "locked") /\ Lock("wait", Reaper)
  BY DEF LockToStore
<1>2. UNCHANGED <<step, installed, interrupted, handlers, status, child, raised, size, lost,
                  sizeInterrupted, workDirSize, reported>>
  BY DEF LockToStore, signalVars, executorVars, mainVars, sizeVars
<1>3. Len(frames[Reaper]) = 1 /\ Top(Reaper).at = "reaped" /\ status # "NOT_STARTED"
  BY <1>1, ReaperAt
<1>4. MutexMoves(Reaper, 1, "reaped", "locked")
  <2>1. "wait" \in Mutexes
    BY DEF Mutexes
  <2> QED BY <1>1, <2>1, ReaperHolds DEF MutexMoves
<1>5. FramesTyped' /\ FramesGood' /\ MutexInv'
  BY <1>1, <1>2, <1>3, <1>4, ReaperGoes
<1>6. Values' /\ Progress'
  BY <1>2, SameValues
<1> QED BY <1>5, <1>6 DEF Inv

LEMMA StoreStatusInv ==
  ASSUME Inv, StoreStatus
  PROVE  Inv'
<1>1. At(Reaper, "locked") /\ status' = "EXITED" /\ Unlock("wait")
  BY DEF StoreStatus
<1>2. UNCHANGED <<step, installed, interrupted, handlers, child, raised, size, lost,
                  sizeInterrupted, workDirSize, reported>>
  BY DEF StoreStatus, signalVars, mainVars, sizeVars
<1>3. Len(frames[Reaper]) = 1 /\ Top(Reaper).at = "locked" /\ status # "NOT_STARTED"
  BY <1>1, ReaperAt
<1>4. 1 \in 1..Len(frames[Reaper]) /\ frames[Reaper][1].at = "locked"
  BY <1>3 DEF Top
<1>5. PICK old \in FrameSet : old = frames[Reaper][1]
  BY <1>4, ThreadFacts DEF Inv, FramesTyped
<1>6. PICK f : f = [old EXCEPT !.at = "done"]
  OBVIOUS
<1>7. f \in FrameSet /\ f.at = "done"
  <2>1. "done" \in Places
    BY ScriptPlacesOK DEF ScriptPlaces
  <2> QED BY <1>6, <2>1, FrameAt
<1>8. PICK W : W = Woken(frames, "waiting")
  OBVIOUS
<1>9. IsWoken(frames, "waiting", W)
  BY <1>8, WokenFrames DEF Inv, FramesTyped
<1>10. W[Reaper][1] = old
  <2>1. frames[Reaper][1].at # "waiting"
    BY <1>4
  <2> QED BY <1>4, <1>5, <1>9, <2>1, ThreadFacts DEF IsWoken
<1>11. PICK gs : gs = frames'
  OBVIOUS
<1>12. Replaces(Woken(frames, "waiting"), Reaper, 1, f, gs)
  <2>1. gs = [W EXCEPT ![Reaper][1].at = "done"]
    BY <1>8, <1>11 DEF StoreStatus
  <2>2. gs = [W EXCEPT ![Reaper][1] = [W[Reaper][1] EXCEPT !.at = "done"]]
    BY <2>1
  <2>3. gs = [W EXCEPT ![Reaper][1] = f]
    BY <1>6, <1>10, <2>2
  <2> QED BY <1>8, <2>3 DEF Replaces
<1>13. FrameGood(Reaper, 1, f)'
  <2>1. ReaperGood(f.at)' /\ f.at \notin KillPlaces
    BY <1>1, <1>7 DEF ReaperGood, KillPlaces
  <2> QED BY <2>1, ReaperFrame
<1>14. Keeps(Reaper, 1)
  BY <1>1, <1>2, <1>3, KeepsOK, ThreadFacts DEF Inv
<1>15. MutexMoves(Reaper, 1, frames[Reaper][1].at, f.at)
  <2>1. "wait" \in Mutexes
    BY DEF Mutexes
  <2>2. MutexMoves(Reaper, 1, "locked", "done")
    BY <1>1, <2>1, ReaperHolds DEF MutexMoves
  <2> QED BY <1>4, <1>7, <2>2
<1>16. step' \in 1..20 /\ status' # "RUNNING" /\ "waiting" \in WakingPlaces
  BY <1>1, <1>2 DEF Inv, Values, WakingPlaces
<1>17. FramesTyped' /\ FramesGood' /\ MutexInv'
  BY <1>4, <1>7, <1>11, <1>12, <1>13, <1>14, <1>15, <1>16, MovedWoken, ThreadFacts
<1>18. Values'
  BY <1>1, <1>2 DEF Inv, Values
<1>19. Progress'
  BY <1>1, <1>2, <1>3 DEF Inv, Progress
<1> QED BY <1>17, <1>18, <1>19 DEF Inv

-------------------------------------------------------------------------------
(* Signals. *)

LEMMA HandlerOnTop ==
  ASSUME Inv, NEW t \in Threads, Top(t).at \in {"notify", "iterate"}
  PROVE  /\ Len(frames[t]) \in Nat /\ Len(frames[t]) > 1 /\ Len(frames[t]) # 1
         /\ Top(t) \in FrameSet /\ HandlerGood(Top(t))
<1>1. /\ FrameGood(t, Len(frames[t]), Top(t)) /\ Top(t) \in FrameSet
      /\ Len(frames[t]) \in Nat
  BY TopGood DEF Inv
<1>2. Len(frames[t]) # 1
  <2>1. /\ Top(t).at \notin ScriptPlaces /\ Top(t).at \notin HttpPlaces
        /\ Top(t).at \notin {"dead", "tested", "waiting", "woken", "tested to await",
                             "awaiting", "pushing", "none", "waitpid", "reaped", "locked", "done"}
    BY DEF ScriptPlaces, HttpPlaces, KillPlaces
  <2>2. Script[step] # Top(t).at
    BY <2>1, ScriptRange DEF Inv, Values
  <2>3. ~MainGood(Top(t).at) /\ ~ReaperGood(Top(t).at)
    BY <2>1, <2>2 DEF MainGood, AtMain, ReaperGood
  <2> QED BY <1>1, <2>1, <2>3 DEF FrameGood, Threads
<1>3. (Len(frames[t]) > 1 /\ Len(frames[t]) # 1) \/ (Len(frames[t]) = 1 /\ ~(Len(frames[t]) > 1))
  BY HowManyFrames DEF Inv
<1>4. Len(frames[t]) > 1
  BY <1>2, <1>3
<1>5. HandlerGood(Top(t))
  BY <1>1, <1>4 DEF FrameGood
<1> QED BY <1>1, <1>2, <1>4, <1>5

\* What a handler that is not inside kill() holds.
LEMMA NotifyHolds ==
  ASSUME NEW t, NEW n, n > 1, n # 1
  PROVE  /\ \A m : ~Holds(m, t, n, "notify")
         /\ \A m : Holds(m, t, n, "iterate") <=> m = "signal"
         /\ \A m : Holds(m, t, n, "kill") <=> m = "signal"
BY DEF Holds, KillPlaces

\* A step of the handler, outside kill().
LEMMA NotifyGoes ==
  ASSUME Inv, NEW t \in Threads, NEW n, n = Len(frames[t]), NEW f \in FrameSet, Becomes(t, f),
         Top(t).at \in {"notify", "iterate"}, f.at \in {"iterate", "kill"},
         HandlerGood(f)', interrupted',
         UNCHANGED <<step, installed, handlers, status>>,
         MutexMoves(t, n, Top(t).at, f.at)
  PROVE  FramesTyped' /\ FramesGood' /\ MutexInv'
<1>1. n > 1 /\ n # 1
  BY HandlerOnTop
<1>2. Keeps(t, n)
  BY KeepsOK DEF Inv
<1>3. f.at \notin KillPlaces /\ f.at # "woken"
  BY DEF KillPlaces
<1>4. FrameGood(t, n, f)'
  BY <1>1, <1>3 DEF FrameGood
<1>5. FramesTyped /\ FramesGood /\ MutexInv
  BY DEF Inv
<1> QED BY <1>2, <1>4, <1>5, Moved

\* A handler that has yet to call all the handlers on the stack.
Lists(f, place, left) == [f EXCEPT !.at = place, !.left = left]

LEMMA FrameLists ==
  ASSUME NEW f \in FrameSet, NEW place \in Places, NEW left \in Nat,
         NEW g, g = Lists(f, place, left)
  PROVE  g \in FrameSet /\ g.at = place /\ g.left = left
<1>1. g = [at |-> place, signal |-> f.signal, stage |-> f.stage, left |-> left]
  BY DEF FrameSet, Lists
<1> QED BY <1>1 DEF FrameSet

LEMMA FrameLeft ==
  ASSUME NEW f \in FrameSet, NEW left \in Nat, NEW g, g = [f EXCEPT !.left = left]
  PROVE  g \in FrameSet /\ g.at = f.at /\ g.left = left
<1>1. g = [at |-> f.at, signal |-> f.signal, stage |-> f.stage, left |-> left]
  BY DEF FrameSet
<1> QED BY <1>1 DEF FrameSet

LEMMA NotifyLocksInv ==
  ASSUME Inv, NEW t \in Threads, NotifyLocks(t)
  PROVE  Inv'
<1>1. Top(t).at = "notify" /\ Lock("signal", t) /\ interrupted' = TRUE
  BY DEF NotifyLocks, At
<1>2. UNCHANGED <<step, installed, handlers, status, child, raised, size, lost,
                  sizeInterrupted, workDirSize, reported>>
  BY DEF NotifyLocks, executorVars, mainVars, sizeVars
<1>3. PICK n : n = Len(frames[t]) /\ n > 1 /\ n # 1
  BY <1>1, HandlerOnTop
<1>4. PICK old \in FrameSet : old = Top(t)
  BY <1>1, HandlerOnTop
<1>5. PICK left \in Nat : left = Len(handlers)
  BY DEF Inv, Values
<1>6. PICK f : f = Lists(old, "iterate", left)
  OBVIOUS
<1>7. f \in FrameSet /\ f.at = "iterate" /\ f.left = left
  <2>1. PICK place \in Places : place = "iterate"
    BY DEF Places
  <2>2. f = Lists(old, place, left)
    BY <1>6, <2>1
  <2>3. f \in FrameSet /\ f.at = place /\ f.left = left
    BY <2>2, FrameLists
  <2> QED BY <2>1, <2>3
<1>8. Becomes(t, f)
  BY <1>4, <1>5, <1>6 DEF NotifyLocks, Lists
<1>9. HandlerGood(f)'
  <2>1. f.left <= Len(handlers')
    BY <1>2, <1>5, <1>7
  <2>2. "iterate" \in HandlerPlaces /\ "iterate" \notin KillPlaces \cup {"kill"}
    BY DEF HandlerPlaces, KillPlaces
  <2> QED BY <1>1, <1>7, <2>1, <2>2 DEF HandlerGood
<1>10. MutexMoves(t, n, Top(t).at, f.at)
  <2>1. "signal" \in Mutexes
    BY DEF Mutexes
  <2>2. MutexMoves(t, n, "notify", "iterate")
    BY <1>1, <1>3, <2>1, NotifyHolds DEF MutexMoves
  <2> QED BY <1>1, <1>7, <2>2
<1>11. FramesTyped' /\ FramesGood' /\ MutexInv'
  BY <1>1, <1>2, <1>3, <1>7, <1>8, <1>9, <1>10, NotifyGoes
<1>12. Values'
  BY <1>1, <1>2 DEF Inv, Values
<1>13. Progress'
  BY <1>1, <1>2 DEF Inv, Progress
<1> QED BY <1>11, <1>12, <1>13 DEF Inv

LEMMA NotifyCallsInv ==
  ASSUME Inv, NEW t \in Threads, NotifyCalls(t)
  PROVE  Inv'
<1>1. Top(t).at = "iterate" /\ Top(t).left > 0
  BY DEF NotifyCalls, At
<1>2. UNCHANGED <<step, mutex, installed, interrupted, handlers, status, child, raised, size, lost,
                  workDirSize, reported>>
  BY DEF NotifyCalls, signalVars, executorVars
<1>3. PICK n : n = Len(frames[t]) /\ n > 1 /\ n # 1
  BY <1>1, HandlerOnTop
<1>4. PICK old \in FrameSet : old = Top(t)
  BY <1>1, HandlerOnTop
<1>5. old.left <= Len(handlers) /\ old.left > 0 /\ old.left \in Nat /\ interrupted
  BY <1>1, <1>4, HandlerOnTop DEF HandlerGood, FrameSet
<1>6. sizeInterrupted' = (sizeInterrupted \/ handlers[old.left] = "size")
  BY <1>4 DEF NotifyCalls
<1>7. MutexMoves(t, n, "iterate", "iterate") /\ MutexMoves(t, n, "iterate", "kill")
  BY <1>2, <1>3, NotifyHolds DEF MutexMoves
<1>8. ASSUME handlers[old.left] = "kill"
      PROVE  FramesTyped' /\ FramesGood' /\ MutexInv'
  <2>1. PICK f : f = [old EXCEPT !.at = "kill"]
    OBVIOUS
  <2>2. f \in FrameSet /\ f.at = "kill" /\ f.left = old.left
    <3>1. "kill" \in Places
      BY DEF Places
    <3> QED BY <2>1, <3>1, FrameAt
  <2>3. Becomes(t, f)
    BY <1>4, <1>8, <2>1 DEF NotifyCalls, Goto
  <2>4. HandlerGood(f)'
    BY <1>2, <1>5, <1>8, <2>2 DEF HandlerGood, HandlerPlaces
  <2> QED BY <1>1, <1>2, <1>3, <1>5, <1>7, <2>2, <2>3, <2>4, NotifyGoes
<1>9. ASSUME handlers[old.left] # "kill"
      PROVE  FramesTyped' /\ FramesGood' /\ MutexInv'
  <2>1. PICK left \in Nat : left = old.left - 1 /\ left <= Len(handlers)
    <3>1. PICK k \in Nat : k = Len(handlers)
      BY DEF Inv, Values
    <3>2. old.left - 1 \in Nat /\ old.left - 1 <= k
      BY <1>5, <3>1
    <3> QED BY <3>1, <3>2
  <2>2. PICK f : f = [old EXCEPT !.left = left]
    OBVIOUS
  <2>3. f \in FrameSet /\ f.at = "iterate" /\ f.left = left
    BY <1>1, <1>4, <2>2, FrameLeft
  <2>4. Becomes(t, f)
    BY <1>4, <1>9, <2>1, <2>2 DEF NotifyCalls
  <2>5. HandlerGood(f)'
    <3>1. "iterate" \in HandlerPlaces /\ "iterate" \notin KillPlaces \cup {"kill"}
      BY DEF HandlerPlaces, KillPlaces
    <3> QED BY <1>2, <1>5, <2>1, <2>3, <3>1 DEF HandlerGood
  <2> QED BY <1>1, <1>2, <1>3, <1>5, <1>7, <2>3, <2>4, <2>5, NotifyGoes
<1>10. Values'
  <2>1. sizeInterrupted' \in BOOLEAN
    BY <1>6 DEF Inv, Values
  <2> QED BY <1>2, <2>1 DEF Inv, Values
<1>11. Progress'
  BY <1>2, <1>5, <1>6 DEF Inv, Progress
<1> QED BY <1>8, <1>9, <1>10, <1>11 DEF Inv

\* gs is W without the last frame of thread t.
Pops(W, t, gs) == gs = [W EXCEPT ![t] = SubSeq(@, 1, Len(@) - 1)]

Popped(W, t, gs) ==
  /\ gs \in [Threads -> Seq(FrameSet)]
  /\ gs[t] # <<>> /\ Len(gs[t]) \in Nat
  /\ 1..Len(gs[t]) = (1..Len(W[t])) \ {Len(W[t])}
  /\ \A u \in Threads : u # t => gs[u] = W[u]
  /\ \A i \in 1..Len(gs[t]) : gs[t][i] = W[t][i]

LEMMA PopsLast ==
  ASSUME NEW W, W \in [Threads -> Seq(FrameSet)], NEW t \in Threads, Len(W[t]) > 1,
         NEW gs, Pops(W, t, gs)
  PROVE  Popped(W, t, gs)
<1>1. PICK q \in Seq(FrameSet) : q = W[t] /\ Len(q) > 1
  OBVIOUS
<1>2. PICK k \in Nat : k = Len(q) - 1 /\ k >= 1 /\ k + 1 = Len(q)
  BY <1>1
<1>3. /\ SubSeq(q, 1, k) \in Seq(FrameSet) /\ Len(SubSeq(q, 1, k)) = k
      /\ \A i \in 1..k : SubSeq(q, 1, k)[i] = q[i]
  BY <1>2
<1>4. gs = [W EXCEPT ![t] = SubSeq(q, 1, k)]
  BY <1>1, <1>2 DEF Pops
<1>5. gs[t] = SubSeq(q, 1, k) /\ gs \in [Threads -> Seq(FrameSet)]
      /\ \A u \in Threads : u # t => gs[u] = W[u]
  BY <1>3, <1>4
<1>6. 1..k = (1..Len(q)) \ {Len(q)}
  BY <1>2
<1>7. gs[t] # <<>>
  <2>1. k # 0
    <3>1. k >= 1
      BY <1>2
    <3> QED BY <3>1
  <2>2. Len(SubSeq(q, 1, k)) # 0
    BY <1>3, <2>1
  <2>3. Len(gs[t]) # 0
    BY <1>5, <2>2
  <2> QED BY <2>3
<1> QED BY <1>1, <1>2, <1>3, <1>5, <1>6, <1>7 DEF Popped

LEMMA NotifyReturnsInv ==
  ASSUME Inv, NEW t \in Threads, NotifyReturns(t)
  PROVE  Inv'
<1>1. Top(t).at = "iterate" /\ Unlock("signal")
  BY DEF NotifyReturns, At
<1>2. UNCHANGED <<step, installed, interrupted, handlers, status, child, raised, size, lost,
                  sizeInterrupted, workDirSize, reported>>
  BY DEF NotifyReturns, signalVars, executorVars, mainVars, sizeVars
<1>3. PICK n : n = Len(frames[t]) /\ n > 1 /\ n # 1
  BY <1>1, HandlerOnTop
<1>4. n \in 1..Len(frames[t]) /\ frames[t][n].at = "iterate"
  <2>1. n \in 1..Len(frames[t])
    BY <1>3, TopGood DEF Inv
  <2> QED BY <1>1, <1>3, <2>1 DEF Top
<1>5. PICK W : W = Woken(frames, "awaiting")
  OBVIOUS
<1>6. IsWoken(frames, "awaiting", W)
  BY <1>5, WokenFrames DEF Inv, FramesTyped
<1>7. PICK gs : gs = frames'
  OBVIOUS
<1>8. Popped(W, t, gs)
  <2>1. Pops(W, t, gs)
    BY <1>5, <1>7 DEF NotifyReturns, Pops
  <2>2. W \in [Threads -> Seq(FrameSet)] /\ Len(W[t]) > 1
    BY <1>3, <1>6 DEF IsWoken
  <2> QED BY <2>1, <2>2, PopsLast
<1>9. /\ gs \in [Threads -> Seq(FrameSet)] /\ gs[t] # <<>> /\ Len(gs[t]) \in Nat
      /\ 1..Len(gs[t]) = (1..Len(frames[t])) \ {n}
      /\ \A u \in Threads : u # t => gs[u] = W[u]
      /\ \A u \in Threads : Len(W[u]) = Len(frames[u])
      /\ \A i \in 1..Len(gs[t]) : gs[t][i] = W[t][i]
  BY <1>3, <1>6, <1>8 DEF IsWoken, Popped
<1>10. Keeps(t, n)
  BY <1>2, KeepsOK DEF Inv
<1>11. ASSUME NEW u \in Threads, NEW i \in 1..Len(gs[u])
       PROVE  /\ i \in 1..Len(frames[u])
              /\ FrameGood(u, i, gs[u][i])'
              /\ \A m \in Mutexes : Holds(m, u, i, gs[u][i].at) <=> Holds(m, u, i, frames[u][i].at)
  <2>1. i \in 1..Len(frames[u]) /\ (u # t \/ i # n) /\ gs[u][i] = W[u][i]
    BY <1>9
  <2>2. PICK h : h = W[u][i]
    OBVIOUS
  <2>3. "awaiting" \in WakingPlaces /\ step' \in 1..20
    BY <1>2 DEF WakingPlaces, Inv, Values
  <2>4. PICK place \in WakingPlaces : place = "awaiting"
    BY <2>3
  <2>5. IsWoken(frames, place, W) /\ (place = "waiting" => status' # "RUNNING")
    BY <1>6, <2>4
  <2>6. FrameGood(u, i, h)'
        /\ \A m \in Mutexes : Holds(m, u, i, h.at) <=> Holds(m, u, i, frames[u][i].at)
    BY <1>10, <2>1, <2>2, <2>3, <2>5, WokenFrame
  <2>7. gs[u][i] = h
    BY <2>1, <2>2
  <2>8. gs[u][i]' = h
    BY <2>7
  <2> QED BY <2>1, <2>6, <2>7, <2>8
<1>12. FramesTyped'
  <2>1. \A u \in Threads : frames'[u] # <<>>
    <3>1. ASSUME NEW u \in Threads, u # t PROVE gs[u] # <<>>
      <4>1. Len(frames[u]) # 0
        BY DEF Inv, FramesTyped
      <4>2. Len(gs[u]) # 0
        BY <1>9, <3>1, <4>1
      <4> QED BY <1>9, <4>2
    <3> QED BY <1>7, <1>9, <3>1
  <2> QED BY <1>7, <1>9, <2>1 DEF FramesTyped
<1>13. FramesGood'
  <2>1. \A u \in Threads : \A i \in 1..Len(frames'[u]) : FrameGood(u, i, frames[u][i])'
    BY <1>7, <1>11
  <2> QED BY <2>1 DEF FramesGood
<1>14. MutexInv'
  <2>1. ~Holds("signal", t, n, "notify") /\ \A m \in Mutexes : ~Holds(m, t, n, "notify")
    BY <1>3, NotifyHolds
  <2>2. HeldMoves(t, n, "notify")
    <3>1. ASSUME NEW m \in Mutexes, NEW u \in Threads
          PROVE  Held(m, u)' = {i \in 1..Len(gs[u]) : Holds(m, u, i, frames[u][i].at)}
      <4>1. Held(m, u)' = {i \in 1..Len(gs[u]) : Holds(m, u, i, gs[u][i].at)}
        BY <1>7 DEF Held
      <4> QED BY <1>11, <4>1
    <3>2. ASSUME NEW m \in Mutexes PROVE Held(m, t)' = Held(m, t) \ {n}
      BY <1>9, <3>1 DEF Held
    <3>3. ASSUME NEW m \in Mutexes, NEW u \in Threads \ {t} PROVE Held(m, u)' = Held(m, u)
      <4>1. Len(gs[u]) = Len(frames[u])
        BY <1>9
      <4> QED BY <3>1, <4>1 DEF Held
    <3> QED BY <2>1, <3>2, <3>3 DEF HeldMoves
  <2>3. MutexMoves(t, n, "iterate", "notify")
    <3>1. "signal" \in Mutexes
      BY DEF Mutexes
    <3> QED BY <1>1, <1>3, <3>1, NotifyHolds DEF MutexMoves
  <2>4. FramesTyped /\ MutexInv
    BY DEF Inv
  <2> QED BY <1>4, <2>2, <2>3, <2>4, MutexesMoved
<1>15. Values' /\ Progress'
  BY <1>2, SameValues
<1> QED BY <1>12, <1>13, <1>14, <1>15 DEF Inv

LEMMA RequestKillInv ==
  ASSUME Inv, NEW h \in Http, RequestKill(h)
  PROVE  Inv'
<1>1. Top(h).at = "idle" /\ Goto(h, "kill") /\ h \in Threads
  BY ThreadFacts DEF RequestKill, At
<1>2. UNCHANGED <<mutex, step, installed, interrupted, handlers, status, child, raised, size, lost,
                  sizeInterrupted, workDirSize, reported>>
  BY DEF RequestKill, signalVars, executorVars, mainVars, sizeVars
<1>3. PICK old \in FrameSet : old = Top(h)
  BY <1>1, TopGood DEF Inv
<1>4. Len(frames[h]) = 1
  <2>1. FrameGood(h, Len(frames[h]), Top(h)) /\ Len(frames[h]) \in Nat /\ Len(frames[h]) >= 1
    BY <1>1, TopGood DEF Inv
  <2>2. Top(h).at \notin HandlerPlaces
    BY <1>1 DEF HandlerPlaces, KillPlaces
  <2> QED BY <2>1, <2>2, OwnFrame
<1>5. PICK f : f = [old EXCEPT !.at = "kill"]
  OBVIOUS
<1>6. f \in FrameSet /\ f.at = "kill"
  <2>1. "kill" \in Places
    BY DEF Places
  <2> QED BY <1>5, <2>1, FrameAt
<1>7. Becomes(h, f)
  BY <1>1, <1>3, <1>5 DEF Goto
<1>8. ~(1 > 1)
  OBVIOUS
<1>9. FrameGood(h, 1, f)'
  <2>1. f.at \in HttpPlaces /\ f.at \notin KillPlaces /\ f.at # "woken"
    BY <1>6 DEF HttpPlaces, KillPlaces
  <2> QED BY <1>8, <2>1, ThreadFacts DEF FrameGood
<1>10. MutexMoves(h, 1, Top(h).at, f.at)
  <2>1. \A m : ~Holds(m, h, 1, "idle") /\ ~Holds(m, h, 1, "kill")
    BY <1>8, ThreadFacts DEF Holds, KillPlaces
  <2> QED BY <1>1, <1>2, <1>6, <2>1 DEF MutexMoves
<1>11. Keeps(h, 1)
  BY <1>1, <1>2, KeepsOK DEF Inv
<1>12. FramesTyped /\ FramesGood /\ MutexInv
  BY DEF Inv
<1>13. FramesTyped' /\ FramesGood' /\ MutexInv'
  BY <1>1, <1>4, <1>6, <1>7, <1>9, <1>10, <1>11, <1>12, Moved
<1>14. Values' /\ Progress'
  BY <1>2, SameValues
<1> QED BY <1>13, <1>14 DEF Inv

LEMMA ProgramEndsInv ==
  ASSUME Inv, ProgramEnds
  PROVE  Inv'
<1>1. UNCHANGED <<frames, mutex, step, installed, interrupted, handlers, status, raised, size, lost,
                  sizeInterrupted, workDirSize, reported>> /\ child' = "zombie"
  BY DEF ProgramEnds, signalVars, mainVars, sizeVars
<1>2. FramesTyped' /\ FramesGood' /\ MutexInv'
  BY <1>1, Unmoved DEF Inv
<1>3. Values' /\ Progress'
  BY <1>1 DEF Inv, Values, Progress
<1> QED BY <1>2, <1>3 DEF Inv

\* The kernel puts the handler of signal s on top of thread t: the thread's own
\* frame goes on from where it was, or waitpid() has failed.
Notifies(fs, t, s, gs) == gs = [fs EXCEPT ![t] = Append(@, Frame("notify", s))]
NotifiesReaper(fs, t, s, gs) ==
  gs = [fs EXCEPT ![t] = <<Frame("done", "none"), Frame("notify", s)>>]

LEMMA NotifyFrame ==
  ASSUME NEW s \in Signals
  PROVE  /\ Frame("notify", s) \in FrameSet /\ Frame("done", "none") \in FrameSet
         /\ Frame("notify", s).at = "notify" /\ Frame("notify", s).left = 0
         /\ Frame("done", "none").at = "done"
<1>1. "notify" \in Places /\ "done" \in Places
  BY ScriptPlacesOK DEF ScriptPlaces, Places
<1> QED BY <1>1 DEF Frame, FrameSet

\* A handler that has not begun is in its place, and holds nothing.
LEMMA NotifyGood ==
  ASSUME NEW t, NEW n, n > 1, n # 1, NEW f, f.at = "notify", f.left = 0, Len(handlers') \in Nat
  PROVE  FrameGood(t, n, f)' /\ \A m : ~Holds(m, t, n, f.at)
<1>1. "notify" \in HandlerPlaces /\ "notify" \notin KillPlaces \cup {"kill"}
      /\ "notify" # "woken"
  BY DEF HandlerPlaces, KillPlaces
<1>2. HandlerGood(f)'
  BY <1>1 DEF HandlerGood
<1>3. f.at \notin KillPlaces /\ f.at # "woken"
  BY <1>1
<1>4. FrameGood(t, n, f)'
  BY <1>2, <1>3 DEF FrameGood
<1>5. \A m : ~Holds(m, t, n, f.at)
  BY NotifyHolds
<1> QED BY <1>4, <1>5

\* Frames that are added hold nothing.
LEMMA AddsFrames ==
  ASSUME Inv, NEW t \in Threads, NEW gs \in [Threads -> Seq(FrameSet)], gs = frames',
         gs[t] # <<>>, UNCHANGED mutex, Keeps(t, 0),
         \A u \in Threads : u # t => gs[u] = frames[u],
         \A i \in 1..Len(gs[t]) : FrameGood(t, i, frames[t][i])',
         \A m \in Mutexes : Held(m, t)' = Held(m, t)
  PROVE  FramesTyped' /\ FramesGood' /\ MutexInv'
<1>1. FramesTyped'
  BY DEF FramesTyped, Inv
<1>2. FramesGood'
  <2>1. ASSUME NEW u \in Threads, NEW i \in 1..Len(gs[u]) PROVE FrameGood(u, i, frames[u][i])'
    <3>1. CASE u = t
      BY <3>1
    <3>2. CASE u # t
      <4>1. PICK g : g = frames[u][i]
        OBVIOUS
      <4>2. i \in 1..Len(frames[u]) /\ g = frames'[u][i]
        BY <3>2, <4>1
      <4>3. g \in FrameSet /\ FrameGood(u, i, g)
        <5>1. i \in 1..Len(frames[u])
          BY <4>2
        <5>2. frames[u][i] \in FrameSet
          BY <5>1 DEF Inv, FramesTyped
        <5>3. FrameGood(u, i, frames[u][i])
          BY <5>1 DEF Inv, FramesGood
        <5> QED BY <4>1, <5>2, <5>3
      <4>4. FrameGood(u, i, g)'
        BY <3>2, <4>1, <4>2, <4>3 DEF Keeps
      <4> QED BY <4>2, <4>4
    <3> QED BY <3>1, <3>2
  <2> QED BY <2>1 DEF FramesGood
<1>3. MutexInv'
  <2>1. \A m \in Mutexes : \A u \in Threads : Held(m, u)' = Held(m, u)
    BY DEF Held
  <2>2. \A m \in Mutexes : MutexCounts(m)'
    BY <2>1, SameCounts DEF Inv
  <2> QED BY <2>2 DEF Inv, MutexInv
<1> QED BY <1>1, <1>2, <1>3

\* Thread t goes on where it was, after the handler.
LEMMA Notified ==
  ASSUME Inv, NEW t \in Threads, NEW s \in Signals, NEW gs, gs = frames',
         Notifies(frames, t, s, gs),
         UNCHANGED <<mutex, step, installed, interrupted, handlers, status>>
  PROVE  FramesTyped' /\ FramesGood' /\ MutexInv'
<1>1. PICK q \in Seq(FrameSet), n \in Nat : q = frames[t] /\ n = Len(q) /\ n >= 1
  BY DEF Inv, FramesTyped
<1>2. PICK f \in FrameSet : f = Frame("notify", s) /\ f.at = "notify" /\ f.left = 0
  BY NotifyFrame
<1>3. /\ Append(q, f) \in Seq(FrameSet) /\ Len(Append(q, f)) = n + 1
      /\ Append(q, f)[n + 1] = f
      /\ \A i \in 1..n : Append(q, f)[i] = q[i]
  BY <1>1
<1>4. gs = [frames EXCEPT ![t] = Append(q, f)] /\ frames \in [Threads -> Seq(FrameSet)]
  BY <1>1, <1>2 DEF Notifies, Inv, FramesTyped
<1>5. /\ gs \in [Threads -> Seq(FrameSet)] /\ gs[t] = Append(q, f)
      /\ \A u \in Threads : u # t => gs[u] = frames[u]
  BY <1>3, <1>4
<1>6. n + 1 > 1 /\ n + 1 # 1 /\ 1..(n + 1) = (1..n) \cup {n + 1}
  BY <1>1
<1>7. Keeps(t, 0)
  BY KeepsOK DEF Inv
<1>8. Len(handlers') \in Nat
  BY DEF Inv, Values
<1>9. FrameGood(t, n + 1, f)' /\ \A m : ~Holds(m, t, n + 1, f.at)
  BY <1>2, <1>6, <1>8, NotifyGood
<1>10. \A i \in 1..Len(gs[t]) : FrameGood(t, i, frames[t][i])'
  <2>1. ASSUME NEW i \in 1..n PROVE FrameGood(t, i, frames[t][i])'
    <3>1. PICK g : g = frames[t][i]
      OBVIOUS
    <3>2. g \in FrameSet /\ FrameGood(t, i, g) /\ i \in 1..Len(frames[t])
      BY <1>1, <3>1 DEF Inv, FramesTyped, FramesGood
    <3>3. g = frames'[t][i] /\ i # 0
      BY <1>1, <1>3, <1>5, <3>1
    <3>4. FrameGood(t, i, g)'
      BY <1>7, <3>1, <3>2, <3>3 DEF Keeps
    <3> QED BY <3>3, <3>4
  <2>2. FrameGood(t, n + 1, frames[t][n + 1])'
    <3>1. frames'[t][n + 1] = f
      BY <1>3, <1>5
    <3> QED BY <1>9, <3>1
  <2> QED BY <1>3, <1>5, <1>6, <2>1, <2>2
<1>11. gs[t] # <<>>
  <2>1. Len(gs[t]) # 0
    BY <1>3, <1>5
  <2> QED BY <2>1
<1>12. ASSUME NEW m \in Mutexes PROVE Held(m, t)' = Held(m, t)
  <2>1. Held(m, t)' = {i \in 1..(n + 1) : Holds(m, t, i, Append(q, f)[i].at)}
    BY <1>3, <1>5 DEF Held
  <2>2. Held(m, t) = {i \in 1..n : Holds(m, t, i, q[i].at)}
    BY <1>1 DEF Held
  <2>3. ~Holds(m, t, n + 1, Append(q, f)[n + 1].at)
    BY <1>3, <1>9
  <2> QED BY <1>3, <1>6, <2>1, <2>2, <2>3
<1> QED BY <1>5, <1>7, <1>10, <1>11, <1>12, AddsFrames

\* The background thread was in waitpid(), and stores an outcome no more.
LEMMA ReaperNotified ==
  ASSUME Inv, At(Reaper, "waitpid"), NEW s \in Signals, NEW gs, gs = frames',
         NotifiesReaper(frames, Reaper, s, gs),
         UNCHANGED <<mutex, step, installed, interrupted, handlers, status>>
  PROVE  FramesTyped' /\ FramesGood' /\ MutexInv'
<1>1. Len(frames[Reaper]) = 1 /\ Top(Reaper).at = "waitpid" /\ status # "NOT_STARTED"
  BY ReaperAt
<1>2. PICK f \in FrameSet : f = Frame("notify", s) /\ f.at = "notify" /\ f.left = 0
  BY NotifyFrame
<1>3. PICK e \in FrameSet : e = Frame("done", "none") /\ e.at = "done"
  BY NotifyFrame
<1>4. gs = [frames EXCEPT ![Reaper] = <<e, f>>] /\ frames \in [Threads -> Seq(FrameSet)]
  BY <1>2, <1>3 DEF NotifiesReaper, Inv, FramesTyped
<1>5. /\ gs \in [Threads -> Seq(FrameSet)] /\ gs[Reaper] = <<e, f>>
      /\ \A u \in Threads : u # Reaper => gs[u] = frames[u]
  <2>1. <<e, f>> \in Seq(FrameSet)
    OBVIOUS
  <2> QED BY <1>4, <2>1, ThreadFacts
<1>6. Len(gs[Reaper]) = 2 /\ gs[Reaper][1] = e /\ gs[Reaper][2] = f /\ gs[Reaper] # <<>>
  BY <1>5
<1>7. Keeps(Reaper, 0)
  BY KeepsOK, ThreadFacts DEF Inv
<1>8. Len(handlers') \in Nat /\ 2 > 1 /\ 2 # 1
  BY DEF Inv, Values
<1>9. FrameGood(Reaper, 2, f)' /\ \A m : ~Holds(m, Reaper, 2, f.at)
  BY <1>2, <1>8, NotifyGood
<1>10. FrameGood(Reaper, 1, e)'
  <2>1. ReaperGood(e.at)'
    BY <1>1, <1>3 DEF ReaperGood
  <2>2. e.at \notin KillPlaces
    BY <1>3 DEF KillPlaces
  <2> QED BY <2>1, <2>2, ReaperFrame
<1>11. \A i \in 1..Len(gs[Reaper]) : FrameGood(Reaper, i, frames[Reaper][i])'
  <2>1. FrameGood(Reaper, 1, frames[Reaper][1])'
    <3>1. frames'[Reaper][1] = e
      BY <1>6
    <3> QED BY <1>10, <3>1
  <2>2. FrameGood(Reaper, 2, frames[Reaper][2])'
    <3>1. frames'[Reaper][2] = f
      BY <1>6
    <3> QED BY <1>9, <3>1
  <2>3. 1..Len(gs[Reaper]) = {1, 2}
    BY <1>6
  <2> QED BY <2>1, <2>2, <2>3
<1>12. ASSUME NEW m \in Mutexes PROVE Held(m, Reaper)' = Held(m, Reaper)
  <2>1. Held(m, Reaper) = {}
    <3>1. \A i \in 1..Len(frames[Reaper]) : i = 1
      BY <1>1
    <3>2. frames[Reaper][1].at = "waitpid"
      BY <1>1 DEF Top
    <3> QED BY <3>1, <3>2, ReaperHolds DEF Held
  <2>2. Held(m, Reaper)' = {}
    <3>1. \A i \in 1..Len(gs[Reaper]) : i = 1 \/ i = 2
      BY <1>6
    <3>2. ~Holds(m, Reaper, 1, gs[Reaper][1].at) /\ ~Holds(m, Reaper, 2, gs[Reaper][2].at)
      BY <1>3, <1>6, <1>9, ReaperHolds
    <3>3. \A i \in 1..Len(gs[Reaper]) : ~Holds(m, Reaper, i, gs[Reaper][i].at)
      BY <3>1, <3>2
    <3> QED BY <3>3 DEF Held
  <2> QED BY <2>1, <2>2
<1> QED BY <1>5, <1>6, <1>7, <1>11, <1>12, AddsFrames, ThreadFacts

\* A signal ends the executor that has not installed a handler.
LEMMA Ends ==
  ASSUME Inv, ~installed, NEW gs, gs = frames',
         gs = [frames EXCEPT ![Main][1].at = "dead"],
         UNCHANGED <<mutex, step, installed, interrupted, handlers, status>>
  PROVE  FramesTyped' /\ FramesGood' /\ MutexInv'
<1>1. frames \in [Threads -> Seq(FrameSet)] /\ 1 \in 1..Len(frames[Main]) /\ ~(1 > 1)
  BY ThreadFacts DEF Inv, FramesTyped
<1>2. PICK old \in FrameSet : old = frames[Main][1] /\ FrameGood(Main, 1, old)
  BY <1>1, ThreadFacts DEF Inv, FramesTyped, FramesGood
<1>3. MainGood(old.at) /\ step \in 1..20
  BY <1>2 DEF FrameGood, Inv, Values
<1>4. \A m : ~Holds(m, Main, 1, old.at) /\ ~Holds(m, Main, 1, "dead")
  <2>1. \A m : ~Holds(m, Main, 1, "dead")
    BY <1>1 DEF Holds, KillPlaces
  <2>2. \A m : ~Holds(m, Main, 1, Script[step])
    BY <1>3, ScriptHoldsNothing
  <2>3. old.at = Script[step] \/ old.at = "dead"
    BY <1>3 DEF MainGood
  <2> QED BY <2>1, <2>2, <2>3
<1>5. PICK f : f = [old EXCEPT !.at = "dead"]
  OBVIOUS
<1>6. f \in FrameSet /\ f.at = "dead"
  <2>1. "dead" \in Places
    BY DEF Places
  <2> QED BY <1>5, <2>1, FrameAt
<1>7. Replaces(frames, Main, 1, f, gs)
  BY <1>1, <1>2, <1>5, ThreadFacts DEF Replaces
<1>8. FrameGood(Main, 1, f)'
  <2>1. MainGood(f.at)'
    BY <1>3, <1>6 DEF MainGood, AtMain
  <2> QED BY <1>6, <2>1, MainFrame
<1>9. MutexMoves(Main, 1, frames[Main][1].at, f.at)
  BY <1>2, <1>4, <1>6 DEF MutexMoves
<1>10. Keeps(Main, 1)
  BY KeepsOK, ThreadFacts DEF Inv
<1>11. FramesTyped /\ FramesGood /\ MutexInv
  BY DEF Inv
<1> QED BY <1>1, <1>6, <1>7, <1>8, <1>9, <1>10, <1>11, MovedOne, ThreadFacts

\* Only the background thread is in waitpid().
LEMMA InWaitPid ==
  ASSUME Inv, NEW t \in Threads, At(t, "waitpid")
  PROVE  t = Reaper
<1>1. FrameGood(t, Len(frames[t]), Top(t)) /\ Len(frames[t]) \in Nat /\ Len(frames[t]) >= 1
  BY TopGood DEF Inv
<1>2. /\ "waitpid" \notin HandlerPlaces /\ "waitpid" \notin HttpPlaces
      /\ "waitpid" \notin ScriptPlaces
  BY DEF HandlerPlaces, HttpPlaces, KillPlaces, ScriptPlaces
<1>3. Len(frames[t]) = 1 /\ Top(t).at = "waitpid"
  BY <1>1, <1>2, OwnFrame DEF At
<1>4. Script[step] # "waitpid"
  BY <1>2, ScriptRange DEF Inv, Values
<1>5. ~MainGood("waitpid")
  BY <1>4 DEF MainGood, AtMain
<1> QED BY <1>1, <1>2, <1>3, <1>5 DEF FrameGood, Threads

LEMMA DeliverInv ==
  ASSUME Inv, NEW s \in Signals, NEW t \in Threads, Deliver(s, t)
  PROVE  Inv'
<1>1. UNCHANGED <<mutex, step, installed, interrupted, handlers, status, child, size, lost,
                  sizeInterrupted, workDirSize, reported>>
      /\ raised < MaxSignals /\ raised' = raised + 1
  BY DEF Deliver, signalVars, executorVars, mainVars, sizeVars
<1>2. PICK gs : gs = frames'
  OBVIOUS
<1>3. FramesTyped' /\ FramesGood' /\ MutexInv'
  <2>1. CASE ~installed
    <3>1. gs = [frames EXCEPT ![Main][1].at = "dead"]
      BY <1>2, <2>1 DEF Deliver
    <3> QED BY <1>1, <1>2, <2>1, <3>1, Ends
  <2>2. CASE installed /\ At(t, "waitpid") /\ child # "zombie"
    <3>1. NotifiesReaper(frames, t, s, gs)
      BY <1>2, <2>2 DEF Deliver, NotifiesReaper
    <3>2. t = Reaper
      BY <2>2, InWaitPid
    <3> QED BY <1>1, <1>2, <2>2, <3>1, <3>2, ReaperNotified
  <2>3. CASE installed /\ ~(At(t, "waitpid") /\ child # "zombie")
    <3>1. Notifies(frames, t, s, gs)
      BY <1>2, <2>3 DEF Deliver, Notifies
    <3> QED BY <1>1, <1>2, <3>1, Notified
  <2> QED BY <2>1, <2>2, <2>3
<1>4. raised' \in 0..MaxSignals
  BY <1>1, InputAssumption DEF Inv, Values
<1>5. Values'
  BY <1>1, <1>4 DEF Inv, Values
<1>6. Progress'
  BY <1>1 DEF Inv, Progress
<1> QED BY <1>3, <1>5, <1>6 DEF Inv

-------------------------------------------------------------------------------
(* The invariant. *)

LEMMA InitInv ==
  ASSUME Init
  PROVE  Inv
<1>1. PICK F : F = [t \in Threads |->
                     Frame(IF t = Main THEN "start" ELSE IF t = Reaper THEN "none" ELSE "idle",
                           "none")]
  OBVIOUS
<1>2. /\ F[Main].at = "start" /\ F[Reaper].at = "none"
      /\ \A h \in Http : F[h].at = "idle"
      /\ \A t \in Threads : F[t] \in FrameSet
  <2>1. "start" \in Places /\ "none" \in Places /\ "idle" \in Places
    BY ScriptPlacesOK DEF ScriptPlaces, Places
  <2>2. \A at \in {"start", "none", "idle"} : Frame(at, "none") \in FrameSet
    BY <2>1 DEF Frame, FrameSet
  <2>3. \A t \in Threads : F[t] = Frame(IF t = Main THEN "start"
                                        ELSE IF t = Reaper THEN "none" ELSE "idle", "none")
    BY <1>1
  <2>4. \A t \in Threads : F[t] \in FrameSet
    BY <2>2, <2>3
  <2>5. \A at : Frame(at, "none").at = at
    BY DEF Frame
  <2>6. F[Main] = Frame("start", "none") /\ F[Reaper] = Frame("none", "none")
    BY <2>3, ThreadFacts
  <2>7. ASSUME NEW h \in Http PROVE F[h].at = "idle"
    <3>1. h \in Threads /\ h # Main /\ h # Reaper
      BY ThreadFacts
    <3>2. F[h] = Frame("idle", "none")
      BY <2>3, <3>1
    <3> QED BY <2>5, <3>2
  <2> QED BY <2>4, <2>5, <2>6, <2>7
<1>3. frames = [t \in Threads |-> <<F[t]>>]
  BY <1>1 DEF Init
<1>4. /\ \A t \in Threads : Len(frames[t]) = 1 /\ frames[t][1] = F[t] /\ frames[t] # <<>>
      /\ frames \in [Threads -> Seq(FrameSet)]
  BY <1>2, <1>3
<1>5. Values
  <2>1. 0 \in 0..MaxSignals /\ -1 \in -1..Entries
    BY InputAssumption
  <2>2. <<>> \in Seq(DOMAIN Pushes) /\ 1 \in 1..20
    OBVIOUS
  <2>3. size \in Nat /\ lost \in Nat /\ size + lost <= Entries
    BY InputAssumption DEF Init
  <2> QED BY <2>1, <2>2, <2>3 DEF Init, Values
<1>6. ASSUME NEW t \in Threads, NEW i \in 1..Len(frames[t])
       PROVE  i = 1 /\ frames[t][i] = F[t]
  <2>1. i \in 1..1
    BY <1>4
  <2>2. i = 1
    BY <2>1
  <2> QED BY <1>4, <2>2
<1>7. Progress
  BY DEF Init, Progress
<1>8. FramesTyped
  BY <1>4 DEF FramesTyped
<1>9. ~(1 > 1)
  OBVIOUS
<1>10. /\ "start" \notin KillPlaces /\ "none" \notin KillPlaces /\ "idle" \notin KillPlaces
      /\ "idle" \in HttpPlaces /\ "woken" \in KillPlaces
  BY DEF KillPlaces, HttpPlaces
<1>11. MainGood("start") /\ ReaperGood("none")
  <2>1. step = 1 /\ Script[step] = "start"
    BY ScriptAt DEF Init
  <2> QED BY <2>1 DEF MainGood, AtMain, ReaperGood
<1>12. FramesGood
  <2>1. ASSUME NEW t \in Threads PROVE FrameGood(t, 1, F[t])
    <3>1. CASE t = Main
      BY <1>2, <1>9, <1>10, <1>11, <3>1, ThreadFacts DEF FrameGood
    <3>2. CASE t = Reaper
      BY <1>2, <1>9, <1>10, <1>11, <3>2, ThreadFacts DEF FrameGood
    <3>3. CASE t \in Http
      BY <1>2, <1>9, <1>10, <3>3, ThreadFacts DEF FrameGood
    <3> QED BY <3>1, <3>2, <3>3 DEF Threads
  <2> QED BY <1>6, <2>1 DEF FramesGood
<1>13. MutexInv
  <2>1. \A m \in Mutexes : mutex[m].by = "none" /\ mutex[m].depth = 0
    BY DEF Init
  <2>2. ASSUME NEW m \in Mutexes, NEW t \in Threads PROVE Cardinality(Held(m, t)) = 0
    <3>1. F[t].at \in {"start", "none", "idle"}
      BY <1>2 DEF Threads
    <3>2. ~Holds(m, t, 1, F[t].at)
      BY <1>9, <3>1 DEF Holds, KillPlaces
    <3>3. Held(m, t) = {}
      BY <1>6, <3>2 DEF Held
    <3> QED BY <3>3, FS_EmptySet
  <2>3. mutex \in [Mutexes -> [by : Threads \cup {"none"}, depth : Nat]]
    BY DEF Init
  <2>4. \A m \in Mutexes : MutexCounts(m)
    BY <2>1, <2>2, ThreadFacts DEF MutexCounts
  <2> QED BY <2>3, <2>4 DEF MutexInv
<1> QED BY <1>5, <1>7, <1>8, <1>12, <1>13 DEF Inv

LEMMA NextInv ==
  ASSUME Inv, [Next]_vars
  PROVE  Inv'
<1>1. ASSUME NEW t \in Threads, KillStep(t) PROVE Inv'
  BY <1>1, KillInv, LockKillInv, KillIfRunningInv, WaitInv, WaitSleepsInv, ExpireInv,
     LeaveWaitInv, GiveUpInv DEF KillStep
<1>2. ASSUME NEW t \in Threads, NotifyStep(t) PROVE Inv'
  BY <1>2, NotifyLocksInv, NotifyCallsInv, NotifyReturnsInv DEF NotifyStep
<1>3. ASSUME ReaperStep PROVE Inv'
  BY <1>3, WaitPidInv, LockToStoreInv, StoreStatusInv DEF ReaperStep
<1>4. ASSUME MainStep PROVE Inv'
  BY <1>4, StartInv, PopInv, AwaitInv, AwaitSleepsInv, AwaitReturnsInv, PushInstallsInv,
     PushAppendsInv, ProceedInv, WalkInv, WalkEndsInv, KeepSizeInv, ReportInv, TestNoExitInv
     DEF MainStep
<1>5. ASSUME NEW t \in Threads, Step(t) PROVE Inv'
  BY <1>1, <1>2, <1>3, <1>4, <1>5 DEF Step
<1>6. CASE UNCHANGED vars
  <2>1. UNCHANGED <<frames, mutex, step, installed, interrupted, handlers, status, child, raised,
                    size, lost, sizeInterrupted, workDirSize, reported>>
    BY <1>6 DEF vars, signalVars, executorVars, mainVars, sizeVars
  <2>2. FramesTyped' /\ FramesGood' /\ MutexInv'
    BY <2>1, Unmoved DEF Inv
  <2>3. Values' /\ Progress'
    BY <2>1, SameValues
  <2> QED BY <2>2, <2>3 DEF Inv
<1> QED BY <1>5, <1>6, RequestKillInv, DeliverInv, ProgramEndsInv DEF Next

\* The invariant: main() and the handlers are where they may be, each frame that is
\* between a lock and its unlock counts in the depth of the mutex, and main() has the
\* status, the flags and the size that go with how far it is.
THEOREM Invariance == Spec => []Inv
<1>1. Init => Inv
  BY InitInv
<1>2. Inv /\ [Next]_vars => Inv'
  BY NextInv
<1> QED BY <1>1, <1>2, PTL DEF Spec

\* Every variable has its type: in particular, no frame is ever at a place that the
\* code does not have, and main() is always at an item of its Script.
THEOREM TypeCorrect == Spec => []TypeOK
<1>1. Inv => TypeOK
  <2> SUFFICES ASSUME Inv PROVE TypeOK
    OBVIOUS
  <2>1. frames \in [Threads -> Seq([at : Places, signal : Signals \cup {"none"},
                                    stage : 1..3, left : Nat])]
    BY DEF Inv, FramesTyped, FrameSet
  <2>2. step \in DOMAIN Script
    BY ScriptAt DEF Inv, Values
  <2>3. mutex \in [Mutexes -> [by : Threads \cup {"none"}, depth : Nat]]
    BY DEF Inv, MutexInv
  <2>4. {size, lost, size + lost} \subseteq 0..Entries
    <3>1. size \in Nat /\ lost \in Nat /\ size + lost <= Entries /\ Entries \in Nat
      BY InputAssumption DEF Inv, Values
    <3>2. size \in 0..Entries /\ lost \in 0..Entries /\ size + lost \in 0..Entries
      BY <3>1
    <3> QED BY <3>2
  <2>5. {installed, interrupted, sizeInterrupted} \subseteq BOOLEAN
    BY DEF Inv, Values
  <2> QED BY <2>1, <2>2, <2>3, <2>4, <2>5 DEF Inv, Values, TypeOK
<1> QED BY <1>1, Invariance, PTL

\* The handlers that a thread inside notify() has still to call are on the stack, and
\* the one that it is inside, kill(), too: main() pops none of them, since the thread
\* holds the mutex until it returns, however often it is interrupted in its turn.
THEOREM HandlersStay == Spec => []HandlerInScope
<1>1. Inv => HandlerInScope
  <2> SUFFICES ASSUME Inv, NEW t \in Threads, NEW i \in 2..Len(frames[t])
               PROVE  /\ frames[t][i].left <= Len(handlers)
                      /\ frames[t][i].at \in KillPlaces =>
                           frames[t][i].left > 0 /\ handlers[frames[t][i].left] = "kill"
    BY DEF HandlerInScope
  <2>1. i \in 1..Len(frames[t]) /\ i > 1
    BY DEF Inv, FramesTyped
  <2>2. FrameGood(t, i, frames[t][i])
    BY <2>1 DEF Inv, FramesGood
  <2>3. HandlerGood(frames[t][i])
    BY <2>1, <2>2 DEF FrameGood
  <2> QED BY <2>3 DEF HandlerGood
<1> QED BY <1>1, Invariance, PTL

\* The size that main() reports is never that of a walk that a signal has cut short,
\* whenever the signal comes and whichever thread handles it: it misses the entries
\* that getFsSize has dropped for an error, and no other; or it is -1.
THEOREM SizeMissesOnlyErrors == Spec => []SizeReported
<1>1. Inv => SizeReported
  <2> SUFFICES ASSUME Inv, reported # "none"
               PROVE  workDirSize = Entries - lost \/ (workDirSize = -1 /\ interrupted)
    BY DEF SizeReported
  <2>1. step > 10 /\ step \in 1..20
    BY DEF Inv, Progress, Values
  <2>2. step > 8
    BY <2>1
  <2> QED BY <2>2 DEF Inv, Progress
<1> QED BY <1>1, Invariance, PTL

-------------------------------------------------------------------------------
(* kill() returns only when the program is over, or given up. *)

\* The frames that are in kill() and stay on top are in kill() after the step.
StaysInKill ==
  \A t \in Threads :
    /\ Top(t).at \in KillPlaces /\ ~InMain(t)
    /\ Len(frames'[t]) = Len(frames[t])
    => frames'[t][Len(frames[t])].at \in KillPlaces

LEMMA BecomesStays ==
  ASSUME Inv, NEW u \in Threads, NEW f, Becomes(u, f),
         Top(u).at \notin KillPlaces \/ InMain(u) \/ f.at \in KillPlaces
  PROVE  StaysInKill
<1>1. PICK n : n = Len(frames[u]) /\ n \in 1..Len(frames[u])
  BY TopGood DEF Inv
<1>2. frames \in [Threads -> Seq(FrameSet)]
  BY DEF Inv, FramesTyped
<1>3. frames' = [frames EXCEPT ![u][n] = f]
  BY <1>1 DEF Becomes
<1>4. frames'[u][n] = f /\ \A t \in Threads : t # u => frames'[t] = frames[t]
  BY <1>1, <1>2, <1>3
<1> QED BY <1>1, <1>4 DEF StaysInKill, Top

LEMMA GotoStays ==
  ASSUME Inv, NEW u \in Threads, NEW place, Goto(u, place),
         Top(u).at \notin KillPlaces \/ InMain(u) \/ place \in KillPlaces
  PROVE  StaysInKill
<1>1. PICK old \in FrameSet : old = Top(u)
  BY TopGood DEF Inv
<1>2. PICK f : f = [old EXCEPT !.at = place]
  OBVIOUS
<1>3. Becomes(u, f)
  BY <1>1, <1>2 DEF Goto
<1>4. place \in KillPlaces => f.at \in KillPlaces
  <2> SUFFICES ASSUME place \in KillPlaces PROVE f.at \in KillPlaces
    OBVIOUS
  <2>1. place \in Places
    BY DEF Places
  <2> QED BY <1>2, <2>1, FrameAt
<1> QED BY <1>3, <1>4, BecomesStays

LEMMA SameStays ==
  ASSUME UNCHANGED frames
  PROVE  StaysInKill
BY DEF StaysInKill, Top

LEMMA MainStays ==
  ASSUME Inv, NEW k, MainGoto(k), Top(Main).at \notin KillPlaces \/ InMain(Main)
  PROVE  StaysInKill
BY GotoStays, ThreadFacts DEF MainGoto

\* The steps of kill() itself.
LEMMA KillStepStays ==
  ASSUME Inv, NEW t \in Threads, KillStep(t), status = "RUNNING", status' = "RUNNING"
  PROVE  StaysInKill
<1>1. /\ "kill" \notin KillPlaces /\ "lock kill" \in KillPlaces /\ "signal" \in KillPlaces
      /\ "wait" \in KillPlaces /\ "tested" \in KillPlaces /\ "waiting" \in KillPlaces
      /\ "expired" \in KillPlaces /\ "giveup" \in KillPlaces
  BY DEF KillPlaces
<1>2. CASE Kill(t)
  BY <1>1, <1>2, GotoStays DEF Kill
<1>3. CASE LockKill(t)
  BY <1>1, <1>3, GotoStays DEF LockKill
<1>4. CASE KillIfRunning(t)
  BY <1>1, <1>4, GotoStays DEF KillIfRunning
<1>5. CASE Wait(t)
  BY <1>1, <1>5, GotoStays DEF Wait
<1>6. CASE WaitSleeps(t)
  BY <1>1, <1>6, GotoStays DEF WaitSleeps
<1>7. CASE Expire(t)
  BY <1>1, <1>7, GotoStays DEF Expire
<1>8. CASE LeaveWait(t)
  <2>1. CASE InMain(t)
    <3>1. t = Main /\ MainGoto(step + 1)
      BY <1>8, <2>1 DEF LeaveWait, WaitReturns, InMain, MainNext
    <3> QED BY <2>1, <3>1, MainStays
  <2>2. CASE ~InMain(t)
    <3>1. Top(t).at # "woken"
      <4>1. ~(t = Main /\ Len(frames[t]) = 1)
        BY <2>2, InMainAlone DEF Inv
      <4>2. FrameGood(t, Len(frames[t]), Top(t))
        BY TopGood DEF Inv
      <4> QED BY <4>1, <4>2 DEF FrameGood
    <3>2. WaitReturns(t, FALSE)
      BY <1>8, <3>1 DEF LeaveWait, At
    <3>3. CASE Top(t).stage < 3
      <4>1. PICK old \in FrameSet : old = Top(t)
        BY TopGood DEF Inv
      <4>2. PICK f : f = [old EXCEPT !.at = "signal", !.stage = old.stage + 1]
        OBVIOUS
      <4>3. f.at = "signal"
        <5>1. old.stage < 3
          BY <3>3, <4>1
        <5> QED BY <4>2, <5>1, NextAttempt
      <4>4. Becomes(t, f)
        BY <2>2, <3>2, <3>3, <4>1, <4>2 DEF WaitReturns
      <4> QED BY <1>1, <4>3, <4>4, BecomesStays
    <3>4. CASE ~(Top(t).stage < 3)
      <4>1. Goto(t, "giveup")
        BY <2>2, <3>2, <3>4 DEF WaitReturns
      <4> QED BY <1>1, <4>1, GotoStays
    <3> QED BY <3>3, <3>4
  <2> QED BY <2>1, <2>2
<1>9. CASE GiveUp(t)
  BY <1>9 DEF GiveUp
<1> QED BY <1>2, <1>3, <1>4, <1>5, <1>6, <1>7, <1>8, <1>9 DEF KillStep

\* The handlers that call it.
LEMMA NotifyStepStays ==
  ASSUME Inv, NEW t \in Threads, NotifyStep(t)
  PROVE  StaysInKill
<1>1. "notify" \notin KillPlaces /\ "iterate" \notin KillPlaces /\ "awaiting" \notin KillPlaces
  BY DEF KillPlaces
<1>2. CASE NotifyLocks(t)
  <2>1. \E f : Becomes(t, f)
    BY <1>2 DEF NotifyLocks
  <2> QED BY <1>1, <1>2, <2>1, BecomesStays DEF NotifyLocks, At
<1>3. CASE NotifyCalls(t)
  <2>1. \E f : Becomes(t, f)
    BY <1>3 DEF NotifyCalls, Goto
  <2> QED BY <1>1, <1>3, <2>1, BecomesStays DEF NotifyCalls, At
<1>4. CASE NotifyReturns(t)
  <2>1. PICK W : W = Woken(frames, "awaiting")
    OBVIOUS
  <2>2. IsWoken(frames, "awaiting", W)
    BY <2>1, WokenFrames DEF Inv, FramesTyped
  <2>3. PICK gs : gs = frames'
    OBVIOUS
  <2>4. Len(frames[t]) > 1 /\ Len(W[t]) = Len(frames[t]) /\ Len(frames[t]) \in Nat
    BY <1>4, <2>2, HandlerOnTop DEF IsWoken, NotifyReturns, At
  <2>5. Popped(W, t, gs)
    <3>1. Pops(W, t, gs)
      BY <1>4, <2>1, <2>3 DEF NotifyReturns, Pops
    <3>2. W \in [Threads -> Seq(FrameSet)] /\ Len(W[t]) > 1
      BY <2>2, <2>4 DEF IsWoken
    <3> QED BY <3>1, <3>2, PopsLast
  <2> SUFFICES ASSUME NEW u \in Threads, Top(u).at \in KillPlaces,
                      Len(frames'[u]) = Len(frames[u])
               PROVE  frames'[u][Len(frames[u])].at \in KillPlaces
    BY DEF StaysInKill
  <2>6. PICK n : n = Len(frames[u]) /\ n \in 1..Len(frames[u])
    BY TopGood DEF Inv
  <2>7. u # t
    <3>1. Top(t).at = "iterate"
      BY <1>4 DEF NotifyReturns, At
    <3> QED BY <1>1, <3>1
  <2>8. gs[u] = W[u]
    BY <2>5, <2>7 DEF Popped
  <2>9. frames[u][n].at \in KillPlaces /\ frames[u][n].at # "awaiting"
    BY <1>1, <2>6 DEF Top
  <2>10. W[u][n] = frames[u][n]
    BY <2>2, <2>6, <2>9 DEF IsWoken
  <2> QED BY <2>3, <2>6, <2>8, <2>9, <2>10
<1> QED BY <1>2, <1>3, <1>4 DEF NotifyStep

\* The steps of main() itself and of the background thread.
LEMMA MainStepStays ==
  ASSUME Inv, MainStep, status = "RUNNING"
  PROVE  StaysInKill
<1>1. /\ "pop" \notin KillPlaces /\ "await" \notin KillPlaces
      /\ "tested to await" \notin KillPlaces /\ "pushing" \notin KillPlaces
      /\ "save" \notin KillPlaces /\ "run after" \notin KillPlaces /\ "join" \notin KillPlaces
      /\ "stop" \notin KillPlaces /\ "walk" \notin KillPlaces /\ "measured" \notin KillPlaces
      /\ "report" \notin KillPlaces /\ "no exit" \notin KillPlaces
      /\ "push kill" \notin KillPlaces /\ "push size" \notin KillPlaces
      /\ "push persist" \notin KillPlaces /\ "push exit" \notin KillPlaces
  BY DEF KillPlaces
<1>2. CASE Start
  <2>1. Len(frames[Main]) = 1 /\ Script[step] = "start" /\ step \in 1..20
    <3>1. "start" \in ScriptPlaces \ {"wait"} /\ At(Main, "start")
      BY <1>2 DEF ScriptPlaces, Start
    <3> QED BY <3>1, InScript DEF Inv, Values
  <2>2. step = 1
    BY <2>1, ScriptStep
  <2>3. status = "NOT_STARTED"
    BY <2>2 DEF Inv, Progress
  <2> QED BY <2>3
<1>3. CASE Pop
  BY <1>1, <1>3, MainStays DEF Pop, At, MainNext
<1>4. CASE Await
  <2>1. Top(Main).at \notin KillPlaces
    BY <1>1, <1>4 DEF Await, At
  <2>2. MainGoto(step + 1) \/ Goto(Main, "tested to await")
    BY <1>4 DEF Await, MainNext
  <2> QED BY <2>1, <2>2, MainStays, GotoStays, ThreadFacts
<1>5. CASE AwaitSleeps
  BY <1>1, <1>5, GotoStays, ThreadFacts DEF AwaitSleeps, At
<1>6. CASE AwaitReturns
  BY <1>6, MainStays DEF AwaitReturns, MainNext
<1>7. ASSUME NEW h \in DOMAIN Pushes, PushInstalls(h) PROVE StaysInKill
  <2>1. Pushes[h] \notin KillPlaces
    BY <1>1, PushesAt
  <2> QED BY <1>7, <2>1, GotoStays, ThreadFacts DEF PushInstalls, At
<1>8. ASSUME NEW h \in DOMAIN Pushes, PushAppends(h) PROVE StaysInKill
  BY <1>1, <1>8, MainStays DEF PushAppends, At, MainNext
<1>9. CASE Proceed
  BY <1>1, <1>9, MainStays DEF Proceed, At, MainNext
<1>10. CASE WalkOn \/ WalkFails
  BY <1>10, SameStays DEF WalkOn, WalkFails
<1>11. CASE WalkEnds
  BY <1>1, <1>11, MainStays DEF WalkEnds, At, MainNext
<1>12. CASE KeepSize
  BY <1>1, <1>12, MainStays DEF KeepSize, At, MainNext
<1>13. CASE Report
  BY <1>1, <1>13, MainStays DEF Report, At, MainNext
<1>14. CASE TestNoExit
  <2>1. Top(Main).at \notin KillPlaces
    BY <1>1, <1>14 DEF TestNoExit, At
  <2>2. \E k : MainGoto(k)
    BY <1>14 DEF TestNoExit, MainNext
  <2> QED BY <2>1, <2>2, MainStays
<1> QED BY <1>2, <1>3, <1>4, <1>5, <1>6, <1>7, <1>8, <1>9, <1>10, <1>11, <1>12, <1>13, <1>14
        DEF MainStep

LEMMA ReaperStepStays ==
  ASSUME Inv, ReaperStep, status' = "RUNNING"
  PROVE  StaysInKill
<1>1. "waitpid" \notin KillPlaces /\ "reaped" \notin KillPlaces
  BY DEF KillPlaces
<1>2. CASE WaitPid
  BY <1>1, <1>2, GotoStays, ThreadFacts DEF WaitPid, At
<1>3. CASE LockToStore
  BY <1>1, <1>3, GotoStays, ThreadFacts DEF LockToStore, At
<1>4. CASE StoreStatus
  BY <1>4 DEF StoreStatus
<1> QED BY <1>2, <1>3, <1>4 DEF ReaperStep

\* A handler that is put on top of a thread leaves what the thread does.
LEMMA DeliverStays ==
  ASSUME Inv, NEW s \in Signals, NEW t \in Threads, Deliver(s, t)
  PROVE  StaysInKill
<1> SUFFICES ASSUME NEW u \in Threads, Top(u).at \in KillPlaces, ~InMain(u),
                    Len(frames'[u]) = Len(frames[u])
             PROVE  frames'[u][Len(frames[u])].at \in KillPlaces
  BY DEF StaysInKill
<1>1. frames \in [Threads -> Seq(FrameSet)]
  BY DEF Inv, FramesTyped
<1>2. PICK n : n = Len(frames[u]) /\ n \in 1..Len(frames[u]) /\ frames[u][n].at \in KillPlaces
  BY TopGood DEF Inv, Top
<1>3. CASE ~installed
  <2>1. frames' = [frames EXCEPT ![Main][1].at = "dead"]
    BY <1>3 DEF Deliver
  <2>2. u # Main \/ n # 1
    BY <1>2, InMainAlone DEF Inv
  <2>3. frames'[u][n] = frames[u][n]
    BY <1>1, <1>2, <2>1, <2>2, ThreadFacts
  <2> QED BY <1>2, <2>3
<1>4. CASE installed /\ At(t, "waitpid") /\ child # "zombie"
  <2>1. frames' = [frames EXCEPT ![t] = <<Frame("done", "none"), Frame("notify", s)>>]
    BY <1>4 DEF Deliver
  <2>2. u # t
    <3>1. "waitpid" \notin KillPlaces
      BY DEF KillPlaces
    <3> QED BY <1>4, <3>1 DEF At
  <2>3. frames'[u] = frames[u]
    BY <1>1, <2>1, <2>2
  <2> QED BY <1>2, <2>3
<1>5. CASE installed /\ ~(At(t, "waitpid") /\ child # "zombie")
  <2>1. frames' = [frames EXCEPT ![t] = Append(frames[t], Frame("notify", s))]
    BY <1>1, <1>5 DEF Deliver
  <2>2. u # t
    <3> SUFFICES ASSUME u = t PROVE FALSE
      OBVIOUS
    <3>1. PICK q : q = Append(frames[u], Frame("notify", s))
      OBVIOUS
    <3>2. Frame("notify", s) \in FrameSet
      BY NotifyFrame
    <3>3. Len(q) = Len(frames[u]) + 1
      BY <1>1, <3>1, <3>2
    <3>4. frames'[u] = q
      BY <1>1, <2>1, <3>1
    <3>5. Len(frames'[u]) = Len(frames[u]) + 1
      BY <3>3, <3>4
    <3>6. Len(frames[u]) \in Nat
      BY <1>1
    <3>7. PICK k \in Nat : k = Len(frames[u])
      BY <3>6
    <3>8. k = k + 1
      BY <3>5, <3>7
    <3> QED BY <3>8
  <2>3. frames'[u] = frames[u]
    BY <1>1, <2>1, <2>2
  <2> QED BY <1>2, <2>3
<1> QED BY <1>3, <1>4, <1>5

LEMMA NextStays ==
  ASSUME Inv, [Next]_vars, status' = "RUNNING"
  PROVE  StaysInKill \/ status # "RUNNING"
<1> SUFFICES ASSUME status = "RUNNING" PROVE StaysInKill
  OBVIOUS
<1>1. ASSUME NEW t \in Threads, Step(t) PROVE StaysInKill
  BY <1>1, KillStepStays, NotifyStepStays, ReaperStepStays, MainStepStays DEF Step
<1>2. ASSUME NEW h \in Http, RequestKill(h) PROVE StaysInKill
  <2>1. Top(h).at \notin KillPlaces /\ Goto(h, "kill")
    BY <1>2 DEF RequestKill, At, KillPlaces
  <2> QED BY <2>1, GotoStays, ThreadFacts
<1>3. ASSUME ProgramEnds PROVE StaysInKill
  BY <1>3, SameStays DEF ProgramEnds
<1>4. ASSUME UNCHANGED vars PROVE StaysInKill
  BY <1>4, SameStays DEF vars
<1> QED BY <1>1, <1>2, <1>3, <1>4, DeliverStays DEF Next

\* Only Start makes the program run, before any thread is in kill().
LEMMA NotYetRunning ==
  ASSUME Inv, [Next]_vars, status' = "RUNNING", status # "RUNNING"
  PROVE  status = "NOT_STARTED"
<1>1. ASSUME NEW t \in Threads, Step(t) PROVE status = "NOT_STARTED"
  <2>1. CASE KillStep(t)
    BY <2>1 DEF KillStep, Kill, LockKill, KillIfRunning, Wait, WaitSleeps, Expire, LeaveWait,
                GiveUp, executorVars
  <2>2. CASE NotifyStep(t)
    BY <2>2 DEF NotifyStep, NotifyLocks, NotifyCalls, NotifyReturns, executorVars
  <2>3. CASE ReaperStep
    BY <2>3 DEF ReaperStep, WaitPid, LockToStore, StoreStatus, executorVars
  <2>4. CASE Start
    <3>1. "start" \in ScriptPlaces \ {"wait"} /\ At(Main, "start")
      BY <2>4 DEF ScriptPlaces, Start
    <3>2. Script[step] = "start" /\ step \in 1..20
      BY <3>1, InScript DEF Inv, Values
    <3>3. step = 1
      BY <3>2, ScriptStep
    <3> QED BY <3>3 DEF Inv, Progress
  <2>5. CASE MainStep /\ ~Start
    BY <2>5 DEF MainStep, Pop, Await, AwaitSleeps, AwaitReturns, PushInstalls, PushAppends,
                Proceed, WalkOn, WalkFails, WalkEnds, KeepSize, Report, TestNoExit, executorVars
  <2> QED BY <1>1, <2>1, <2>2, <2>3, <2>4, <2>5 DEF Step
<1> QED BY <1>1 DEF Next, RequestKill, Deliver, ProgramEnds, vars, executorVars

\* kill() returns, to the handler of a signal or to a request for /_kill, only when
\* the program is over or given up: nothing else wakes the frame that waits for it,
\* neither the broadcast of notify() nor the handlers that run on top of it.
THEOREM KillEnds == Spec => KillEndsProgram
<1> DEFINE Kept == \A t \in Threads :
                     /\ Top(t).at \in KillPlaces /\ ~InMain(t)
                     /\ Len(frames'[t]) = Len(frames[t])
                     /\ frames'[t][Len(frames[t])].at \notin KillPlaces
                     => status' # "RUNNING"
<1>1. Inv /\ [Next]_vars => [Kept]_vars
  <2> SUFFICES ASSUME Inv, [Next]_vars PROVE Kept
    OBVIOUS
  <2>1. CASE status' # "RUNNING"
    BY <2>1
  <2>2. CASE status' = "RUNNING" /\ status = "RUNNING"
    <3>1. StaysInKill
      BY <2>2, NextStays
    <3> QED BY <3>1 DEF StaysInKill
  <2>3. CASE status' = "RUNNING" /\ status # "RUNNING"
    <3>1. status = "NOT_STARTED"
      BY <2>3, NotYetRunning
    <3>2. ASSUME NEW t \in Threads, Top(t).at \in KillPlaces, ~InMain(t) PROVE FALSE
      <4>1. ~(t = Main /\ Len(frames[t]) = 1)
        BY <3>2, InMainAlone DEF Inv
      <4>2. FrameGood(t, Len(frames[t]), Top(t))
        BY TopGood DEF Inv
      <4> QED BY <3>1, <3>2, <4>1, <4>2 DEF FrameGood
    <3> QED BY <3>2
  <2> QED BY <2>1, <2>2, <2>3
<1>2. []Inv /\ [][Next]_vars => [][Kept]_vars
  BY <1>1, PTL
<1> QED BY <1>2, Invariance, PTL DEF Spec, KillEndsProgram

-------------------------------------------------------------------------------
(* Deadlocks. *)

\* The places where a thread may be blocked on a mutex.
Blocking == {"lock kill", "notify", "pop", "reaped"} \cup (KillPlaces \ {"waiting", "tested"})

\* Thread t has a call in progress: a handler, or a request for /_kill.
HasCall(t) == \E i \in 1..3 : <<t, i>> \in CallsInProgress

LEMMA NeedsMutex == \A t : Needs(t) \in Mutexes
BY DEF Needs, Mutexes

\* The owner of a mutex has a frame between its lock and its unlock.
LEMMA OwnerHolds ==
  ASSUME Inv, NEW m \in Mutexes, mutex[m].by \in Threads
  PROVE  \E i \in 1..Len(frames[mutex[m].by]) :
           Holds(m, mutex[m].by, i, frames[mutex[m].by][i].at)
<1> DEFINE u == mutex[m].by
<1>1. MutexCounts(m)
  BY DEF Inv, MutexInv
<1>2. u # "none"
  BY ThreadsAssumption DEF Threads
<1>3. mutex[m].depth # 0 /\ Cardinality(Held(m, u)) = mutex[m].depth
  BY <1>1, <1>2 DEF MutexCounts
<1>4. Held(m, u) # {}
  BY <1>3, FS_EmptySet
<1> QED BY <1>4 DEF Held

\* What a thread without a handler does while it holds a mutex is not blocked, or
\* it is a request for /_kill.
LEMMA AloneHolds ==
  ASSUME Inv, NEW m \in Mutexes, NEW u \in Threads, Len(frames[u]) = 1,
         frames[u][1].at \in Blocking, Holds(m, u, 1, frames[u][1].at)
  PROVE  u \in Http /\ frames[u][1].at \in KillPlaces
<1>1. FrameGood(u, 1, frames[u][1])
  BY DEF Inv, FramesGood
<1>2. /\ "pushing" \notin Blocking /\ "tested to await" \notin Blocking
      /\ "tested" \notin Blocking /\ "locked" \notin Blocking
  BY DEF Blocking, KillPlaces
<1>3. frames[u][1].at \in KillPlaces /\ u # Main
  <2>1. PICK at : at = frames[u][1].at
    OBVIOUS
  <2>2. at \in Blocking /\ Holds(m, u, 1, at)
    BY <2>1
  <2>3. at \notin {"pushing", "tested to await", "tested", "locked"}
    BY <1>2, <2>2
  <2>4. ~(1 > 1)
    OBVIOUS
  <2>5. at \in KillPlaces /\ u # Main
    BY <2>2, <2>3, <2>4, Zenon DEF Holds
  <2> QED BY <2>1, <2>5
<1>4. u # Reaper
  <2>1. \A at : ReaperGood(at) => at \notin KillPlaces
    BY DEF ReaperGood, KillPlaces
  <2> QED BY <1>1, <1>3, <2>1 DEF FrameGood
<1> QED BY <1>3, <1>4 DEF Threads

\* A blocked thread that holds a mutex has a call in progress.
LEMMA HolderCalls ==
  ASSUME Inv, NEW m \in Mutexes, mutex[m].by \in Threads,
         Top(mutex[m].by).at \in Blocking
  PROVE  HasCall(mutex[m].by)
<1> PICK u \in Threads : u = mutex[m].by
  OBVIOUS
<1>1. PICK i \in 1..Len(frames[u]) : Holds(m, u, i, frames[u][i].at)
  BY OwnerHolds
<1>2. PICK n \in Nat : n = Len(frames[u]) /\ n >= 1
  BY DEF Inv, FramesTyped
<1>3. DOMAIN frames[u] = 1..n
  BY <1>2 DEF Inv, FramesTyped
<1>4. CASE n = 1
  <2>1. i = 1 /\ frames[u][1].at \in Blocking
    BY <1>1, <1>2, <1>4 DEF Top
  <2>2. u \in Http /\ frames[u][1].at \in KillPlaces
    BY <1>1, <1>2, <1>4, <2>1, AloneHolds
  <2>3. <<u, 1>> \in CallsInProgress
    BY <1>3, <1>4, <2>2 DEF CallsInProgress
  <2> QED BY <2>3 DEF HasCall
<1>5. CASE n # 1
  <2>1. 2 \in 1..n
    <3>1. n >= 1
      BY <1>2
    <3> QED BY <1>5, <3>1
  <2>2. <<u, 2>> \in CallsInProgress
    BY <1>3, <2>1 DEF CallsInProgress
  <2> QED BY <2>2 DEF HasCall
<1> QED BY <1>4, <1>5

LEMMA CallsFinite == IsFiniteSet(CallsInProgress)
<1>1. IsFiniteSet({Main, Reaper})
  <2>1. IsFiniteSet({Main} \cup {Reaper})
    BY FS_Singleton, FS_Union
  <2>2. {Main, Reaper} = {Main} \cup {Reaper}
    OBVIOUS
  <2> QED BY <2>1, <2>2
<1>2. IsFiniteSet(Threads)
  BY <1>1, PoolAssumption, FS_Union DEF Threads
<1>3. IsFiniteSet(1..3)
  <2>1. 1 \in Int /\ 3 \in Int
    OBVIOUS
  <2> QED BY <2>1, FS_Interval, Zenon
<1>4. IsFiniteSet(Threads \X (1..3))
  BY <1>2, <1>3, FS_Product
<1>5. CallsInProgress \subseteq Threads \X (1..3)
  BY DEF CallsInProgress
<1> QED BY <1>4, <1>5, FS_Subset

\* Two calls are more than one.
LEMMA TwoCalls ==
  ASSUME NEW a \in CallsInProgress, NEW b \in CallsInProgress, a # b
  PROVE  ~(Cardinality(CallsInProgress) <= 1)
<1>1. IsFiniteSet({a, b}) /\ Cardinality({a, b}) = 2
  <2>1. IsFiniteSet({a}) /\ Cardinality({a}) = 1
    BY FS_Singleton
  <2>2. {a, b} = {a} \cup {b} /\ b \notin {a}
    OBVIOUS
  <2>3. /\ IsFiniteSet({a} \cup {b})
        /\ Cardinality({a} \cup {b}) = Cardinality({a}) + 1
    BY <2>1, <2>2, FS_AddElement
  <2>4. Cardinality({a} \cup {b}) = 2
    BY <2>1, <2>3
  <2> QED BY <2>2, <2>3, <2>4
<1>2. Cardinality({a, b}) <= Cardinality(CallsInProgress)
  BY CallsFinite, FS_Subset
<1>3. Cardinality(CallsInProgress) \in Nat
  BY CallsFinite, FS_CardinalityType
<1> QED BY <1>1, <1>2, <1>3

\* Every thread of a circle that waits for a mutex waits for another one of it,
\* which holds a mutex and is blocked, so that it has a call in progress; and that
\* one waits for a third, or for the first, which has a call in progress too.
LEMMA AloneOrTwo == Inv => AloneNoDeadlock
<1> SUFFICES ASSUME Inv, Cardinality(CallsInProgress) <= 1,
                    NEW S \in SUBSET Threads, Deadlocked(S)
             PROVE  FALSE
  BY DEF AloneNoDeadlock
<1>1. \A t \in S : Top(t).at \in Blocking /\ ~CanLock(Needs(t), t) /\ mutex[Needs(t)].by \in S
  BY DEF Deadlocked, Blocking
<1>2. \A t \in S : mutex[Needs(t)].by # t
  BY <1>1 DEF CanLock
<1>3. PICK t \in S : TRUE
  BY DEF Deadlocked
<1>4. PICK u \in S : u = mutex[Needs(t)].by
  BY <1>1
<1>5. PICK v \in S : v = mutex[Needs(u)].by
  BY <1>1
<1>6. u # v
  BY <1>2, <1>5
<1>7. HasCall(u) /\ HasCall(v)
  BY <1>1, <1>4, <1>5, NeedsMutex, HolderCalls
<1>8. PICK i \in 1..3 : <<u, i>> \in CallsInProgress
  BY <1>7 DEF HasCall
<1>9. PICK j \in 1..3 : <<v, j>> \in CallsInProgress
  BY <1>7 DEF HasCall
<1>10. <<u, i>> # <<v, j>>
  BY <1>6
<1> QED BY <1>8, <1>9, <1>10, TwoCalls

\* One signal, or one request for /_kill, at any place of any thread, never closes
\* a circle of threads that wait for each other's mutexes, for any number of HTTP
\* threads: it takes two calls that are both blocked while they hold a mutex.
THEOREM OneCallNoDeadlock == Spec => []AloneNoDeadlock
<1> QED BY Invariance, AloneOrTwo, PTL

===============================================================================
