------------------------------ MODULE PageProofs ------------------------------
(***************************************************************************)
(* Proofs about Page, for any streams, clicks, reloads and broken          *)
(* connections: its types, what the end of a stream does to a run, that    *)
(* the actions a page offers are ones the server would take, and that a    *)
(* page that is loaded again lands back on the run it showed.              *)
(*                                                                         *)
(* The kept frames are replayed by a fold, unrolled first. Queued is what  *)
(* the streams hold whatever is clicked, and gives what their ends do. Of  *)
(* a page that asks for one thing at a time (Tidy), Whole follows the one  *)
(* stream that is read through its stages, on the server and on the page   *)
(* at once, and says what a page at rest shows, against the truth and      *)
(* against the frames that a reload would replay.                          *)
(***************************************************************************)
EXTENDS Page, FoldProofs

(* Branches that have a conversation. *)
Rooted == {b \in Branch : root[b] \in Branch}

(* The values of the page and of frames, over the branches B. *)
RunOf(B) ==
  [phase : Phase, branchId : B \cup {None}, pendingId : Stream \cup {None},
   busy : BOOLEAN, active : BOOLEAN]
ViewOf(B) == [run : RunOf(B), undecided : BOOLEAN, threw : BOOLEAN]
FrameOf(B) ==
  [kind : {"meta", "end", "broken"} \cup Closing, branch : B, id : Stream]
KeepOf(B) == [kind : {"meta"} \cup Closing, branch : B, id : Stream]

(* Types, with no branch named that has no conversation. *)
TypeInv ==
  /\ Types
  /\ run.branchId \in Rooted \cup {None} /\ remembered \in Rooted \cup {None}
  /\ \A s \in Stream : /\ reader[s] = "idle" => attempt[s] = "idle"
                       /\ reader[s] # "idle" => branch[s] \in Rooted
                       /\ feed[s] \in Seq(FrameOf(Rooted))
  /\ \A b \in Branch : kept[b] \in Seq(KeepOf(Rooted))

(* Sequences and runs over more branches. *)
LEMMA WiderSeq ==
  ASSUME NEW S, NEW T, S \subseteq T PROVE Seq(S) \subseteq Seq(T)
OBVIOUS

(* The functions of RunState keep to the branches they are given. *)
LEMMA Transitions ==
  ASSUME NEW B, NEW r \in RunOf(B)
  PROVE  /\ createRunState \in RunOf(B) /\ startRun(r) \in RunOf(B)
         /\ \A b \in B : attachBranchId(r, b) \in RunOf(B)
         /\ \A p \in Stream : suspendRun(r, p) \in RunOf(B)
         /\ markRecoverable(r) \in RunOf(B) /\ beginContinuation(r) \in RunOf(B)
         /\ replayStream(r) \in RunOf(B) /\ beginFork(r) \in RunOf(B)
         /\ finishRun(r) \in RunOf(B) /\ settleRun(r) \in RunOf(B)
         /\ failRun(r) \in RunOf(B) /\ failCurrent(r) \in RunOf(B)
BY DEF RunOf, Phase, createRunState, startRun, attachBranchId, suspendRun,
       markRecoverable, beginContinuation, replayStream, beginFork, finishRun,
       settleRun, failRun, failCurrent

LEMMA ApplyTyped ==
  ASSUME NEW B, NEW v \in ViewOf(B), NEW r \in RunOf(B), NEW ok \in BOOLEAN
  PROVE  Apply(v, ok, r) \in ViewOf(B)
BY DEF Apply, ViewOf

LEMMA HandleTyped ==
  ASSUME NEW B, NEW v \in ViewOf(B), NEW f \in KeepOf(B)
  PROVE  handleFrame(v, f) \in ViewOf(B)
<1> DEFINE u == [v EXCEPT !.undecided = TRUE]
<1>1. v.run \in RunOf(B) /\ u \in ViewOf(B) /\ u.run = v.run BY DEF ViewOf
<1>2. f.branch \in B /\ f.id \in Stream /\ f.kind \in {"meta"} \cup Closing
  BY DEF KeepOf
<1>3. /\ canAttach(v.run) \in BOOLEAN /\ canPark(v.run) \in BOOLEAN
      /\ v.run.active \in BOOLEAN
  BY <1>1 DEF canAttach, canPark, RunOf
<1> HIDE DEF u
<1>4. /\ Apply(v, canAttach(v.run), attachBranchId(v.run, f.branch)) \in ViewOf(B)
      /\ Apply(v, canPark(v.run), suspendRun(v.run, f.id)) \in ViewOf(B)
      /\ Apply(v, canPark(v.run), markRecoverable(v.run)) \in ViewOf(B)
      /\ Apply(v, v.run.active, finishRun(v.run)) \in ViewOf(B)
      /\ Apply(v, v.run.active, failRun(v.run)) \in ViewOf(B)
      /\ Apply(u, v.run.active, failRun(v.run)) \in ViewOf(B)
  <2>1. /\ attachBranchId(v.run, f.branch) \in RunOf(B)
        /\ suspendRun(v.run, f.id) \in RunOf(B) /\ markRecoverable(v.run) \in RunOf(B)
        /\ finishRun(v.run) \in RunOf(B) /\ failRun(v.run) \in RunOf(B)
    BY <1>1, <1>2, Transitions
  <2> QED BY <1>1, <1>3, <2>1, ApplyTyped
<1>5. handleFrame(v, f) =
        CASE f.kind = "meta" ->
               Apply(v, canAttach(v.run), attachBranchId(v.run, f.branch))
          [] f.kind = "suspended" -> Apply(v, canPark(v.run), suspendRun(v.run, f.id))
          [] f.kind = "recoverable" ->
               Apply(v, canPark(v.run), markRecoverable(v.run))
          [] f.kind = "outcome" -> Apply(v, v.run.active, finishRun(v.run))
          [] f.kind = "failed" -> Apply(v, v.run.active, failRun(v.run))
          [] f.kind = "indeterminate" -> Apply(u, v.run.active, failRun(v.run))
  BY DEF handleFrame, u
<1> QED BY <1>2, <1>4, <1>5 DEF Closing

LEMMA ReplayedTyped ==
  ASSUME NEW B, NEW v \in ViewOf(B), NEW f \in KeepOf(B)
  PROVE  Replayed(v, f) \in ViewOf(B)
<1>1. [v EXCEPT !.run = replayStream(v.run)] \in ViewOf(B)
  <2>1. v.run \in RunOf(B) BY DEF ViewOf
  <2>2. replayStream(v.run) \in RunOf(B) BY <2>1, Transitions
  <2> QED BY <2>2 DEF ViewOf
<1> QED BY <1>1, HandleTyped DEF Replayed

----------------------------------------------------------------------------
(* Kept frames, replayed: the view after each of them. *)

Blank == View(startRun(createRunState), FALSE)
Played(fs) == FoldLeft(Replayed, Blank, fs)

(* A fold over kept frames runs through the views after each of them. *)
LEMMA BlankTyped == ASSUME NEW B PROVE Blank \in ViewOf(B)
BY DEF Blank, View, ViewOf, RunOf, startRun, createRunState, Phase

LEMMA PlayRuns ==
  ASSUME NEW B, NEW fs \in Seq(KeepOf(B))
  PROVE  \E g \in [0..Len(fs) -> ViewOf(B)] :
           /\ g[0] = Blank
           /\ \A i \in 1..Len(fs) : g[i] = Replayed(g[i - 1], fs[i])
           /\ Played(fs) = g[Len(fs)]
<1> DEFINE n == Len(fs)
           F == [p \in (1..n) \X ViewOf(B) |-> Replayed(p[2], fs[p[1]])]
           J(g) == g = [S \in SUBSET (1..n) |->
                          IF S = {} THEN Blank
                          ELSE Replayed(g[S \ {Max(S)}], fs[Max(S)])]
           it == CHOOSE g : J(g)
<1>1. n \in Nat /\ DOMAIN fs = 1..n /\ \A i \in 1..n : fs[i] \in KeepOf(B)
  OBVIOUS
<1>2. F \in [(1..n) \X ViewOf(B) -> ViewOf(B)] BY <1>1, ReplayedTyped
<1>3. PICK g \in [SUBSET (1..n) -> ViewOf(B)] : Solves(g, n, Blank, F)
  <2> HIDE DEF F, n
  <2> QED BY <1>1, <1>2, BlankTyped, FoldExists
<1>4. J(g)
  <2>1. \A S \in SUBSET (1..n) : S # {} =>
          F[<<Max(S), g[S \ {Max(S)}]>>] = Replayed(g[S \ {Max(S)}], fs[Max(S)])
    <3> SUFFICES ASSUME NEW S \in SUBSET (1..n), S # {}
                 PROVE  <<Max(S), g[S \ {Max(S)}]>> \in (1..n) \X ViewOf(B)
      OBVIOUS
    <3>1. Max(S) \in S BY <1>1, LargestIn
    <3> QED BY <3>1
  <2> HIDE DEF F, n
  <2>2. [S \in SUBSET (1..n) |->
           IF S = {} THEN Blank ELSE F[<<Max(S), g[S \ {Max(S)}]>>]]
        = [S \in SUBSET (1..n) |->
             IF S = {} THEN Blank ELSE Replayed(g[S \ {Max(S)}], fs[Max(S)])]
    BY <2>1
  <2> QED BY <1>3, <2>2, Zenon DEF Solves
<1>5. J(it) BY <1>4, Zenon
<1>6. Played(fs) = it[1..n]
  BY <1>1, Zenon DEF Played, FoldLeft, MapThenFoldSet
<1> HIDE DEF it, F
<1> DEFINE f == [i \in 0..n |-> it[1..i]]
<1>7. f[0] = Blank
  <2>1. 1..0 = {} OBVIOUS
  <2>2. it[{}] = Blank BY <1>5
  <2> QED BY <1>1, <2>1, <2>2
<1>8. ASSUME NEW i \in 1..n PROVE f[i] = Replayed(f[i - 1], fs[i])
  <2>1. Max(1..i) = i BY LargestIs
  <2>2. (1..i) \ {i} = 1..(i - 1) /\ 1..i # {} /\ (1..i) \in SUBSET (1..n)
    BY <1>1
  <2>3. it[1..i] = Replayed(it[(1..i) \ {Max(1..i)}], fs[Max(1..i)]) BY <1>5, <2>2
  <2>4. f[i] = it[1..i] /\ f[i - 1] = it[1..(i - 1)] BY <1>1
  <2> QED BY <2>1, <2>2, <2>3, <2>4
<1>9. f[n] = Played(fs) BY <1>1, <1>6
<1> HIDE DEF f
<1>10. {i \in 0..n : f[i] \in ViewOf(B)} = 0..n
  <2> DEFINE A == {i \in 0..n : f[i] \in ViewOf(B)}
  <2>1. 0 \in A BY <1>1, <1>7, BlankTyped
  <2>2. ASSUME NEW i \in 1..n, f[i - 1] \in ViewOf(B) PROVE f[i] \in ViewOf(B)
    <3>1. fs[i] \in KeepOf(B) BY <1>1
    <3>2. Replayed(f[i - 1], fs[i]) \in ViewOf(B) BY <2>2, <3>1, ReplayedTyped
    <3> QED BY <1>8, <3>2
  <2>3. \A i \in 1..n : i - 1 \in A => i \in A BY <2>2
  <2> HIDE DEF A
  <2>4. A \in SUBSET (0..n) BY DEF A
  <2>5. A = 0..n BY <1>1, <2>1, <2>3, <2>4, Inducts
  <2> QED BY <2>5 DEF A
<1>11. f \in [0..n -> ViewOf(B)] BY <1>10 DEF f
<1> QED BY <1>7, <1>8, <1>9, <1>11

LEMMA PlayedTyped ==
  ASSUME NEW B, NEW fs \in Seq(KeepOf(B)) PROVE Played(fs) \in ViewOf(B)
<1>1. Len(fs) \in 0..Len(fs) OBVIOUS
<1> QED BY <1>1, PlayRuns

LEMMA PlayedNone == Played(<<>>) = Blank
<1>1. <<>> \in Seq(KeepOf({})) /\ Len(<<>>) = 0 OBVIOUS
<1> QED BY <1>1, PlayRuns

(* A frame more is a replay more. *)
LEMMA PlayedMore ==
  ASSUME NEW B, NEW fs \in Seq(KeepOf(B)), NEW f \in KeepOf(B)
  PROVE  Played(Append(fs, f)) = Replayed(Played(fs), f)
<1> DEFINE n == Len(fs)
           hs == Append(fs, f)
<1>1. n \in Nat /\ hs \in Seq(KeepOf(B)) /\ Len(hs) = n + 1 /\ hs[n + 1] = f
  OBVIOUS
<1>2. \A i \in 1..n : hs[i] = fs[i] OBVIOUS
<1>3. PICK g : /\ g[0] = Blank /\ \A i \in 1..n : g[i] = Replayed(g[i - 1], fs[i])
               /\ Played(fs) = g[n]
  BY PlayRuns
<1> HIDE DEF hs
<1>4. PICK h : /\ h[0] = Blank
               /\ \A i \in 1..(n + 1) : h[i] = Replayed(h[i - 1], hs[i])
               /\ Played(hs) = h[n + 1]
  <2>1. PICK h : /\ h[0] = Blank
                 /\ \A i \in 1..Len(hs) : h[i] = Replayed(h[i - 1], hs[i])
                 /\ Played(hs) = h[Len(hs)]
    BY <1>1, PlayRuns
  <2> QED BY <1>1, <2>1
<1> DEFINE A == {i \in 0..n : h[i] = g[i]}
<1>5. 0 \in A BY <1>1, <1>3, <1>4
<1>6. ASSUME NEW i \in 1..n, i - 1 \in A PROVE i \in A
  <2>1. h[i] = Replayed(h[i - 1], hs[i]) BY <1>1, <1>4
  <2>2. g[i] = Replayed(g[i - 1], fs[i]) BY <1>3
  <2> QED BY <1>2, <1>6, <2>1, <2>2
<1> HIDE DEF A
<1>7. A \in SUBSET (0..n) BY DEF A
<1>8. A = 0..n BY <1>1, <1>5, <1>6, <1>7, Inducts
<1>9. h[n] = g[n]
  <2>1. n \in A BY <1>1, <1>8
  <2> QED BY <2>1 DEF A
<1>10. h[n + 1] = Replayed(h[(n + 1) - 1], hs[n + 1]) /\ (n + 1) - 1 = n
  BY <1>1, <1>4
<1> QED BY <1>1, <1>3, <1>4, <1>9, <1>10 DEF hs

----------------------------------------------------------------------------
(* The types, whatever is clicked, in whatever order. *)

LEMMA NoneApart == None \notin Stream /\ None \notin Branch
BY PageAssumption DEF Branch

(* What a step leaves of the branches that have a conversation. *)
LEMMA TypesInit == Init => TypeInv
<1> SUFFICES ASSUME Init PROVE TypeInv
  OBVIOUS
<1> USE DEF Init
<1>1. run \in RunOf({}) BY DEF createRunState, RunOf, Phase
<1>2. /\ run.branchId = None
      /\ run \in [phase : Phase, branchId : Branch \cup {None},
                  pendingId : Stream \cup {None}, busy : BOOLEAN, active : BOOLEAN]
  BY DEF createRunState, Phase
<1>3. /\ \A s \in Stream : feed[s] = <<>> /\ feed[s] \in Seq(FrameOf(Rooted))
      /\ \A b \in Branch : kept[b] = <<>> /\ kept[b] \in Seq(KeepOf(Rooted))
  OBVIOUS
<1>4. Types
  <2>1. /\ feed \in [Stream -> Seq(Frame)]
        /\ kept \in [Branch -> Seq({f \in Frame : f.kind \notin {"end", "broken"}})]
    OBVIOUS
  <2>2. reloads \in 0..MaxReloads /\ breaks \in 0..MaxBreaks
    BY PageAssumption
  <2> QED BY <1>2, <2>1, <2>2 DEF Types
<1> QED BY <1>2, <1>3, <1>4 DEF TypeInv

(* The invariant, by the parts of the state. *)
PageTyped ==
  /\ run \in RunOf(Rooted) /\ undecided \in BOOLEAN
  /\ remembered \in Rooted \cup {None}
ClientTyped ==
  /\ reader \in [Stream -> {"idle", "posted", "reading", "ended", "unread", "gone"}]
  /\ click \in [Click -> [kind : {"abort", "steer", "settle"}, branch : Branch \cup {None},
                          state : {"idle", "posted", "ok", "refused", "done"}]]
  /\ reloads \in 0..MaxReloads
PostTyped ==
  /\ kind \in [Stream -> {"run", "fork", "resume", "recover"}]
  /\ branch \in [Stream -> Branch \cup {None}]
  /\ root \in [Branch -> Branch \cup {None}]
  /\ \A s \in Stream : reader[s] # "idle" => branch[s] \in Rooted
ServerTyped ==
  /\ breaks \in 0..MaxBreaks
  /\ attempt \in [Stream -> {"idle", "refused", "open", "aborting", "closing", "done"}]
  /\ feed \in [Stream -> Seq(FrameOf(Rooted))]
  /\ kept \in [Branch -> Seq(KeepOf(Rooted))]
  /\ truth \in [Branch -> {"none", "running", "parked", "interrupted", "unknown",
                           "finished", "aborted"}]
  /\ \A s \in Stream : reader[s] = "idle" => attempt[s] = "idle"

LEMMA TypeParts ==
  TypeInv <=> PageTyped /\ ClientTyped /\ PostTyped /\ ServerTyped
<1>1. Rooted \subseteq Branch BY DEF Rooted
<1>2. FrameOf(Rooted) \subseteq Frame
  BY <1>1 DEF FrameOf, Frame
<1>3. KeepOf(Rooted) \subseteq {f \in Frame : f.kind \notin {"end", "broken"}}
  BY <1>1 DEF KeepOf, Frame, Closing
<1>4. ASSUME TypeInv PROVE PageTyped /\ ClientTyped /\ PostTyped /\ ServerTyped
  <2>1. Types BY <1>4 DEF TypeInv
  <2>2. PageTyped BY <1>4, <2>1 DEF TypeInv, Types, PageTyped, RunOf
  <2>3. ClientTyped /\ PostTyped BY <1>4, <2>1 DEF TypeInv, Types, ClientTyped, PostTyped
  <2>4. feed \in [Stream -> Seq(FrameOf(Rooted))]
    <3>1. feed \in [Stream -> Seq(Frame)] BY <2>1 DEF Types
    <3>2. \A s \in Stream : feed[s] \in Seq(FrameOf(Rooted)) BY <1>4 DEF TypeInv
    <3> QED BY <3>1, <3>2
  <2>5. kept \in [Branch -> Seq(KeepOf(Rooted))]
    <3>1. kept \in [Branch -> Seq({f \in Frame : f.kind \notin {"end", "broken"}})]
      BY <2>1 DEF Types
    <3>2. \A b \in Branch : kept[b] \in Seq(KeepOf(Rooted)) BY <1>4 DEF TypeInv
    <3> QED BY <3>1, <3>2
  <2>6. ServerTyped BY <1>4, <2>1, <2>4, <2>5 DEF TypeInv, Types, ServerTyped
  <2> QED BY <2>2, <2>3, <2>6
<1>5. ASSUME PageTyped, ClientTyped, PostTyped, ServerTyped PROVE TypeInv
  <2>1. feed \in [Stream -> Seq(Frame)]
    <3>1. feed \in [Stream -> Seq(FrameOf(Rooted))] BY <1>5 DEF ServerTyped
    <3>2. Seq(FrameOf(Rooted)) \subseteq Seq(Frame) BY <1>2, WiderSeq
    <3> QED BY <3>1, <3>2
  <2>2. kept \in [Branch -> Seq({f \in Frame : f.kind \notin {"end", "broken"}})]
    <3>1. kept \in [Branch -> Seq(KeepOf(Rooted))] BY <1>5 DEF ServerTyped
    <3>2. Seq(KeepOf(Rooted))
            \subseteq Seq({f \in Frame : f.kind \notin {"end", "broken"}})
      BY <1>3, WiderSeq
    <3> QED BY <3>1, <3>2
  <2>3. run \in RunOf(Rooted) /\ run.branchId \in Branch \cup {None}
    BY <1>1, <1>5 DEF PageTyped, RunOf
  <2>4. run \in [phase : Phase, branchId : Branch \cup {None},
                 pendingId : Stream \cup {None}, busy : BOOLEAN, active : BOOLEAN]
    BY <2>3 DEF RunOf
  <2>5. Types
    BY <1>1, <1>5, <2>1, <2>2, <2>4 DEF PageTyped, ClientTyped, PostTyped, ServerTyped, Types
  <2>6. run.branchId \in Rooted \cup {None} BY <2>3 DEF RunOf
  <2> QED BY <1>5, <2>5, <2>6 DEF PageTyped, PostTyped, ServerTyped, TypeInv
<1> QED BY <1>4, <1>5

(* A post names a branch and its conversation, and forgets none. *)
LEMMA PostTypes ==
  ASSUME TypeInv, NEW s \in Stream, NEW k \in {"run", "fork", "resume", "recover"},
         NEW b \in Branch, NEW o \in Branch, Post(s, k, b, o)
  PROVE  /\ PostTyped' /\ ServerTyped' /\ Rooted \subseteq Rooted'
         /\ reader' \in [Stream -> {"idle", "posted", "reading", "ended", "unread", "gone"}]
<1>1. ClientTyped /\ PostTyped /\ ServerTyped BY TypeParts
<1>2. /\ reader' = [reader EXCEPT ![s] = "posted"]
      /\ kind' = [kind EXCEPT ![s] = k] /\ branch' = [branch EXCEPT ![s] = b]
      /\ root' = [root EXCEPT ![b] = o] /\ breaks' = breaks
      /\ attempt' = attempt /\ feed' = feed /\ kept' = kept /\ truth' = truth
  BY DEF Post, server
<1>3. root' \in [Branch -> Branch \cup {None}] /\ b \in Rooted' /\ Rooted \subseteq Rooted'
  BY <1>1, <1>2 DEF PostTyped, Rooted
<1>4. PostTyped'
  <2>1. /\ kind' \in [Stream -> {"run", "fork", "resume", "recover"}]
        /\ branch' \in [Stream -> Branch \cup {None}]
    BY <1>1, <1>2 DEF PostTyped
  <2>2. ASSUME NEW t \in Stream, reader'[t] # "idle" PROVE branch'[t] \in Rooted'
    BY <1>1, <1>2, <1>3, <2>2 DEF PostTyped, ClientTyped
  <2> QED BY <1>3, <2>1, <2>2 DEF PostTyped
<1>5. FrameOf(Rooted) \subseteq FrameOf(Rooted') /\ KeepOf(Rooted) \subseteq KeepOf(Rooted')
  BY <1>3 DEF FrameOf, KeepOf
<1>6. ServerTyped'
  <2>1. /\ Seq(FrameOf(Rooted)) \subseteq Seq(FrameOf(Rooted'))
        /\ Seq(KeepOf(Rooted)) \subseteq Seq(KeepOf(Rooted'))
    BY <1>5, WiderSeq
  <2>2. feed' \in [Stream -> Seq(FrameOf(Rooted'))] /\ kept' \in [Branch -> Seq(KeepOf(Rooted'))]
    BY <1>1, <1>2, <2>1 DEF ServerTyped
  <2> QED BY <1>1, <1>2, <2>2 DEF ServerTyped, ClientTyped
<1>7. reader' \in [Stream -> {"idle", "posted", "reading", "ended", "unread", "gone"}]
  BY <1>1, <1>2 DEF ClientTyped
<1> QED BY <1>3, <1>4, <1>6, <1>7

LEMMA WiderRun ==
  ASSUME NEW A, NEW B, A \subseteq B, NEW r \in RunOf(A) PROVE r \in RunOf(B)
BY DEF RunOf

LEMMA PostsTyped ==
  ASSUME TypeInv, NEW s \in Stream,
         runActive(s) \/ decide(s) \/ recover(s) \/ forkSource(s)
  PROVE  TypeInv'
<1>1. PageTyped /\ ClientTyped /\ PostTyped BY TypeParts
<1>2. run \in RunOf(Rooted) /\ run.branchId \in Rooted \cup {None} BY <1>1 DEF PageTyped, RunOf
<1>3. startRun(run) \in RunOf(Rooted) /\ beginContinuation(run) \in RunOf(Rooted)
      /\ beginFork(run) \in RunOf(Rooted)
  BY <1>2, Transitions
<1>4. ASSUME run' \in RunOf(Rooted), undecided' \in BOOLEAN, click' = click,
             NEW k \in {"run", "fork", "resume", "recover"},
             NEW b \in Branch, NEW o \in Branch, Post(s, k, b, o)
      PROVE  TypeInv'
  <2>1. /\ PostTyped' /\ ServerTyped' /\ Rooted \subseteq Rooted'
        /\ reader' \in [Stream -> {"idle", "posted", "reading", "ended", "unread", "gone"}]
    BY <1>4, PostTypes
  <2>2. run' \in RunOf(Rooted') BY <1>4, <2>1, WiderRun
  <2>3. remembered' = remembered /\ reloads' = reloads BY <1>4 DEF Post
  <2>4. PageTyped' BY <1>1, <1>4, <2>1, <2>2, <2>3 DEF PageTyped
  <2>5. ClientTyped' BY <1>1, <1>4, <2>1, <2>3 DEF ClientTyped
  <2> QED BY <2>1, <2>4, <2>5, TypeParts, PTL
<1>5. CASE runActive(s)
  <2>1. run' \in RunOf(Rooted) /\ undecided' \in BOOLEAN /\ click' = click /\ Post(s, "run", s, s)
    BY <1>3, <1>5 DEF runActive
  <2> QED BY <1>4, <2>1 DEF Branch
<1>6. CASE decide(s) \/ recover(s) \/ forkSource(s)
  <2>1. run.branchId # None
    BY <1>6 DEF decide, recover, forkSource, canContinue, canFork
  <2>2. run.branchId \in Branch /\ root[run.branchId] \in Branch
    BY <1>2, <2>1 DEF Rooted
  <2>3. run' \in RunOf(Rooted) /\ undecided' \in BOOLEAN /\ click' = click
    BY <1>1, <1>3, <1>6 DEF decide, recover, forkSource, PageTyped
  <2>4. \/ Post(s, "resume", run.branchId, root[run.branchId])
        \/ Post(s, "recover", run.branchId, root[run.branchId])
        \/ Post(s, "fork", s, root[run.branchId])
    BY <1>6 DEF decide, recover, forkSource
  <2> QED BY <1>4, <2>2, <2>3, <2>4 DEF Branch
<1> QED BY <1>5, <1>6

(* What a step says of the page, with what it leaves alone. *)
LEMMA SameRoots == ASSUME UNCHANGED posts PROVE Rooted' = Rooted
BY DEF posts, Rooted

LEMMA PageTypes ==
  ASSUME TypeInv, UNCHANGED posts, run' \in RunOf(Rooted), undecided' \in BOOLEAN,
         remembered' \in Rooted \cup {None}
  PROVE  PageTyped'
BY SameRoots DEF PageTyped

LEMMA ClientTypes ==
  ASSUME TypeInv, UNCHANGED posts, UNCHANGED <<click, reloads>>, NEW s \in Stream,
         NEW x \in {"posted", "reading", "ended", "unread", "gone"},
         reader[s] # "idle", reader' = [reader EXCEPT ![s] = x]
  PROVE  /\ ClientTyped' /\ PostTyped'
         /\ \A t \in Stream : reader'[t] = "idle" <=> reader[t] = "idle"
<1>1. ClientTyped /\ PostTyped BY TypeParts
<1>2. ClientTyped' BY <1>1 DEF ClientTyped
<1>3. \A t \in Stream : reader'[t] = "idle" <=> reader[t] = "idle"
  BY <1>1 DEF ClientTyped
<1>4. /\ kind' = kind /\ branch' = branch /\ root' = root /\ Rooted' = Rooted
  BY SameRoots DEF posts
<1> QED BY <1>1, <1>2, <1>3, <1>4 DEF PostTyped

(* Reading a stream keeps the types. *)
LEMMA ReadTyped ==
  ASSUME TypeInv, NEW s \in Stream, Reading(s)
  PROVE  TypeInv'
<1>1. PageTyped /\ ClientTyped /\ PostTyped /\ ServerTyped BY TypeParts
<1>2. run \in RunOf(Rooted) /\ undecided \in BOOLEAN /\ remembered \in Rooted \cup {None}
  BY <1>1 DEF PageTyped
<1>3. failCurrent(run) \in RunOf(Rooted) BY <1>2, Transitions
<1>4. UNCHANGED posts /\ UNCHANGED <<click, reloads, breaks, attempt, kept, truth>>
  BY DEF Reading, Refused, Opens, ReadFrame, ReadEnd, Reads, posts, server
<1>5. reader[s] # "idle" /\ \E x \in {"posted", "reading", "ended", "unread", "gone"} :
                             reader' = [reader EXCEPT ![s] = x]
  BY DEF Reading, Refused, Opens, ReadFrame, ReadEnd, Reads
<1>6. ClientTyped' /\ PostTyped' /\ \A t \in Stream : reader'[t] = "idle" <=> reader[t] = "idle"
  BY <1>4, <1>5, ClientTypes
<1>7. feed' \in [Stream -> Seq(FrameOf(Rooted))]
  <2>1. CASE feed' = feed BY <1>1, <2>1 DEF ServerTyped
  <2>2. CASE feed' = [feed EXCEPT ![s] = Tail(feed[s])] /\ feed[s] # <<>>
    <3>1. feed[s] \in Seq(FrameOf(Rooted)) BY <1>1 DEF ServerTyped
    <3>2. Tail(feed[s]) \in Seq(FrameOf(Rooted)) BY <2>2, <3>1
    <3> QED BY <1>1, <2>2, <3>2 DEF ServerTyped
  <2> QED BY <2>1, <2>2 DEF Reading, Refused, Opens, ReadFrame, ReadEnd, Reads, server
<1>8. ServerTyped'
  BY <1>1, <1>4, <1>6, <1>7, SameRoots DEF ServerTyped
<1>9. run' \in RunOf(Rooted) /\ undecided' \in BOOLEAN /\ remembered' \in Rooted \cup {None}
  <2>1. CASE Refused(s) BY <1>2, <1>3, <2>1 DEF Refused
  <2>2. CASE Opens(s) BY <1>2, <2>2 DEF Opens, page
  <2>3. CASE ReadFrame(s)
    <3> DEFINE f == Head(feed[s])
               v == handleFrame(View(run, undecided), f)
    <3>1. feed[s] \in Seq(FrameOf(Rooted)) /\ feed[s] # <<>>
      BY <1>1, <2>3 DEF ReadFrame, Reads, ServerTyped
    <3>2. f \in FrameOf(Rooted) /\ f.kind \in {"meta"} \cup Closing
      BY <2>3, <3>1 DEF ReadFrame, Reads
    <3>3. f \in KeepOf(Rooted) BY <3>2 DEF FrameOf, KeepOf
    <3>4. View(run, undecided) \in ViewOf(Rooted) BY <1>2 DEF View, ViewOf
    <3>5. v \in ViewOf(Rooted) BY <3>3, <3>4, HandleTyped
    <3>6. /\ run' = IF v.threw THEN failCurrent(run) ELSE v.run
          /\ undecided' = v.undecided
          /\ remembered' = IF f.kind = "meta" /\ ~v.threw THEN f.branch ELSE remembered
      BY <2>3 DEF ReadFrame
    <3>7. f.branch \in Rooted BY <3>2 DEF FrameOf
    <3> HIDE DEF f, v
    <3> QED BY <1>2, <1>3, <3>5, <3>6, <3>7 DEF ViewOf
  <2>4. CASE ReadEnd(s) BY <1>2, <1>3, <2>4 DEF ReadEnd
  <2> QED BY <2>1, <2>2, <2>3, <2>4 DEF Reading
<1>10. PageTyped' BY <1>4, <1>9, PageTypes
<1> QED BY <1>6, <1>8, <1>10, TypeParts, PTL

(* What the server sends is a frame of a branch that has a conversation. *)
LEMMA SendTypes ==
  ASSUME TypeInv, NEW s \in Stream, reader[s] # "idle",
         NEW k \in {"meta", "end", "broken"} \cup Closing, Send(s, k)
  PROVE  /\ feed' \in [Stream -> Seq(FrameOf(Rooted))]
         /\ kept' \in [Branch -> Seq(KeepOf(Rooted))]
<1>1. PostTyped /\ ServerTyped BY TypeParts
<1> DEFINE f == [kind |-> k, branch |-> branch[s], id |-> s]
<1>2. branch[s] \in Rooted BY <1>1 DEF PostTyped
<1>3. f \in FrameOf(Rooted) BY <1>2 DEF FrameOf
<1>4. k \notin {"end", "broken"} => f \in KeepOf(Rooted) BY <1>2 DEF KeepOf
<1>5. root[branch[s]] \in Branch BY <1>2 DEF Rooted
<1>6. /\ feed' = [feed EXCEPT ![s] = Append(@, f)]
      /\ kept' = [kept EXCEPT ![root[branch[s]]] =
                    IF k \in {"end", "broken"} THEN @ ELSE Append(@, f)]
  BY DEF Send
<1> HIDE DEF f
<1>7. feed' \in [Stream -> Seq(FrameOf(Rooted))]
  <2>1. Append(feed[s], f) \in Seq(FrameOf(Rooted)) BY <1>1, <1>3 DEF ServerTyped
  <2> QED BY <1>1, <1>6, <2>1 DEF ServerTyped
<1>8. kept' \in [Branch -> Seq(KeepOf(Rooted))]
  <2>1. CASE k \in {"end", "broken"} BY <1>1, <1>6, <2>1 DEF ServerTyped
  <2>2. CASE k \notin {"end", "broken"}
    <3>1. Append(kept[root[branch[s]]], f) \in Seq(KeepOf(Rooted))
      BY <1>1, <1>4, <1>5, <2>2 DEF ServerTyped
    <3> QED BY <1>1, <1>6, <2>2, <3>1 DEF ServerTyped
  <2> QED BY <2>1, <2>2
<1> QED BY <1>7, <1>8

(* The server does not touch the page, but for what it says to a click. *)
LEMMA ServerTypes ==
  ASSUME TypeInv, UNCHANGED <<page, reader, reloads, posts>>, ServerTyped',
         click' \in [Click -> [kind : {"abort", "steer", "settle"},
                               branch : Branch \cup {None},
                               state : {"idle", "posted", "ok", "refused", "done"}]]
  PROVE  TypeInv'
<1>1. PageTyped /\ ClientTyped /\ PostTyped BY TypeParts
<1>2. Rooted' = Rooted /\ run' = run /\ undecided' = undecided /\ remembered' = remembered
      /\ kind' = kind /\ branch' = branch /\ root' = root
  BY SameRoots DEF page, posts
<1>3. PageTyped' BY <1>1, <1>2 DEF PageTyped
<1>4. ClientTyped' /\ PostTyped' BY <1>1, <1>2 DEF ClientTyped, PostTyped
<1> QED BY <1>3, <1>4, TypeParts, PTL

LEMMA ServeTyped ==
  ASSUME TypeInv, NEW s \in Stream, Serving(s) \/ Break(s)
  PROVE  TypeInv'
<1>1. ClientTyped /\ PostTyped /\ ServerTyped BY TypeParts
<1>2. UNCHANGED <<page, reader, click, reloads, posts>>
  BY DEF Serving, Answer, RefuseFork, Close, CloseAborted, EndStream, Cancelled, Break
<1>3. reader[s] # "idle" /\ Rooted' = Rooted
  BY <1>1, <1>2, SameRoots DEF ServerTyped, Serving, Answer, RefuseFork, Close, CloseAborted,
                    EndStream, Cancelled, Break
<1>4. attempt' \in [Stream -> {"idle", "refused", "open", "aborting", "closing", "done"}]
      /\ \E x \in {"refused", "open", "aborting", "closing", "done"} :
           attempt' = [attempt EXCEPT ![s] = x]
  BY <1>1 DEF ServerTyped, Serving, Answer, RefuseFork, Close, CloseAborted, EndStream,
         Cancelled, Break
<1>5. \A t \in Stream : reader'[t] = "idle" => attempt'[t] = "idle"
  BY <1>1, <1>2, <1>3, <1>4 DEF ServerTyped
<1>6. breaks' \in 0..MaxBreaks
  BY <1>1, PageAssumption DEF ServerTyped, Serving, Answer, RefuseFork, Close, CloseAborted,
     EndStream, Cancelled, Break
<1>7. truth' \in [Branch -> {"none", "running", "parked", "interrupted", "unknown",
                             "finished", "aborted"}]
  <2>1. CASE Close(s)
    <3>1. \/ UNCHANGED truth
          \/ \E x \in {"parked", "interrupted", "unknown", "finished"} :
               truth' = [truth EXCEPT ![branch[s]] = x]
      BY <2>1 DEF Close
    <3> QED BY <1>1, <3>1 DEF ServerTyped
  <2>2. CASE Answer(s) BY <1>1, <2>2 DEF ServerTyped, Answer
  <2>3. CASE Cancelled(s) BY <1>1, <2>3 DEF ServerTyped, Cancelled
  <2>4. CASE Break(s) BY <1>1, <2>4 DEF ServerTyped, Break
  <2>5. CASE RefuseFork(s) \/ CloseAborted(s) \/ EndStream(s)
    BY <1>1, <2>5 DEF ServerTyped, RefuseFork, CloseAborted, EndStream
  <2> QED BY <2>1, <2>2, <2>3, <2>4, <2>5 DEF Serving
<1>8. /\ feed' \in [Stream -> Seq(FrameOf(Rooted))]
      /\ kept' \in [Branch -> Seq(KeepOf(Rooted))]
  <2>1. CASE feed' = feed /\ kept' = kept BY <1>1, <2>1 DEF ServerTyped
  <2>2. CASE \E k \in {"meta", "end", "broken"} \cup Closing : Send(s, k)
    BY <1>3, <2>2, SendTypes
  <2> QED BY <2>1, <2>2 DEF Serving, Answer, RefuseFork, Close, CloseAborted, EndStream,
                            Cancelled, Break, Closing
<1>9. ServerTyped' BY <1>3, <1>4, <1>5, <1>6, <1>7, <1>8 DEF ServerTyped
<1>10. click' = click BY <1>2
<1> QED BY <1>1, <1>2, <1>9, <1>10, ServerTypes DEF ClientTyped

LEMMA AnswerTyped ==
  ASSUME TypeInv, NEW c \in Click, AnswerAbort(c) \/ AnswerSteer(c) \/ AnswerSettle(c)
  PROVE  TypeInv'
<1>1. ClientTyped /\ PostTyped /\ ServerTyped BY TypeParts
<1>2. UNCHANGED <<page, reader, reloads, posts>> /\ UNCHANGED <<breaks, feed, kept>>
  BY DEF AnswerAbort, AnswerSteer, AnswerSettle, server
<1>3. click' \in [Click -> [kind : {"abort", "steer", "settle"},
                            branch : Branch \cup {None},
                            state : {"idle", "posted", "ok", "refused", "done"}]]
  BY <1>1 DEF ClientTyped, AnswerAbort, AnswerSteer, AnswerSettle, Says
<1>4. truth' \in [Branch -> {"none", "running", "parked", "interrupted", "unknown",
                             "finished", "aborted"}]
  BY <1>1 DEF ServerTyped, AnswerAbort, AnswerSteer, AnswerSettle, server
<1>5. /\ attempt' \in [Stream -> {"idle", "refused", "open", "aborting", "closing", "done"}]
      /\ \A t \in Stream : reader'[t] = "idle" => attempt'[t] = "idle"
  <2>1. CASE AnswerAbort(c)
    <3> DEFINE live == {t \in Stream : branch[t] = click[c].branch /\ attempt[t] = "open"}
    <3>1. attempt' = [t \in Stream |-> IF t \in live THEN "aborting" ELSE attempt[t]]
      BY <2>1 DEF AnswerAbort
    <3> QED BY <1>1, <1>2, <3>1 DEF ServerTyped
  <2>2. CASE AnswerSteer(c) \/ AnswerSettle(c)
    BY <1>1, <1>2, <2>2 DEF ServerTyped, AnswerSteer, AnswerSettle, server
  <2> QED BY <2>1, <2>2
<1>6. Rooted' = Rooted BY <1>2, SameRoots
<1>7. ServerTyped' BY <1>1, <1>2, <1>4, <1>5, <1>6 DEF ServerTyped
<1> QED BY <1>2, <1>3, <1>7, ServerTypes

(* So do the clicks, and what the page hears of them. *)
LEMMA ClickTyped ==
  ASSUME TypeInv, NEW c \in Click,
         abort(c) \/ sendSteer(c) \/ settle(c) \/ HearRefused(c) \/ HearAbort(c) \/ HearSteer(c)
  PROVE  TypeInv'
<1>1. PageTyped /\ ClientTyped /\ PostTyped /\ ServerTyped BY TypeParts
<1>2. run \in RunOf(Rooted) /\ run.branchId \in Branch \cup {None}
  BY <1>1 DEF PageTyped, RunOf, Rooted
<1>3. failCurrent(run) \in RunOf(Rooted) /\ finishRun(run) \in RunOf(Rooted)
  BY <1>2, Transitions
<1>4. UNCHANGED <<reader, reloads, breaks, posts, server>>
  BY DEF abort, sendSteer, settle, Press, HearRefused, HearAbort, HearSteer
<1>5. run' \in RunOf(Rooted) /\ undecided' = undecided /\ remembered' = remembered
  BY <1>2, <1>3 DEF abort, sendSteer, settle, Press, HearRefused, HearAbort, HearSteer, page
<1>6. click' \in [Click -> [kind : {"abort", "steer", "settle"},
                            branch : Branch \cup {None},
                            state : {"idle", "posted", "ok", "refused", "done"}]]
  <2>1. CASE \E k \in {"abort", "steer", "settle"} : Press(c, k)
    BY <1>1, <1>2, <2>1 DEF ClientTyped, Press
  <2>2. CASE Done(c) BY <1>1, <2>2 DEF ClientTyped, Done
  <2> QED BY <2>1, <2>2 DEF abort, sendSteer, settle, HearRefused, HearAbort, HearSteer
<1>7. /\ Rooted' = Rooted /\ kind' = kind /\ branch' = branch /\ root' = root
      /\ attempt' = attempt /\ feed' = feed /\ kept' = kept /\ truth' = truth
  BY <1>4, SameRoots DEF posts, server
<1>8. PageTyped' BY <1>1, <1>5, <1>7 DEF PageTyped
<1>9. ClientTyped' /\ PostTyped' /\ ServerTyped'
  BY <1>1, <1>4, <1>6, <1>7 DEF ClientTyped, PostTyped, ServerTyped
<1> QED BY <1>8, <1>9, TypeParts, PTL

LEMMA SettleTyped ==
  ASSUME TypeInv, NEW c \in Click, NEW s \in Stream, HearSettle(c, s)
  PROVE  TypeInv'
<1>1. PageTyped /\ ClientTyped /\ PostTyped /\ ServerTyped BY TypeParts
<1>2. run \in RunOf(Rooted) /\ run.branchId \in Rooted \cup {None}
  BY <1>1 DEF PageTyped, RunOf
<1>3. failCurrent(run) \in RunOf(Rooted) /\ settleRun(run) \in RunOf(Rooted)
  BY <1>2, Transitions
<1>4. beginContinuation(settleRun(run)) \in RunOf(Rooted) BY <1>3, Transitions
<1>5. click' \in [Click -> [kind : {"abort", "steer", "settle"},
                            branch : Branch \cup {None},
                            state : {"idle", "posted", "ok", "refused", "done"}]]
  BY <1>1 DEF ClientTyped, HearSettle, Done
<1>6. undecided' \in BOOLEAN BY DEF HearSettle
<1>7. CASE canSettleRun(run) /\ canContinue(settleRun(run))
  <2>1. /\ run' = beginContinuation(settleRun(run))
        /\ Post(s, "recover", run.branchId, root[run.branchId])
    BY <1>7 DEF HearSettle
  <2>2. run.branchId # None BY <1>2, <1>7 DEF canContinue, settleRun, RunOf
  <2>3. run.branchId \in Branch /\ root[run.branchId] \in Branch
    BY <1>2, <2>2 DEF Rooted
  <2>4. /\ PostTyped' /\ ServerTyped' /\ Rooted \subseteq Rooted'
        /\ reader' \in [Stream -> {"idle", "posted", "reading", "ended", "unread", "gone"}]
    BY <2>1, <2>3, PostTypes
  <2>5. run' \in RunOf(Rooted') BY <1>4, <2>1, <2>4, WiderRun
  <2>6. remembered' = remembered /\ reloads' = reloads BY <2>1 DEF Post
  <2>7. PageTyped' BY <1>1, <1>6, <2>4, <2>5, <2>6 DEF PageTyped
  <2>8. ClientTyped' BY <1>1, <1>5, <2>4, <2>6 DEF ClientTyped
  <2> QED BY <2>4, <2>7, <2>8, TypeParts, PTL
<1>8. CASE ~(canSettleRun(run) /\ canContinue(settleRun(run)))
  <2>1. run' = failCurrent(run) /\ UNCHANGED <<remembered, reader, reloads, breaks, posts, server>>
    BY <1>8 DEF HearSettle
  <2>2. /\ Rooted' = Rooted /\ kind' = kind /\ branch' = branch /\ root' = root
        /\ attempt' = attempt /\ feed' = feed /\ kept' = kept /\ truth' = truth
    BY <2>1, SameRoots DEF posts, server
  <2>3. PageTyped' BY <1>1, <1>3, <1>6, <2>1, <2>2 DEF PageTyped
  <2>4. ClientTyped' /\ PostTyped' /\ ServerTyped'
    BY <1>1, <1>5, <2>1, <2>2 DEF ClientTyped, PostTyped, ServerTyped
  <2> QED BY <2>3, <2>4, TypeParts, PTL
<1> QED BY <1>7, <1>8

(* What a page that is loaded again shows is made of frames that were kept. *)
LEMMA RestoredTyped ==
  ASSUME TypeInv
  PROVE  Restored(KeptFrames) \in ViewOf(Rooted)
<1>1. PageTyped /\ ServerTyped BY TypeParts
<1>2. KeptFrames \in Seq(KeepOf(Rooted))
  <2>1. CASE remembered = None BY <2>1 DEF KeptFrames
  <2>2. CASE remembered \in Rooted /\ remembered # None
    <3>1. root[remembered] \in Branch BY <2>2 DEF Rooted
    <3> QED BY <1>1, <2>2, <3>1 DEF KeptFrames, ServerTyped
  <2> QED BY <1>1, <2>1, <2>2 DEF PageTyped
<1>3. Played(KeptFrames) \in ViewOf(Rooted) BY <1>2, PlayedTyped
<1>4. View(createRunState, FALSE) \in ViewOf(Rooted)
  BY DEF View, ViewOf, createRunState, RunOf, Phase
<1>5. \/ Restored(KeptFrames) = Played(KeptFrames)
      \/ Restored(KeptFrames) = View(createRunState, FALSE)
  BY DEF Restored, Played, Blank
<1> QED BY <1>3, <1>4, <1>5

LEMMA ReloadTyped == ASSUME TypeInv, Reload PROVE TypeInv'
<1>1. PageTyped /\ ClientTyped /\ PostTyped /\ ServerTyped BY TypeParts
<1>2. Restored(KeptFrames) \in ViewOf(Rooted) BY RestoredTyped
<1>3. /\ Rooted' = Rooted /\ kind' = kind /\ branch' = branch /\ root' = root /\ breaks' = breaks
      /\ attempt' = attempt /\ feed' = feed /\ kept' = kept /\ truth' = truth
  BY SameRoots DEF Reload, posts, server
<1>4. run' \in RunOf(Rooted) /\ undecided' \in BOOLEAN /\ remembered' \in Rooted \cup {None}
  BY <1>1, <1>2 DEF Reload, ViewOf, PageTyped
<1>5. PageTyped' BY <1>3, <1>4 DEF PageTyped
<1>6. reader' \in [Stream -> {"idle", "posted", "reading", "ended", "unread", "gone"}]
      /\ \A t \in Stream : reader'[t] = "idle" <=> reader[t] = "idle"
  BY DEF Reload
<1>7. click' \in [Click -> [kind : {"abort", "steer", "settle"},
                            branch : Branch \cup {None},
                            state : {"idle", "posted", "ok", "refused", "done"}]]
  BY <1>1 DEF Reload, ClientTyped
<1>8. reloads' \in 0..MaxReloads BY <1>1, PageAssumption DEF Reload, ClientTyped
<1>9. ClientTyped' BY <1>6, <1>7, <1>8 DEF ClientTyped
<1>10. PostTyped' /\ ServerTyped' BY <1>1, <1>3, <1>6 DEF PostTyped, ServerTyped
<1> QED BY <1>5, <1>9, <1>10, TypeParts, PTL

(* Every step keeps the types. *)
LEMMA TypesStep == TypeInv /\ [Next]_vars => TypeInv'
<1> SUFFICES ASSUME TypeInv, [Next]_vars PROVE TypeInv'
  OBVIOUS
<1>1. CASE UNCHANGED vars
  BY <1>1 DEF vars, page, server, posts, TypeInv, Types, Rooted
<1>2. CASE returnDraft
  <2>1. PageTyped /\ ClientTyped /\ PostTyped /\ ServerTyped BY TypeParts
  <2>2. /\ Rooted' = Rooted /\ kind' = kind /\ branch' = branch /\ root' = root
        /\ attempt' = attempt /\ feed' = feed /\ kept' = kept /\ truth' = truth
        /\ reader' = reader /\ click' = click /\ reloads' = reloads /\ breaks' = breaks
    BY <1>2, SameRoots DEF returnDraft, posts, server
  <2>3. createRunState \in RunOf(Rooted) BY DEF createRunState, RunOf, Phase
  <2>4. PageTyped' BY <1>2, <2>2, <2>3 DEF returnDraft, PageTyped
  <2>5. ClientTyped' /\ PostTyped' /\ ServerTyped'
    BY <2>1, <2>2 DEF ClientTyped, PostTyped, ServerTyped
  <2> QED BY <2>4, <2>5, TypeParts, PTL
<1>3. CASE Reload BY <1>3, ReloadTyped
<1> QED BY <1>1, <1>2, <1>3, PostsTyped, ReadTyped, ServeTyped, AnswerTyped, ClickTyped,
           SettleTyped DEF Next

(* The types (Types), whatever is clicked, in whatever order. *)
THEOREM TypeCorrect == Spec => []Types
<1>1. TypeInv => Types BY DEF TypeInv
<1> QED BY <1>1, TypesInit, TypesStep, PTL DEF Spec

----------------------------------------------------------------------------
(* The ends of streams, whatever is clicked, in whatever order. *)

(* A stream the page waits for, and a click whose answer it has not heard. *)
Asking(s) == reader[s] \in {"posted", "reading"}
InHand(c) == click[c].state \in {"posted", "ok", "refused"}

(* There is a run exactly when the page is not idle. *)
Sound(r) == r.active <=> r.phase # "idle"

(* The end of a stream does nothing to such a run. *)
Quiet(r) == r.phase # "streaming"

(* Stream s may end without harm, or another one is asked for. *)
Excused(s) == Quiet(run) \/ \E t \in Stream : t # s /\ Asking(t)

(* What is not read yet ends behind a closing frame; a run whose stream has  *)
(* its closing frame read is quiet, unless that stream was overtaken.        *)
Orderly(s) ==
  LET F == feed[s]
  IN  /\ \A i \in DOMAIN F : F[i].kind = "end" =>
           IF i = 1 THEN reader[s] = "reading" /\ Excused(s)
           ELSE F[i - 1].kind \in Closing
      /\ attempt[s] = "closing" =>
           IF F = <<>> THEN reader[s] = "reading" /\ Excused(s)
           ELSE F[Len(F)].kind \in Closing

Queued ==
  /\ Sound(run)
  /\ \A s \in Stream : attempt[s] = "idle" => feed[s] = <<>>
  /\ \A s \in Stream : Asking(s) => Orderly(s)

LEMMA QueuedInit == Init => Queued
BY DEF Init, Queued, Asking, Sound, createRunState

(* The run stays sound, whatever the page does to it. *)
LEMMA SoundRuns ==
  ASSUME NEW B, NEW r \in RunOf(B), Sound(r)
  PROVE  /\ Sound(createRunState) /\ Sound(startRun(r)) /\ Sound(failCurrent(r))
         /\ Quiet(failCurrent(r)) /\ (r.active => Sound(finishRun(r)))
         /\ r.phase \in {"suspended", "recoverable"} => Sound(beginContinuation(r))
         /\ r.phase = "terminal" => Sound(beginFork(r))
         /\ r.active => Sound(beginContinuation(settleRun(r)))
         /\ r.active => Sound(replayStream(r)) /\ replayStream(r).active
BY DEF Sound, Quiet, createRunState, startRun, failCurrent, failRun, finishRun,
       beginContinuation, beginFork, settleRun, replayStream, RunOf

(* A frame keeps it so; a closing frame that is taken quiets it. *)
LEMMA SoundFrame ==
  ASSUME NEW B, NEW v \in ViewOf(B), NEW f \in KeepOf(B), Sound(v.run)
  PROVE  /\ Sound(handleFrame(v, f).run)
         /\ v.run.active => handleFrame(v, f).run.active
         /\ ~v.threw /\ f.kind \in Closing /\ ~handleFrame(v, f).threw
              => Quiet(handleFrame(v, f).run)
<1>1. v.run \in RunOf(B) BY DEF ViewOf
<1>2. /\ canAttach(v.run) => /\ Sound(attachBranchId(v.run, f.branch))
                             /\ attachBranchId(v.run, f.branch).active
      /\ canPark(v.run) => /\ Sound(suspendRun(v.run, f.id)) /\ suspendRun(v.run, f.id).active
                           /\ Sound(markRecoverable(v.run)) /\ markRecoverable(v.run).active
      /\ v.run.active => /\ Sound(finishRun(v.run)) /\ finishRun(v.run).active
                         /\ Sound(failRun(v.run)) /\ failRun(v.run).active
  BY <1>1 DEF Sound, canAttach, attachBranchId, canPark, PARKABLE, suspendRun, markRecoverable,
              finishRun, failRun, RunOf
<1>3. /\ Quiet(suspendRun(v.run, f.id)) /\ Quiet(markRecoverable(v.run))
      /\ Quiet(finishRun(v.run)) /\ Quiet(failRun(v.run))
  BY <1>1 DEF Quiet, suspendRun, markRecoverable, finishRun, failRun, RunOf
<1>4. f.kind \in {"meta", "suspended", "recoverable", "outcome", "failed", "indeterminate"}
  BY DEF KeepOf, Closing
<1>5. CASE f.kind = "meta" BY <1>2, <1>5 DEF handleFrame, Apply, ViewOf, Closing
<1>6. CASE f.kind = "suspended" BY <1>2, <1>3, <1>6 DEF handleFrame, Apply, ViewOf
<1>7. CASE f.kind = "recoverable" BY <1>2, <1>3, <1>7 DEF handleFrame, Apply, ViewOf
<1>8. CASE f.kind = "outcome" BY <1>2, <1>3, <1>8 DEF handleFrame, Apply, ViewOf
<1>9. CASE f.kind = "failed" BY <1>2, <1>3, <1>9 DEF handleFrame, Apply, ViewOf
<1>10. CASE f.kind = "indeterminate" BY <1>2, <1>3, <1>10 DEF handleFrame, Apply, ViewOf
<1> QED BY <1>4, <1>5, <1>6, <1>7, <1>8, <1>9, <1>10

(* So does a replay, frame by frame. *)
LEMMA SoundReplay ==
  ASSUME NEW B, NEW v \in ViewOf(B), NEW f \in KeepOf(B), Sound(v.run), v.run.active
  PROVE  Sound(Replayed(v, f).run) /\ Replayed(v, f).run.active
<1> DEFINE w == [v EXCEPT !.run = replayStream(v.run)]
<1>1. v.run \in RunOf(B) BY DEF ViewOf
<1>2. replayStream(v.run) \in RunOf(B) BY <1>1, Transitions
<1>3. w \in ViewOf(B) /\ w.run = replayStream(v.run) BY <1>2 DEF ViewOf
<1> HIDE DEF w
<1>4. Sound(w.run) /\ w.run.active BY <1>1, <1>3, SoundRuns
<1>5. Sound(handleFrame(w, f).run) /\ handleFrame(w, f).run.active
  BY <1>3, <1>4, SoundFrame
<1>6. Sound(handleFrame(v, f).run) /\ handleFrame(v, f).run.active BY SoundFrame
<1>7. Replayed(v, f) \in {v, handleFrame(v, f), handleFrame(w, f)} BY DEF Replayed, w
<1> QED BY <1>5, <1>6, <1>7

LEMMA SoundBlank == Sound(Blank.run) /\ Blank.run.active
<1>1. Blank.run = startRun(createRunState) BY DEF Blank, View
<1> QED BY <1>1 DEF startRun, createRunState, Sound

LEMMA SoundPlayed ==
  ASSUME NEW B, NEW fs \in Seq(KeepOf(B))
  PROVE  Sound(Played(fs).run)
<1> DEFINE n == Len(fs)
<1>1. PICK g \in [0..n -> ViewOf(B)] :
        /\ g[0] = Blank
        /\ \A i \in 1..n : g[i] = Replayed(g[i - 1], fs[i])
        /\ Played(fs) = g[n]
  BY PlayRuns
<1>2. n \in Nat /\ \A i \in 1..n : fs[i] \in KeepOf(B) OBVIOUS
<1> HIDE DEF n
<1> DEFINE A == {i \in 0..n : Sound(g[i].run) /\ g[i].run.active}
<1>3. 0 \in A BY <1>1, <1>2, SoundBlank
<1>4. ASSUME NEW i \in 1..n, i - 1 \in A PROVE i \in A
  <2>1. i - 1 \in 0..n /\ i \in 0..n BY <1>2
  <2>2. g[i - 1] \in ViewOf(B) /\ Sound(g[i - 1].run) /\ g[i - 1].run.active
    BY <1>1, <1>4, <2>1
  <2>3. fs[i] \in KeepOf(B) BY <1>2
  <2>4. Sound(Replayed(g[i - 1], fs[i]).run) /\ Replayed(g[i - 1], fs[i]).run.active
    BY <2>2, <2>3, SoundReplay
  <2> QED BY <1>1, <2>1, <2>4
<1> HIDE DEF A
<1>5. A \in SUBSET (0..n) BY DEF A
<1>6. A = 0..n BY <1>2, <1>3, <1>4, <1>5, Inducts
<1>7. n \in A BY <1>2, <1>6
<1> QED BY <1>1, <1>7 DEF A

LEMMA SoundRestored == ASSUME TypeInv PROVE Sound(Restored(KeptFrames).run)
<1>1. PageTyped /\ ServerTyped BY TypeParts
<1>2. KeptFrames \in Seq(KeepOf(Rooted))
  <2>1. CASE remembered = None BY <2>1 DEF KeptFrames
  <2>2. CASE remembered \in Rooted /\ remembered # None
    <3>1. root[remembered] \in Branch BY <2>2 DEF Rooted
    <3> QED BY <1>1, <2>2, <3>1 DEF KeptFrames, ServerTyped
  <2> QED BY <1>1, <2>1, <2>2 DEF PageTyped
<1>3. Sound(Played(KeptFrames).run) BY <1>2, SoundPlayed
<1>4. Sound(View(createRunState, FALSE).run) BY DEF View, createRunState, Sound
<1>5. \/ Restored(KeptFrames) = Played(KeptFrames)
      \/ Restored(KeptFrames) = View(createRunState, FALSE)
  BY DEF Restored, Played, Blank
<1> QED BY <1>3, <1>4, <1>5

(* Steps that ask for no stream, and send nothing. *)
LEMMA QueuedSame ==
  ASSUME Queued, attempt' = attempt, feed' = feed, reader' = reader,
         Sound(run'), Quiet(run) => Quiet(run')
  PROVE  Queued'
<1>1. ASSUME NEW s \in Stream, Asking(s)' PROVE Orderly(s)'
  <2>1. Orderly(s) BY <1>1 DEF Queued, Asking
  <2>2. Excused(s) => Excused(s)' BY DEF Excused, Asking
  <2> QED BY <2>1, <2>2 DEF Orderly
<1>2. Sound(run)' BY DEF Sound
<1> QED BY <1>1, <1>2 DEF Queued

(* A stream that is asked for overtakes those that are read. *)
LEMMA QueuedPosts ==
  ASSUME TypeInv, Queued, NEW s \in Stream, NEW k, NEW b, NEW o, Post(s, k, b, o), Sound(run')
  PROVE  Queued'
<1>1. /\ reader' = [reader EXCEPT ![s] = "posted"] /\ reader[s] = "idle"
      /\ attempt' = attempt /\ feed' = feed
  BY DEF Post, server
<1>2. ClientTyped /\ ServerTyped BY TypeParts
<1>3. attempt[s] = "idle" /\ feed[s] = <<>> BY <1>1, <1>2 DEF ServerTyped, Queued
<1>4. Orderly(s)' BY <1>1, <1>3 DEF Orderly
<1>5. Asking(s)' BY <1>1, <1>2 DEF Asking, ClientTyped
<1>6. ASSUME NEW t \in Stream, t # s, Asking(t)' PROVE Orderly(t)'
  <2>1. reader'[t] = reader[t] BY <1>1, <1>2, <1>6 DEF ClientTyped
  <2>2. Orderly(t) BY <1>6, <2>1 DEF Asking, Queued
  <2>3. Excused(t)' BY <1>5, <1>6 DEF Excused
  <2> QED BY <1>1, <2>1, <2>2, <2>3 DEF Orderly
<1>7. Sound(run)' BY DEF Sound
<1> QED BY <1>1, <1>4, <1>6, <1>7 DEF Queued

LEMMA QueuedPage ==
  ASSUME TypeInv, Queued, NEW s \in Stream,
         runActive(s) \/ decide(s) \/ recover(s) \/ forkSource(s)
  PROVE  Queued'
<1>1. run \in RunOf(Rooted) /\ Sound(run) BY TypeParts DEF PageTyped, Queued
<1>2. Sound(run')
  BY <1>1, SoundRuns DEF runActive, decide, recover, forkSource, canFork
<1>3. \E k, b, o : Post(s, k, b, o) BY DEF runActive, decide, recover, forkSource
<1> QED BY <1>2, <1>3, QueuedPosts

LEMMA QueuedClicks ==
  ASSUME TypeInv, Queued, NEW c \in Click,
         abort(c) \/ sendSteer(c) \/ settle(c) \/ HearRefused(c) \/ HearAbort(c)
         \/ HearSteer(c)
  PROVE  Queued'
<1>1. run \in RunOf(Rooted) /\ Sound(run) BY TypeParts DEF PageTyped, Queued
<1>2. UNCHANGED <<reader, server>>
  BY DEF abort, sendSteer, settle, Press, HearRefused, HearAbort, HearSteer
<1>3. run' = run \/ run' = failCurrent(run) \/ (run' = finishRun(run) /\ run.active)
  BY DEF abort, sendSteer, settle, Press, HearRefused, HearAbort, HearSteer, page
<1>4. Quiet(finishRun(run)) BY <1>1 DEF Quiet, finishRun, RunOf
<1>5. Sound(run') /\ (Quiet(run) => Quiet(run')) BY <1>1, <1>3, <1>4, SoundRuns
<1> QED BY <1>2, <1>5, QueuedSame DEF server

LEMMA QueuedSettles ==
  ASSUME TypeInv, Queued, NEW c \in Click, NEW s \in Stream, HearSettle(c, s)
  PROVE  Queued'
<1>1. run \in RunOf(Rooted) /\ Sound(run) BY TypeParts DEF PageTyped, Queued
<1>2. CASE canSettleRun(run) /\ canContinue(settleRun(run))
  <2>1. run' = beginContinuation(settleRun(run)) /\ \E k, b, o : Post(s, k, b, o)
    BY <1>2 DEF HearSettle
  <2>2. Sound(run') BY <1>1, <1>2, <2>1, SoundRuns DEF canSettleRun
  <2> QED BY <2>1, <2>2, QueuedPosts
<1>3. CASE ~(canSettleRun(run) /\ canContinue(settleRun(run)))
  <2>1. run' = failCurrent(run) /\ UNCHANGED <<reader, server>> BY <1>3 DEF HearSettle
  <2>2. Sound(run') /\ Quiet(run') BY <1>1, <2>1, SoundRuns
  <2> QED BY <2>1, <2>2, QueuedSame DEF server
<1> QED BY <1>2, <1>3

(* The server hears a click. *)
LEMMA AbortsOpen ==
  ASSUME TypeInv, NEW c \in Click, AnswerAbort(c) \/ AnswerSteer(c) \/ AnswerSettle(c)
  PROVE  /\ UNCHANGED <<page, reader, feed>>
         /\ \A t \in Stream :
              attempt'[t] = attempt[t] \/ (attempt'[t] = "aborting" /\ attempt[t] = "open")
<1>1. UNCHANGED <<page, reader, feed>>
  BY DEF AnswerAbort, AnswerSteer, AnswerSettle, server
<1>2. CASE AnswerAbort(c)
  <2> DEFINE live == {t \in Stream : branch[t] = click[c].branch /\ attempt[t] = "open"}
  <2>1. attempt' = [t \in Stream |-> IF t \in live THEN "aborting" ELSE attempt[t]]
    BY <1>2 DEF AnswerAbort
  <2> QED BY <1>1, <2>1
<1>3. CASE AnswerSteer(c) \/ AnswerSettle(c)
  BY <1>1, <1>3 DEF AnswerSteer, AnswerSettle, server
<1> QED BY <1>2, <1>3

LEMMA QueuedAnswers ==
  ASSUME TypeInv, Queued, NEW c \in Click, AnswerAbort(c) \/ AnswerSteer(c) \/ AnswerSettle(c)
  PROVE  Queued'
<1>1. /\ UNCHANGED <<page, reader, feed>>
      /\ \A t \in Stream :
           attempt'[t] = attempt[t] \/ (attempt'[t] = "aborting" /\ attempt[t] = "open")
  BY AbortsOpen
<1>2. ASSUME NEW t \in Stream, Asking(t)' PROVE Orderly(t)'
  <2>1. Orderly(t) BY <1>1, <1>2 DEF Queued, Asking
  <2>2. Excused(t)' <=> Excused(t) BY <1>1 DEF Excused, Asking, Quiet, page
  <2> QED BY <1>1, <2>1, <2>2 DEF Orderly
<1>3. Sound(run)' BY <1>1 DEF Queued, Sound, page
<1> QED BY <1>1, <1>2, <1>3 DEF Queued

(* Places of a queue. *)
LEMMA EmptyIs == ASSUME NEW B, NEW F \in Seq(B) PROVE F = <<>> <=> Len(F) = 0
OBVIOUS

LEMMA Lower ==
  ASSUME NEW n \in Nat, n >= 1, n # 1 PROVE n - 1 \in 1..(n - 1) /\ (n - 1) + 1 = n
OBVIOUS

(* What is left to read when one frame was. *)
LEMMA Unread ==
  ASSUME NEW B, NEW F \in Seq(B), F # <<>>
  PROVE  /\ Head(F) = F[1] /\ Len(F) \in Nat /\ Len(F) >= 1
         /\ Len(Tail(F)) = Len(F) - 1 /\ DOMAIN Tail(F) = 1..(Len(F) - 1)
         /\ \A i \in 1..(Len(F) - 1) : Tail(F)[i] = F[i + 1]
         /\ Tail(F) = <<>> <=> Len(F) = 1
<1>1. Tail(F) \in Seq(B) OBVIOUS
<1>2. Tail(F) = <<>> <=> Len(Tail(F)) = 0 BY <1>1, EmptyIs
<1> QED BY <1>2

(* What the page does to its run when it reads. *)
LEMMA SoundRead ==
  ASSUME TypeInv, Queued, NEW s \in Stream, Reading(s)
  PROVE  /\ Sound(run') /\ Asking(s)
         /\ Asking(s)' \/ Quiet(run')
         /\ ReadFrame(s) /\ Asking(s)' /\ Head(feed[s]).kind \in Closing => Quiet(run')
<1>1. PageTyped /\ ClientTyped /\ ServerTyped BY TypeParts
<1>2. run \in RunOf(Rooted) /\ undecided \in BOOLEAN /\ Sound(run)
  BY <1>1 DEF PageTyped, Queued
<1>3. Sound(failCurrent(run)) /\ Quiet(failCurrent(run)) BY <1>2, SoundRuns
<1>4. Asking(s) BY DEF Asking, Reading, Refused, Opens, ReadFrame, ReadEnd, Reads
<1>5. CASE Refused(s) BY <1>3, <1>4, <1>5 DEF Refused, ReadFrame, Reads
<1>6. CASE Opens(s)
  <2>1. run' = run /\ Asking(s)' /\ reader[s] = "posted"
    BY <1>1, <1>6 DEF Opens, page, Asking, ClientTyped
  <2> QED BY <1>2, <1>4, <2>1 DEF ReadFrame, Reads
<1>7. CASE ReadEnd(s)
  <2>1. run' = failCurrent(run) \/ (run' = run /\ acceptsStreamEnd(run)) BY <1>7 DEF ReadEnd
  <2>2. Sound(run') /\ Quiet(run')
    BY <1>2, <1>3, <2>1 DEF acceptsStreamEnd, ENDABLE, Quiet
  <2> QED BY <1>4, <2>2
<1>8. CASE ReadFrame(s)
  <2> DEFINE f == Head(feed[s])
             u == View(run, undecided)
             v == handleFrame(u, f)
  <2>1. /\ feed[s] # <<>> /\ f.kind \in {"meta"} \cup Closing
        /\ reader[s] = "reading"
        /\ run' = IF v.threw THEN failCurrent(run) ELSE v.run
        /\ reader' = [reader EXCEPT ![s] = IF v.threw THEN "unread" ELSE "reading"]
    BY <1>8 DEF ReadFrame, Reads
  <2>2. f \in KeepOf(Rooted)
    <3>1. feed[s] \in Seq(FrameOf(Rooted)) BY <1>1 DEF ServerTyped
    <3>2. f \in FrameOf(Rooted) BY <2>1, <3>1
    <3> QED BY <2>1, <3>2 DEF FrameOf, KeepOf
  <2>3. u \in ViewOf(Rooted) /\ u.run = run /\ ~u.threw BY <1>2 DEF View, ViewOf
  <2> HIDE DEF u, f
  <2>4. Sound(v.run) /\ (f.kind \in Closing /\ ~v.threw => Quiet(v.run))
    BY <1>2, <2>2, <2>3, SoundFrame
  <2> HIDE DEF v
  <2>5. Asking(s)' <=> ~v.threw BY <1>1, <2>1 DEF Asking, ClientTyped
  <2> QED BY <1>3, <1>4, <2>1, <2>4, <2>5 DEF f
<1> QED BY <1>5, <1>6, <1>7, <1>8 DEF Reading

(* Reading a frame, an end or a refusal. *)
LEMMA QueuedReads ==
  ASSUME TypeInv, Queued, NEW s \in Stream, Reading(s)
  PROVE  Queued'
<1>1. ClientTyped /\ ServerTyped BY TypeParts
<1>2. /\ Sound(run') /\ Asking(s)
      /\ Asking(s)' \/ Quiet(run')
      /\ ReadFrame(s) /\ Asking(s)' /\ Head(feed[s]).kind \in Closing => Quiet(run')
  BY SoundRead
<1>3. Orderly(s) BY <1>2 DEF Queued
<1>4. attempt' = attempt /\ \A t \in Stream : t # s => feed'[t] = feed[t] /\ reader'[t] = reader[t]
  BY <1>1 DEF ClientTyped, ServerTyped, Reading, Refused, Opens, ReadFrame, ReadEnd, Reads, server
<1>5. ASSUME NEW t \in Stream, t # s, Asking(t)' PROVE Orderly(t)'
  <2>1. Orderly(t) BY <1>4, <1>5 DEF Asking, Queued
  <2>2. Excused(t)' BY <1>2, <1>5 DEF Excused, Quiet
  <2> QED BY <1>4, <1>5, <2>1, <2>2 DEF Orderly
<1>6. feed[s] \in Seq(FrameOf(Rooted)) BY <1>1 DEF ServerTyped
<1>7. \A t \in Stream : attempt'[t] = "idle" => feed'[t] = <<>>
  <2>1. attempt[s] = "idle" => feed'[s] = <<>>
    BY <1>1 DEF Queued, ServerTyped, Reading, Refused, Opens, ReadFrame, ReadEnd, Reads, server
  <2> QED BY <1>4, <2>1 DEF Queued
<1>8. Asking(s)' => Orderly(s)'
  <2>1. CASE Refused(s) \/ ReadEnd(s)
    <3>1. reader'[s] = "ended"
      BY <1>1, <2>1 DEF Refused, ReadEnd, Reads, ClientTyped
    <3> QED BY <3>1 DEF Asking
  <2>2. CASE Opens(s)
    <3>1. reader[s] = "posted" /\ run' = run /\ feed' = feed
      BY <2>2 DEF Opens, page, server
    <3> QED BY <1>3, <1>4, <3>1 DEF Orderly
  <2>3. CASE ReadFrame(s)
    <3> DEFINE F == feed[s]
    <3> SUFFICES ASSUME Asking(s)' PROVE Orderly(s)'
      OBVIOUS
    <3>1. F # <<>> /\ feed'[s] = Tail(F) /\ reader[s] = "reading"
      BY <1>1, <2>3 DEF ReadFrame, Reads, ServerTyped
    <3>2. reader'[s] = "reading"
      BY <1>1, <2>3 DEF ReadFrame, Asking, ClientTyped
    <3>3. Head(F).kind \in Closing => Excused(s)'
      BY <1>2, <2>3 DEF Excused, Quiet
    <3>4. /\ Head(F) = F[1] /\ Len(F) \in Nat /\ Len(F) >= 1
          /\ Len(Tail(F)) = Len(F) - 1 /\ DOMAIN Tail(F) = 1..(Len(F) - 1)
          /\ \A i \in 1..(Len(F) - 1) : Tail(F)[i] = F[i + 1]
          /\ Tail(F) = <<>> <=> Len(F) = 1
      BY <1>6, <3>1, Unread
    <3>5. DOMAIN F = 1..Len(F) BY <1>6
    <3> HIDE DEF F
    <3>6. /\ \A i \in 1..Len(F) : F[i].kind = "end" =>
               IF i = 1 THEN reader[s] = "reading" /\ Excused(s)
               ELSE F[i - 1].kind \in Closing
          /\ attempt[s] = "closing" =>
               IF F = <<>> THEN reader[s] = "reading" /\ Excused(s)
               ELSE F[Len(F)].kind \in Closing
      BY <1>3, <3>5 DEF Orderly, F
    <3>7. ASSUME NEW i \in DOMAIN Tail(F), Tail(F)[i].kind = "end"
          PROVE  IF i = 1 THEN reader'[s] = "reading" /\ Excused(s)'
                 ELSE Tail(F)[i - 1].kind \in Closing
      <4>1. i \in 1..(Len(F) - 1) /\ F[i + 1].kind = "end" BY <3>4, <3>7
      <4>2. i + 1 \in 1..Len(F) /\ i + 1 # 1 /\ (i + 1) - 1 = i BY <3>4, <4>1
      <4>3. F[i].kind \in Closing BY <3>6, <4>1, <4>2
      <4>4. CASE i = 1 BY <3>2, <3>3, <3>4, <4>3, <4>4
      <4>5. CASE i # 1
        <5>1. i - 1 \in 1..(Len(F) - 1) /\ (i - 1) + 1 = i BY <3>4, <4>1, <4>5
        <5> QED BY <3>4, <4>3, <4>5, <5>1
      <4> QED BY <4>4, <4>5
    <3>8. ASSUME attempt[s] = "closing"
           PROVE  IF Tail(F) = <<>> THEN reader'[s] = "reading" /\ Excused(s)'
                  ELSE Tail(F)[Len(Tail(F))].kind \in Closing
      <4>1. F[Len(F)].kind \in Closing BY <3>1, <3>6, <3>8 DEF F
      <4>2. CASE Tail(F) = <<>>
        <5>1. Len(F) = 1 BY <3>4, <4>2
        <5> QED BY <3>2, <3>3, <3>4, <4>1, <4>2, <5>1
      <4>3. CASE Tail(F) # <<>>
        <5>1. Len(F) \in Nat /\ Len(F) >= 1 /\ Len(F) # 1 BY <3>4, <4>3
        <5>2. Len(F) - 1 \in 1..(Len(F) - 1) /\ (Len(F) - 1) + 1 = Len(F)
          BY <5>1, Lower
        <5>3. Tail(F)[Len(F) - 1] = F[Len(F)] BY <3>4, <5>2
        <5> QED BY <3>4, <4>1, <4>3, <5>3
      <4> QED BY <4>2, <4>3
    <3> QED BY <1>4, <3>1, <3>7, <3>8 DEF Orderly
  <2> QED BY <2>1, <2>2, <2>3 DEF Reading
<1>9. Sound(run)' BY <1>2 DEF Sound
<1> QED BY <1>5, <1>7, <1>8, <1>9 DEF Queued

(* The server sends a frame, or ends a stream. *)
LEMMA QueuedSends ==
  ASSUME TypeInv, Queued, NEW s \in Stream, Serving(s) \/ Break(s)
  PROVE  Queued'
<1>1. ClientTyped /\ ServerTyped BY TypeParts
<1>2. UNCHANGED <<page, reader>>
  BY DEF Serving, Answer, RefuseFork, Close, CloseAborted, EndStream, Cancelled, Break
<1>3. \A t \in Stream : Excused(t)' <=> Excused(t)
  BY <1>2 DEF Excused, Asking, Quiet, page
<1>4. \A t \in Stream : t # s => attempt'[t] = attempt[t] /\ feed'[t] = feed[t]
  BY <1>1 DEF Serving, Answer, RefuseFork, Close, CloseAborted, EndStream, Cancelled, Break,
         Send, ServerTyped
<1>5. attempt'[s] # "idle"
  BY <1>1 DEF Serving, Answer, RefuseFork, Close, CloseAborted, EndStream, Cancelled, Break,
         ServerTyped
<1>6. ASSUME Asking(s) PROVE Orderly(s)'
  <2>1. Orderly(s) BY <1>6 DEF Queued
  <2> DEFINE F == feed[s]
  <2>2. F \in Seq(FrameOf(Rooted)) BY <1>1 DEF ServerTyped
  <2>3. Len(F) \in Nat /\ DOMAIN F = 1..Len(F) BY <2>2
  <2>4. CASE feed' = feed /\ attempt'[s] # "closing"
    BY <1>2, <1>3, <2>1, <2>4 DEF Orderly
  <2>5. ASSUME NEW k \in {"meta", "end", "broken"} \cup Closing, Send(s, k),
               k = "end" => attempt[s] = "closing",
               attempt'[s] = "closing" => k \in Closing
        PROVE  Orderly(s)'
    <3> DEFINE f == [kind |-> k, branch |-> branch[s], id |-> s]
               G == Append(F, f)
    <3>1. feed'[s] = G BY <1>1, <2>5 DEF Send, ServerTyped
    <3>2. /\ Len(G) = Len(F) + 1 /\ DOMAIN G = 1..(Len(F) + 1) /\ G # <<>>
          /\ G[Len(F) + 1] = f /\ \A i \in 1..Len(F) : G[i] = F[i]
      BY <2>2
    <3>3. f.kind = k OBVIOUS
    <3> HIDE DEF F, f, G
    <3>4. /\ \A i \in 1..Len(F) : F[i].kind = "end" =>
               IF i = 1 THEN reader[s] = "reading" /\ Excused(s)
               ELSE F[i - 1].kind \in Closing
          /\ attempt[s] = "closing" =>
               IF F = <<>> THEN reader[s] = "reading" /\ Excused(s)
               ELSE F[Len(F)].kind \in Closing
      BY <2>1, <2>3 DEF Orderly, F
    <3>5. ASSUME NEW i \in DOMAIN G, G[i].kind = "end"
          PROVE  IF i = 1 THEN reader[s] = "reading" /\ Excused(s)
                 ELSE G[i - 1].kind \in Closing
      <4>1. CASE i \in 1..Len(F)
        <5>1. i # 1 => i - 1 \in 1..Len(F) BY <2>3, <4>1
        <5> QED BY <3>2, <3>4, <3>5, <4>1, <5>1
      <4>2. CASE i = Len(F) + 1
        <5>1. attempt[s] = "closing" BY <2>5, <3>2, <3>3, <3>5, <4>2
        <5>2. CASE F = <<>>
          <6>1. Len(F) = 0 BY <5>2
          <6> QED BY <3>4, <4>2, <5>1, <5>2, <6>1
        <5>3. CASE F # <<>>
          <6>1. Len(F) # 0 BY <2>2, <5>3 DEF F
          <6>2. Len(F) \in 1..Len(F) /\ (Len(F) + 1) - 1 = Len(F) /\ i # 1
            BY <2>3, <4>2, <6>1
          <6> QED BY <3>2, <3>4, <4>2, <5>1, <5>3, <6>2
        <5> QED BY <5>2, <5>3
      <4> QED BY <2>3, <3>2, <4>1, <4>2
    <3>6. attempt'[s] = "closing" => G[Len(G)].kind \in Closing BY <2>5, <3>2, <3>3
    <3> QED BY <1>2, <1>3, <3>1, <3>2, <3>5, <3>6 DEF Orderly
  <2>6. CASE Answer(s)
    <3>1. Send(s, "meta") /\ attempt'[s] = "open" BY <1>1, <2>6 DEF Answer, ServerTyped
    <3> QED BY <2>5, <3>1
  <2>7. CASE RefuseFork(s) \/ Cancelled(s)
    <3>1. feed' = feed /\ attempt'[s] # "closing"
      BY <1>1, <2>7 DEF RefuseFork, Cancelled, ServerTyped
    <3> QED BY <2>4, <3>1
  <2>8. CASE Close(s) \/ CloseAborted(s)
    <3>1. \E k \in Closing : Send(s, k) BY <2>8 DEF Close, CloseAborted, Closing
    <3>2. "end" \notin Closing BY DEF Closing
    <3> QED BY <2>5, <3>1, <3>2
  <2>9. CASE EndStream(s)
    <3>1. Send(s, "end") /\ attempt[s] = "closing" /\ attempt'[s] = "done"
      BY <1>1, <2>9 DEF EndStream, ServerTyped
    <3> QED BY <2>5, <3>1
  <2>10. CASE Break(s)
    <3>1. Send(s, "broken") /\ attempt'[s] = "done" BY <1>1, <2>10 DEF Break, ServerTyped
    <3> QED BY <2>5, <3>1
  <2> QED BY <2>6, <2>7, <2>8, <2>9, <2>10 DEF Serving
<1>7. \A t \in Stream : Asking(t)' => Orderly(t)'
  <2> SUFFICES ASSUME NEW t \in Stream, Asking(t)' PROVE Orderly(t)'
    OBVIOUS
  <2>1. Asking(t) BY <1>2 DEF Asking
  <2>2. CASE t = s BY <1>6, <2>1, <2>2
  <2>3. CASE t # s
    <3>1. Orderly(t) BY <2>1 DEF Queued
    <3> QED BY <1>2, <1>3, <1>4, <2>3, <3>1 DEF Orderly
  <2> QED BY <2>2, <2>3
<1>8. \A t \in Stream : attempt'[t] = "idle" => feed'[t] = <<>> BY <1>4, <1>5 DEF Queued
<1>9. Sound(run)' BY <1>2 DEF Queued, Sound, page
<1> QED BY <1>7, <1>8, <1>9 DEF Queued

(* Every step keeps the queues in order. *)
LEMMA QueuedStep == TypeInv /\ Queued /\ [Next]_vars => Queued'
<1> SUFFICES ASSUME TypeInv, Queued, [Next]_vars PROVE Queued'
  OBVIOUS
<1>1. CASE UNCHANGED vars
  <2>1. UNCHANGED <<page, reader, attempt, feed>> BY <1>1 DEF vars, server
  <2> QED BY <2>1, QueuedSame DEF Queued, Sound, Quiet, page
<1>2. CASE returnDraft
  <2>1. UNCHANGED <<reader, server>> /\ run' = createRunState
    BY <1>2 DEF returnDraft
  <2>2. Quiet(run') /\ Sound(run') BY <2>1 DEF Quiet, Sound, createRunState
  <2> QED BY <2>1, <2>2, QueuedSame DEF server
<1>3. CASE Reload
  <2>1. /\ \A s \in Stream : ~Asking(s)'
        /\ attempt' = attempt /\ feed' = feed /\ run' = Restored(KeptFrames).run
    BY <1>3 DEF Reload, Asking, server
  <2>2. Sound(run)' BY <2>1, SoundRestored DEF Sound
  <2> QED BY <2>1, <2>2 DEF Queued
<1> QED BY <1>1, <1>2, <1>3, QueuedPage, QueuedReads, QueuedSends, QueuedAnswers,
           QueuedClicks, QueuedSettles DEF Next

(* Only the end of its own stream ends the reading of it. *)
LEMMA OnlyEndsEnd ==
  ASSUME TypeInv, Next, NEW s \in Stream, reader[s] = "reading", reader'[s] = "ended"
  PROVE  ReadEnd(s)
<1>1. ClientTyped BY TypeParts
<1>2. ASSUME NEW t \in Stream, Reading(t) PROVE ReadEnd(s)
  BY <1>1, <1>2 DEF Reading, Refused, Opens, ReadFrame, ReadEnd, Reads, ClientTyped
<1>3. ASSUME NEW t \in Stream, NEW k, NEW b, NEW o, Post(t, k, b, o) PROVE FALSE
  BY <1>1, <1>3 DEF Post, ClientTyped
<1>4. ASSUME NEW t \in Stream,
             runActive(t) \/ decide(t) \/ recover(t) \/ forkSource(t)
      PROVE  FALSE
  <2>1. \E k, b, o : Post(t, k, b, o) BY <1>4 DEF runActive, decide, recover, forkSource
  <2> QED BY <1>3, <2>1
<1>5. ASSUME NEW t \in Stream, NEW c \in Click, HearSettle(c, t) PROVE FALSE
  <2>1. reader' = reader \/ \E k, b, o : Post(t, k, b, o) BY <1>5 DEF HearSettle
  <2> QED BY <1>3, <2>1
<1>6. CASE Reload BY <1>6 DEF Reload
<1>7. ASSUME reader' = reader PROVE FALSE BY <1>7
<1>8. ASSUME NEW t \in Stream, Serving(t) \/ Break(t) PROVE reader' = reader
  BY <1>8 DEF Serving, Answer, RefuseFork, Close, CloseAborted, EndStream, Cancelled, Break
<1>9. ASSUME NEW c \in Click,
             abort(c) \/ sendSteer(c) \/ settle(c) \/ AnswerAbort(c) \/ AnswerSteer(c)
             \/ AnswerSettle(c) \/ HearRefused(c) \/ HearAbort(c) \/ HearSteer(c)
      PROVE  reader' = reader
  BY <1>9 DEF abort, sendSteer, settle, Press, AnswerAbort, AnswerSteer, AnswerSettle,
              HearRefused, HearAbort, HearSteer
<1>10. CASE returnDraft BY <1>10 DEF returnDraft
<1> QED BY <1>2, <1>4, <1>5, <1>6, <1>7, <1>8, <1>9, <1>10 DEF Next

LEMMA EndsStep ==
  TypeInv /\ Queued /\ [Next]_vars =>
    [\A s \in Stream : EndsProperly(s) /\ run' # run
       => run.phase = "streaming" /\ Overtaken(s)]_vars
<1> SUFFICES ASSUME TypeInv, Queued, Next, NEW s \in Stream, EndsProperly(s), run' # run
             PROVE  run.phase = "streaming" /\ Overtaken(s)
  BY DEF vars
<1>1. PageTyped /\ ServerTyped BY TypeParts
<1>2. ReadEnd(s) /\ reader[s] = "reading" BY OnlyEndsEnd DEF EndsProperly
<1>3. Head(feed[s]).kind = "end" /\ feed[s] # <<>>
  BY <1>2 DEF EndsProperly, ClosedProperly, ReadEnd, Reads
<1>4. feed[s] \in Seq(FrameOf(Rooted)) BY <1>1 DEF ServerTyped
<1>5. feed[s][1].kind = "end" /\ 1 \in DOMAIN feed[s] BY <1>3, <1>4
<1>6. Orderly(s) BY <1>2 DEF Queued, Asking
<1>7. Excused(s) BY <1>5, <1>6 DEF Orderly
<1>8. run \in RunOf(Rooted) /\ Sound(run) BY <1>1 DEF PageTyped, Queued
<1>9. run' = IF acceptsStreamEnd(run) THEN run ELSE failCurrent(run)
  BY <1>2, <1>3 DEF ReadEnd
<1>10. run.active /\ run.phase \notin ENDABLE
  BY <1>9 DEF acceptsStreamEnd, failCurrent
<1>11. run.phase = "streaming" BY <1>8, <1>10 DEF Sound, RunOf, Phase, ENDABLE
<1> QED BY <1>7, <1>11 DEF Excused, Quiet, Asking, Overtaken

(* Whatever is clicked, in whatever order, and whatever breaks: the end of a *)
(* stream that had its closing frame fails a run only if the page asked for  *)
(* another stream before that end (OnlyOvertakenEndsFail).                   *)
THEOREM EndsAreClean == Spec => OnlyOvertakenEndsFail
<1> QED
  BY TypesInit, TypesStep, QueuedInit, QueuedStep, EndsStep, PTL
  DEF Spec, OnlyOvertakenEndsFail

----------------------------------------------------------------------------
(* A patient page asks for one thing at a time. *)

OneAsked == \A s, t \in Stream : Asking(s) /\ Asking(t) => s = t

(* A settlement is asked for when nothing else is. *)
SettlesAlone ==
  \A c \in Click : InHand(c) /\ click[c].kind = "settle" =>
    /\ ~StreamOpen /\ run.phase \in {"error", "idle"}
    /\ \A d \in Click : InHand(d) => d = c

Tidy == OneAsked /\ SettlesAlone

LEMMA TidyInit == Init => Tidy
BY DEF Init, Tidy, Asking, OneAsked, SettlesAlone, InHand

(* A stream is asked for when none is read. *)
LEMMA OnePosted ==
  ASSUME TypeInv, ~StreamOpen, NEW s \in Stream, NEW k, NEW b, NEW o, Post(s, k, b, o)
  PROVE  OneAsked'
<1>1. reader' = [reader EXCEPT ![s] = "posted"] BY DEF Post
<1>2. ClientTyped BY TypeParts
<1>3. \A t \in Stream : Asking(t)' => t = s
  BY <1>1, <1>2 DEF StreamOpen, Asking, ClientTyped
<1> QED BY <1>3 DEF OneAsked

LEMMA TidyPage ==
  ASSUME Patient, TypeInv, NEW s \in Stream,
         runActive(s) \/ decide(s) \/ recover(s) \/ forkSource(s)
  PROVE  Tidy'
<1>1. ~InFlight /\ click' = click /\ \E k, b, o : Post(s, k, b, o)
  BY DEF runActive, decide, recover, forkSource, Ready
<1>2. ~StreamOpen /\ \A c \in Click : ~InHand(c) /\ ~InHand(c)'
  BY <1>1 DEF InFlight, InHand
<1>3. SettlesAlone' BY <1>2 DEF SettlesAlone
<1> QED BY <1>1, <1>2, <1>3, OnePosted DEF Tidy

LEMMA TidyClicks ==
  ASSUME Patient, TypeInv, Tidy, NEW c \in Click,
         abort(c) \/ sendSteer(c) \/ settle(c) \/ HearRefused(c) \/ HearAbort(c)
         \/ HearSteer(c)
  PROVE  Tidy'
<1>1. ClientTyped BY TypeParts
<1>2. UNCHANGED <<reader, server>>
  BY DEF abort, sendSteer, settle, Press, HearRefused, HearAbort, HearSteer
<1>3. OneAsked' BY <1>2 DEF Tidy, OneAsked, Asking
<1>4. StreamOpen' = StreamOpen BY <1>2 DEF StreamOpen
<1>5. CASE settle(c)
  <2>1. ~InFlight /\ run' = run /\ run.phase = "error"
    BY <1>5 DEF settle, Ready, Press, page
  <2>2. ~StreamOpen /\ \A d \in Click : ~InHand(d) BY <2>1 DEF InFlight, InHand
  <2>3. \A d \in Click : d # c => click'[d] = click[d]
    BY <1>1, <1>5 DEF settle, Press, ClientTyped
  <2>4. \A d \in Click : InHand(d)' => d = c BY <2>2, <2>3 DEF InHand
  <2>5. SettlesAlone' BY <1>4, <2>1, <2>2, <2>4 DEF SettlesAlone
  <2> QED BY <1>3, <2>5 DEF Tidy
<1>6. CASE abort(c) \/ sendSteer(c)
  <2>1. run' = run /\ run.phase \notin {"error", "idle"}
    BY <1>6 DEF abort, sendSteer, canSteer, Press, page, ACTIVE_PHASES
  <2>2. \A d \in Click : InHand(d) => click[d].kind # "settle"
    BY <2>1 DEF Tidy, SettlesAlone
  <2>3. click'[c].kind # "settle" /\ \A d \in Click : d # c => click'[d] = click[d]
    BY <1>1, <1>6 DEF abort, sendSteer, Press, ClientTyped
  <2>4. SettlesAlone' BY <2>2, <2>3 DEF SettlesAlone, InHand
  <2> QED BY <1>3, <2>4 DEF Tidy
<1>7. CASE HearRefused(c) \/ HearAbort(c) \/ HearSteer(c)
  <2>1. InHand(c) /\ ~InHand(c)' /\ \A d \in Click : d # c => click'[d] = click[d]
    BY <1>1, <1>7 DEF HearRefused, HearAbort, HearSteer, Done, InHand, ClientTyped
  <2>2. ASSUME NEW d \in Click, InHand(d)', click'[d].kind = "settle" PROVE FALSE
    <3>1. d # c /\ InHand(d) /\ click[d].kind = "settle" BY <2>1, <2>2 DEF InHand
    <3> QED BY <2>1, <3>1 DEF Tidy, SettlesAlone
  <2>3. SettlesAlone' BY <2>2 DEF SettlesAlone
  <2> QED BY <1>3, <2>3 DEF Tidy
<1> QED BY <1>5, <1>6, <1>7

LEMMA TidySettles ==
  ASSUME TypeInv, Tidy, NEW c \in Click, NEW s \in Stream, HearSettle(c, s)
  PROVE  Tidy'
<1>1. ClientTyped BY TypeParts
<1>2. InHand(c) /\ ~InHand(c)' /\ \A d \in Click : d # c => click'[d] = click[d]
  BY <1>1 DEF HearSettle, Done, InHand, ClientTyped
<1>3. click[c].kind = "settle" BY DEF HearSettle
<1>4. ~StreamOpen /\ \A d \in Click : InHand(d) => d = c
  BY <1>2, <1>3 DEF Tidy, SettlesAlone
<1>5. \A d \in Click : ~InHand(d)' BY <1>2, <1>4 DEF InHand
<1>6. SettlesAlone' BY <1>5 DEF SettlesAlone
<1>7. CASE \E k, b, o : Post(s, k, b, o) BY <1>4, <1>6, <1>7, OnePosted DEF Tidy
<1>8. CASE reader' = reader BY <1>6, <1>8 DEF Tidy, OneAsked, Asking
<1> QED BY <1>7, <1>8 DEF HearSettle

(* The server hears a click. *)
LEMMA TidyAnswers ==
  ASSUME TypeInv, Tidy, NEW c \in Click, AnswerAbort(c) \/ AnswerSteer(c) \/ AnswerSettle(c)
  PROVE  Tidy'
<1>1. ClientTyped BY TypeParts
<1>2. UNCHANGED <<page, reader>> BY AbortsOpen
<1>3. \A d \in Click : click'[d].kind = click[d].kind /\ (InHand(d)' <=> InHand(d))
  BY <1>1 DEF AnswerAbort, AnswerSteer, AnswerSettle, Says, InHand, ClientTyped
<1>4. SettlesAlone' BY <1>2, <1>3 DEF Tidy, SettlesAlone, StreamOpen, page
<1> QED BY <1>2, <1>4 DEF Tidy, OneAsked, Asking

(* Reading, with no settlement in hand, and sending. *)
LEMMA TidyStreams ==
  ASSUME TypeInv, Tidy, NEW s \in Stream, Reading(s) \/ Serving(s) \/ Break(s)
  PROVE  Tidy'
<1>1. ClientTyped BY TypeParts
<1>2. click' = click
  BY DEF Reading, Refused, Opens, ReadFrame, ReadEnd, Reads, Serving, Answer, RefuseFork, Close,
         CloseAborted, EndStream, Cancelled, Break
<1>3. CASE Reading(s)
  <2>1. Asking(s) /\ \A t \in Stream : t # s => reader'[t] = reader[t]
    BY <1>1, <1>3 DEF Asking, Reading, Refused, Opens, ReadFrame, ReadEnd, Reads, ClientTyped
  <2>2. \A t \in Stream : Asking(t)' => t = s BY <2>1 DEF Tidy, OneAsked, Asking
  <2>3. StreamOpen BY <2>1 DEF StreamOpen, Asking
  <2>4. \A c \in Click : ~(InHand(c) /\ click[c].kind = "settle")
    BY <2>3 DEF Tidy, SettlesAlone
  <2>5. SettlesAlone' BY <1>2, <2>4 DEF SettlesAlone, InHand
  <2> QED BY <2>2, <2>5 DEF Tidy, OneAsked
<1>4. CASE Serving(s) \/ Break(s)
  <2>1. UNCHANGED <<page, reader>>
    BY <1>4 DEF Serving, Answer, RefuseFork, Close, CloseAborted, EndStream, Cancelled, Break
  <2> QED BY <1>2, <2>1 DEF Tidy, OneAsked, Asking, SettlesAlone, InHand, StreamOpen, page
<1> QED BY <1>3, <1>4

(* Every step of a patient page keeps Tidy. *)
LEMMA TidyStep == ASSUME Patient PROVE TypeInv /\ Tidy /\ [Next]_vars => Tidy'
<1> SUFFICES ASSUME TypeInv, Tidy, [Next]_vars PROVE Tidy'
  OBVIOUS
<1>1. CASE UNCHANGED vars
  <2>1. UNCHANGED <<page, reader, click>> BY <1>1 DEF vars
  <2> QED BY <2>1 DEF Tidy, Asking, OneAsked, SettlesAlone, InHand, StreamOpen, page
<1>2. CASE returnDraft
  <2>1. UNCHANGED <<reader, click>> /\ run'.phase = "idle"
    BY <1>2 DEF returnDraft, createRunState
  <2> QED BY <2>1 DEF Tidy, OneAsked, Asking, SettlesAlone, InHand, StreamOpen
<1>3. CASE Reload
  <2>1. (\A s \in Stream : ~Asking(s)') /\ (\A c \in Click : ~InHand(c)')
    <3>1. ClientTyped BY TypeParts
    <3> QED BY <1>3, <3>1 DEF Reload, Asking, InHand, ClientTyped
  <2> QED BY <2>1 DEF Tidy, OneAsked, SettlesAlone
<1> QED BY <1>1, <1>2, <1>3, TidyPage, TidyStreams, TidyAnswers, TidyClicks,
           TidySettles DEF Next

----------------------------------------------------------------------------
(* What the page offers, and what a reload would show: the invariant. *)

(* The page is patient and nobody aborts or settles. *)
Gentle == Patient /\ Clicks \subseteq {"steer"}

(* A branch that was posted; what the page names is one. *)
Known(b) == b \in Branch /\ reader[b] # "idle" /\ branch[b] = b

Names ==
  /\ \A b \in Branch : Known(b) => Known(root[b])
  /\ \A s \in Stream : reader[s] # "idle" => Known(branch[s])
  /\ run.branchId # None => Known(run.branchId)

(* Nothing is kept of a branch before it is posted. *)
Unused ==
  \A s \in Stream : reader[s] = "idle" => kept[s] = <<>> /\ truth[s] = "none"

(* A stream the page no longer reads was answered, and nothing more comes of it. *)
Left ==
  \A s \in Stream : reader[s] \in {"ended", "unread", "gone"} =>
                      attempt[s] \in {"closing", "done"}

(* A steer is sent to the branch the page shows, and refused when that has  *)
(* finished.                                                                *)
Steers ==
  \A c \in Click : InHand(c) =>
    /\ click[c].kind = "steer" /\ "steer" \in Clicks /\ Known(click[c].branch)
    /\ run.active => run.branchId = click[c].branch
    /\ click[c].state = "refused" => truth[click[c].branch] = "finished"

(* A page that shows no run, and one that waits for frames. *)
Draft == run = createRunState /\ ~undecided /\ remembered = None
Live == run.phase = "streaming" /\ run.active /\ ~undecided

(* Where a run is shown. *)
At(b) == run.branchId = b /\ remembered = b
Toward(b) == run.branchId = None \/ At(b)

(* A view under way on branch b. *)
Streaming(v, b) ==
  /\ ~v.threw /\ v.run.active /\ ~v.undecided
  /\ v.run.phase = "streaming" /\ v.run.branchId = b

(* The phase that the closing frame k leads to. *)
PhaseOf(k) ==
  CASE k = "suspended" -> "suspended"
    [] k = "recoverable" -> "recoverable"
    [] k = "outcome" -> "terminal"
    [] k \in {"failed", "indeterminate"} -> "error"

(* The run r of stream s, after its closing frame k. *)
Reached(r, u, s, b, k) ==
  /\ r.active /\ r.branchId = b /\ r.phase = PhaseOf(k)
  /\ u = (k = "indeterminate")
  /\ k = "suspended" => r.pendingId = s

(* What happened on the server when frame k was sent. *)
Happened(t, k) ==
  /\ k = "suspended" => t = "parked"
  /\ k = "recoverable" => t = "interrupted"
  /\ k = "indeterminate" => t = "unknown"
  /\ k = "outcome" => t = "finished"

frame(s, k) == [kind |-> k, branch |-> branch[s], id |-> s]

(* What the kept frames of a conversation would show. *)
KeptOf(s) == kept[root[branch[s]]]
Held(s) == Played(KeptOf(s))

(* The stages of a stream that is read: it is posted and not answered; it is *)
(* open; it has its closing frame; its connection broke.                     *)
Waiting(s) ==
  /\ reader[s] = "posted" /\ feed[s] = <<>> /\ Live /\ Toward(branch[s])
  /\ kind[s] = "run" =>
       branch[s] = s /\ KeptOf(s) = <<>> /\ truth[s] = "none"
  /\ kind[s] # "run" =>
       /\ ~Held(s).threw /\ Held(s).run.active /\ ~Held(s).undecided
       /\ Held(s).run.branchId # None
  /\ kind[s] = "fork" =>
       /\ branch[s] = s /\ truth[s] = "none"
       /\ \E b \in Branch : b # s /\ root[b] = root[s] /\ truth[b] = "finished"
  /\ kind[s] = "resume" => truth[branch[s]] = "parked"
  /\ kind[s] = "recover" => truth[branch[s]] = "interrupted"

Begun(s) ==
  /\ Live /\ Fits(s) /\ KeptOf(s) # <<>> /\ Streaming(Held(s), branch[s])
  /\ \/ feed[s] = <<frame(s, "meta")>> /\ Toward(branch[s])
     \/ feed[s] = <<>> /\ reader[s] = "reading" /\ At(branch[s])

(* The page took a refused steer for the end of the run, which it is not; or *)
(* it went back to a draft since.                                            *)
Misled(s) ==
  /\ Clicks # {} /\ truth[branch[s]] = "finished"
  /\ \/ run.phase = "error" /\ run.active /\ ~undecided /\ At(branch[s])
     \/ Draft

(* What comes behind the closing frame. *)
Tails(s) ==
  IF attempt[s] = "closing" THEN {<<>>}
  ELSE {<<frame(s, e)>> : e \in IF breaks = 0 THEN {"end"} ELSE {"end", "broken"}}

(* The page is behind the closing frame k of stream s, or past it. *)
Follows(s, k, T) ==
  \/ /\ feed[s] = <<frame(s, "meta"), frame(s, k)>> \o T
     /\ (Live /\ Toward(branch[s])) \/ Misled(s)
  \/ /\ feed[s] = <<frame(s, k)>> \o T /\ reader[s] = "reading"
     /\ (Live /\ At(branch[s])) \/ Misled(s)
  \/ /\ feed[s] = T /\ reader[s] = "reading"
     /\ \/ Reached(run, undecided, s, branch[s], k) /\ remembered = branch[s]
        \/ Misled(s) \/ Draft

Closed(s, k) ==
  /\ Happened(truth[branch[s]], k) /\ KeptOf(s) # <<>> /\ ~Held(s).threw
  /\ Reached(Held(s).run, Held(s).undecided, s, branch[s], k)
  /\ \E T \in Tails(s) : Follows(s, k, T)

Broken(s) ==
  /\ breaks > 0 /\ Live /\ truth[branch[s]] = "interrupted"
  /\ KeptOf(s) # <<>> /\ Streaming(Held(s), branch[s])
  /\ \/ feed[s] = <<frame(s, "meta"), frame(s, "broken")>> /\ Toward(branch[s])
     \/ feed[s] = <<frame(s, "broken")>> /\ reader[s] = "reading" /\ At(branch[s])

(* How far a stream is that the page waits for, on the server and on the page. *)
Stage(s) ==
  \/ attempt[s] = "idle" /\ Waiting(s)
  \/ attempt[s] = "open" /\ Begun(s)
  \/ attempt[s] \in {"closing", "done"} /\ \E k \in Closing : Closed(s, k)
  \/ attempt[s] = "done" /\ Broken(s)

(* What a view offers is what the server would take (OffersHold). *)
Offers(v) ==
  LET b == v.run.branchId
  IN  /\ v.run.phase = "suspended" => truth[b] = "parked"
      /\ v.run.phase = "recoverable" => truth[b] = "interrupted"
      /\ v.run.phase = "terminal" => truth[b] = "finished"
      /\ v.undecided => v.run.phase = "error" /\ truth[b] = "unknown"

Agree(v) ==
  /\ run.phase = v.run.phase /\ undecided = v.undecided
  /\ run.phase = "suspended" => run.pendingId = v.run.pendingId

(* The page shows branch b, and the kept frames tell of it what is so. The   *)
(* page agrees with them, but where it has called the run failed.            *)
Shown(b) ==
  LET v == Played(kept[root[b]])
  IN  /\ b \in Branch /\ run.active /\ At(b) /\ kept[root[b]] # <<>>
      /\ ~v.threw /\ v.run.active /\ v.run.branchId = b /\ Offers(v)
      /\ run.phase # "error" \/ undecided \/ (breaks = 0 /\ Clicks = {}) => Agree(v)

(* A page that waits for nothing. *)
Rest == Draft \/ \E b \in Branch : Shown(b)

(* The invariant of a gentle page. *)
Whole ==
  /\ Names /\ Unused /\ Left /\ Steers
  /\ \A s \in Stream : Asking(s) => Stage(s)
  /\ ~StreamOpen => Rest

LEMMA WholeInit == Init => Whole
BY NoneApart DEF Init, Whole, Names, Known, Unused, Left, Steers, InHand, Asking,
   Rest, Draft, createRunState, Branch

(* What is known of a stream that was posted. *)
LEMMA Posted ==
  ASSUME TypeInv, Names, NEW s \in Stream, reader[s] # "idle"
  PROVE  /\ branch[s] \in Rooted /\ root[branch[s]] \in Rooted
         /\ KeptOf(s) \in Seq(KeepOf(Rooted)) /\ Held(s) \in ViewOf(Rooted)
         /\ KeptOf(s) = <<>> => Held(s) = Blank
<1>1. PostTyped /\ ServerTyped BY TypeParts
<1>2. branch[s] \in Rooted /\ Known(branch[s]) BY <1>1 DEF PostTyped, Names
<1>3. Known(root[branch[s]]) BY <1>2 DEF Names, Rooted
<1>4. root[branch[s]] \in Rooted BY <1>1, <1>3 DEF Known, PostTyped, Branch
<1>5. KeptOf(s) \in Seq(KeepOf(Rooted))
  BY <1>1, <1>4 DEF KeptOf, ServerTyped, Rooted
<1> QED BY <1>2, <1>4, <1>5, PlayedTyped, PlayedNone DEF Held

(* A meta frame puts a view under way on its branch. *)
LEMMA MetaStarts ==
  ASSUME NEW B, NEW v \in ViewOf(B), NEW f \in KeepOf(B), f.kind = "meta",
         ~v.threw, v.run.active, ~v.undecided, v.run.branchId # None \/ v = Blank
  PROVE  Streaming(Replayed(v, f), f.branch)
<1> DEFINE u == [v EXCEPT !.run = replayStream(v.run)]
           w == IF v.run.branchId # None THEN u ELSE v
<1>1. v.run \in RunOf(B) BY DEF ViewOf
<1>2. w \in ViewOf(B) /\ ~w.threw /\ ~w.undecided /\ w.run.active
  <2>1. u \in ViewOf(B) BY <1>1, Transitions DEF ViewOf
  <2>2. u.run = replayStream(v.run) /\ u.undecided = v.undecided /\ u.threw = v.threw
    BY DEF ViewOf
  <2> QED BY <1>1, <2>1, <2>2 DEF replayStream, RunOf
<1>3. w.run.phase = "streaming"
  <2>1. CASE v.run.branchId # None
    <3>1. w.run = replayStream(v.run) BY <2>1 DEF ViewOf
    <3> QED BY <1>1, <3>1 DEF replayStream, RunOf
  <2>2. CASE v = Blank /\ ~(v.run.branchId # None)
    <3>1. w.run = startRun(createRunState) BY <2>2 DEF Blank, View
    <3> QED BY <3>1 DEF startRun, createRunState
  <2> QED BY <2>1, <2>2
<1>4. Replayed(v, f) = handleFrame(w, f) BY DEF Replayed
<1> HIDE DEF w
<1>5. handleFrame(w, f) = [w EXCEPT !.run = attachBranchId(w.run, f.branch)]
  BY <1>3 DEF handleFrame, Apply, canAttach
<1>6. w.run \in RunOf(B) BY <1>2 DEF ViewOf
<1> QED BY <1>2, <1>3, <1>4, <1>5, <1>6 DEF Streaming, ViewOf, attachBranchId, RunOf

(* A closing frame ends a view that is under way in its phase. *)
LEMMA ClosingReaches ==
  ASSUME NEW B, NEW v \in ViewOf(B), NEW b, NEW f \in KeepOf(B), f.kind \in Closing,
         ~v.threw, v.run.active, ~v.undecided, v.run.phase = "streaming",
         v.run.branchId = b
  PROVE  /\ ~handleFrame(v, f).threw
         /\ Reached(handleFrame(v, f).run, handleFrame(v, f).undecided, f.id, b, f.kind)
<1> DEFINE u == [v EXCEPT !.undecided = TRUE]
<1>1. v.run \in RunOf(B) /\ u \in ViewOf(B) /\ u.run = v.run /\ u.undecided /\ ~u.threw
  BY DEF ViewOf
<1>2. canPark(v.run) BY DEF canPark, PARKABLE
<1> HIDE DEF u
<1>3. CASE f.kind = "suspended"
  <2>1. handleFrame(v, f) = [v EXCEPT !.run = suspendRun(v.run, f.id)]
    BY <1>2, <1>3 DEF handleFrame, Apply
  <2> QED BY <1>1, <1>3, <2>1 DEF Reached, PhaseOf, ViewOf, RunOf, suspendRun
<1>4. CASE f.kind = "recoverable"
  <2>1. handleFrame(v, f) = [v EXCEPT !.run = markRecoverable(v.run)]
    BY <1>2, <1>4 DEF handleFrame, Apply
  <2> QED BY <1>1, <1>4, <2>1 DEF Reached, PhaseOf, ViewOf, RunOf, markRecoverable
<1>5. CASE f.kind = "outcome"
  <2>1. handleFrame(v, f) = [v EXCEPT !.run = finishRun(v.run)]
    BY <1>5 DEF handleFrame, Apply
  <2> QED BY <1>1, <1>5, <2>1 DEF Reached, PhaseOf, ViewOf, RunOf, finishRun
<1>6. CASE f.kind = "failed"
  <2>1. handleFrame(v, f) = [v EXCEPT !.run = failRun(v.run)]
    BY <1>6 DEF handleFrame, Apply
  <2> QED BY <1>1, <1>6, <2>1 DEF Reached, PhaseOf, ViewOf, RunOf, failRun
<1>7. CASE f.kind = "indeterminate"
  <2>1. handleFrame(v, f) = [u EXCEPT !.run = failRun(v.run)]
    BY <1>7 DEF handleFrame, Apply, u
  <2> QED BY <1>1, <1>7, <2>1 DEF Reached, PhaseOf, ViewOf, RunOf, failRun
<1> QED BY <1>3, <1>4, <1>5, <1>6, <1>7 DEF Closing

(* Steps that leave the stream and the run it is read for alone. *)
LEMMA StageSame ==
  ASSUME NEW s \in Stream, Stage(s),
         UNCHANGED <<run, undecided, remembered, kind, branch, root, kept, truth>>,
         feed'[s] = feed[s], attempt'[s] = attempt[s],
         \/ reader'[s] = reader[s]
         \/ reader'[s] = "reading" /\ feed[s] # <<>>,
         breaks' = breaks \/ breaks' > 0, breaks > 0 => breaks' > 0
  PROVE  Stage(s)'
<1>1. /\ KeptOf(s)' = KeptOf(s) /\ Held(s)' = Held(s) /\ (Fits(s)' <=> Fits(s))
      /\ (Live' <=> Live) /\ (Draft' <=> Draft) /\ (Misled(s)' <=> Misled(s))
      /\ \A k : frame(s, k)' = frame(s, k)
      /\ (At(branch[s])' <=> At(branch[s])) /\ (Toward(branch[s])' <=> Toward(branch[s]))
  BY DEF KeptOf, Held, Fits, Live, Draft, Misled, frame, At, Toward
<1>2. Tails(s) \subseteq Tails(s)' BY <1>1 DEF Tails
<1>3. CASE attempt[s] = "idle" /\ Waiting(s)
  BY <1>1, <1>3 DEF Waiting, Stage
<1>4. CASE attempt[s] = "open" /\ Begun(s)
  BY <1>1, <1>4 DEF Begun, Stage
<1>5. CASE attempt[s] \in {"closing", "done"} /\ \E k \in Closing : Closed(s, k)
  <2>1. PICK k \in Closing : Closed(s, k) BY <1>5
  <2>2. PICK T \in Tails(s) : Follows(s, k, T) BY <2>1 DEF Closed
  <2>3. Follows(s, k, T)' BY <1>1, <2>2 DEF Follows
  <2>4. Closed(s, k)' BY <1>1, <1>2, <2>1, <2>2, <2>3 DEF Closed
  <2> QED BY <1>5, <2>4 DEF Stage
<1>6. CASE attempt[s] = "done" /\ Broken(s)
  BY <1>1, <1>6 DEF Broken, Stage
<1> QED BY <1>3, <1>4, <1>5, <1>6 DEF Stage

----------------------------------------------------------------------------
(* The server answers a stream, closes it and ends it. *)

(* Sequences of two and three, as the queues of frames are. *)
LEMMA TwoIs ==
  ASSUME NEW S, NEW x \in Seq(S), NEW a \in S, NEW b \in S, Len(x) = 2, x[1] = a, x[2] = b
  PROVE  x = <<a, b>>
<1>1. x \in [1..2 -> S] OBVIOUS
<1>2. <<a, b>> \in [1..2 -> S] OBVIOUS
<1>3. \A i \in 1..2 : x[i] = <<a, b>>[i]
  <2>1. 1..2 = {1, 2} OBVIOUS
  <2> QED BY <2>1
<1> QED BY <1>1, <1>2, <1>3

LEMMA ThreeIs ==
  ASSUME NEW S, NEW x \in Seq(S), NEW a \in S, NEW b \in S, NEW c \in S,
         Len(x) = 3, x[1] = a, x[2] = b, x[3] = c
  PROVE  x = <<a, b, c>>
<1>1. x \in [1..3 -> S] OBVIOUS
<1>2. <<a, b, c>> \in [1..3 -> S] OBVIOUS
<1>3. \A i \in 1..3 : x[i] = <<a, b, c>>[i]
  <2>1. 1..3 = {1, 2, 3} OBVIOUS
  <2> QED BY <2>1
<1> QED BY <1>1, <1>2, <1>3

LEMMA Queues ==
  ASSUME NEW a, NEW b, NEW e
  PROVE  /\ Append(<<>>, e) = <<e>> /\ Append(<<a>>, e) = <<a, e>>
         /\ <<a>> \o <<e>> = <<a, e>> /\ <<a, b>> \o <<e>> = <<a, b, e>>
         /\ Append(<<a, b>>, e) = <<a, b, e>>
<1> DEFINE S == {a, b, e}
<1>1. a \in S /\ b \in S /\ e \in S OBVIOUS
<1> HIDE DEF S
<1>2. /\ <<>> \in Seq(S) /\ <<a>> \in Seq(S) /\ <<a, b>> \in Seq(S) /\ <<e>> \in Seq(S)
      /\ Len(<<a>>) = 1 /\ Len(<<a, b>>) = 2
      /\ <<a>>[1] = a /\ <<a, b>>[1] = a /\ <<a, b>>[2] = b
  BY <1>1
<1>3. Append(<<>>, e) = <<e>> OBVIOUS
<1>4. Append(<<a>>, e) = <<a, e>>
  <2> DEFINE x == Append(<<a>>, e)
  <2>1. x \in Seq(S) /\ Len(x) = 2 /\ x[1] = a /\ x[2] = e
    BY <1>1, <1>2
  <2> HIDE DEF x
  <2>2. x = <<a, e>> BY <1>1, <2>1, TwoIs
  <2> QED BY <2>2 DEF x
<1>5. Append(<<a, b>>, e) = <<a, b, e>>
  <2> DEFINE x == Append(<<a, b>>, e)
  <2>1. x \in Seq(S) /\ Len(x) = 3 /\ x[1] = a /\ x[2] = b /\ x[3] = e
    BY <1>1, <1>2
  <2> HIDE DEF x
  <2>2. x = <<a, b, e>> BY <1>1, <2>1, ThreeIs
  <2> QED BY <2>2 DEF x
<1>6. <<a>> \o <<e>> = <<a, e>>
  <2> DEFINE x == <<a>> \o <<e>>
  <2>1. x \in Seq(S) /\ Len(x) = 2 /\ x[1] = a /\ x[2] = e
    BY <1>1, <1>2
  <2> HIDE DEF x
  <2>2. x = <<a, e>> BY <1>1, <2>1, TwoIs
  <2> QED BY <2>2 DEF x
<1>7. <<a, b>> \o <<e>> = <<a, b, e>>
  <2> DEFINE x == <<a, b>> \o <<e>>
  <2>1. x \in Seq(S) /\ Len(x) = 3 /\ x[1] = a /\ x[2] = b /\ x[3] = e
    BY <1>1, <1>2
  <2> HIDE DEF x
  <2>2. x = <<a, b, e>> BY <1>1, <2>1, ThreeIs
  <2> QED BY <2>2 DEF x
<1> QED BY <1>3, <1>4, <1>5, <1>6, <1>7

(* What was sent, with one frame more. *)
LEMMA Sent ==
  ASSUME NEW a, NEW b, NEW e
  PROVE  /\ Append(<<>> \o <<>>, e) = <<e>>
         /\ Append(<<a>> \o <<>>, e) = <<a>> \o <<e>>
         /\ Append(<<a, b>> \o <<>>, e) = <<a, b>> \o <<e>>
         /\ Append(<<>>, b) = <<b>> \o <<>> /\ Append(<<a>>, b) = <<a, b>> \o <<>>
<1>1. <<a>> \o <<>> = <<a>> /\ <<a, b>> \o <<>> = <<a, b>> /\ <<b>> \o <<>> = <<b>>
      /\ <<>> \o <<>> = <<>>
  OBVIOUS
<1>2. /\ Append(<<>>, e) = <<e>> /\ Append(<<a>>, e) = <<a, e>>
      /\ <<a>> \o <<e>> = <<a, e>> /\ <<a, b>> \o <<e>> = <<a, b, e>>
      /\ Append(<<a, b>>, e) = <<a, b, e>>
  BY Queues, Zenon
<1>3. Append(<<>>, b) = <<b>> /\ Append(<<a>>, b) = <<a, b>>
  BY Queues, Zenon
<1> QED BY <1>1, <1>2, <1>3, Zenon

(* A step of the server on stream s, when the page asks for it. *)
LEMMA ServesOne ==
  ASSUME TypeInv, Tidy, Whole, NEW s \in Stream, Asking(s), Stage(s)',
         UNCHANGED <<page, reader, click, posts>>,
         \A t \in Stream : t # s => attempt'[t] = attempt[t],
         \A b \in Branch : kept'[b] = kept[b] \/ b = root[branch[s]],
         \A b \in Branch : truth'[b] = truth[b] \/ b = branch[s],
         truth[branch[s]] = "finished" => truth'[branch[s]] = "finished"
  PROVE  Whole'
<1>1. PostTyped BY TypeParts
<1>2. /\ run' = run /\ undecided' = undecided /\ remembered' = remembered
      /\ reader' = reader /\ click' = click /\ branch' = branch /\ root' = root
  BY DEF page, posts
<1>3. \A b : Known(b)' <=> Known(b) BY <1>2 DEF Known
<1>4. Names' BY <1>2, <1>3 DEF Whole, Names
<1>5. Known(branch[s]) /\ Known(root[branch[s]])
  BY DEF Whole, Names, Asking, Known
<1>6. Unused' BY <1>2, <1>5 DEF Whole, Unused, Known, Branch
<1>7. Left' BY <1>2 DEF Whole, Left, Asking
<1>8. Steers' BY <1>2, <1>3 DEF Whole, Steers, InHand, Known
<1>9. \A t \in Stream : Asking(t)' => t = s BY <1>2 DEF Tidy, OneAsked, Asking
<1>10. StreamOpen' BY <1>2 DEF StreamOpen, Asking
<1> QED BY <1>4, <1>6, <1>7, <1>8, <1>9, <1>10 DEF Whole

(* A stream the page no longer reads has only its end to come. *)
LEMMA ServesLeft ==
  ASSUME TypeInv, Whole, NEW s \in Stream, ~Asking(s), Serving(s) \/ Break(s)
  PROVE  Whole'
<1>1. ClientTyped /\ ServerTyped BY TypeParts
<1>2. /\ UNCHANGED <<page, reader, click, posts>> /\ reader[s] # "idle"
  BY <1>1 DEF Serving, Answer, RefuseFork, Close, CloseAborted, EndStream, Cancelled, Break,
         ServerTyped
<1>3. attempt[s] \in {"closing", "done"}
  BY <1>1, <1>2 DEF Asking, Whole, Left, ClientTyped
<1>4. attempt[s] = "closing" /\ (EndStream(s) \/ Break(s))
  BY <1>3 DEF Serving, Answer, RefuseFork, Close, CloseAborted, EndStream, Cancelled, Break
<1>5. /\ attempt' = [attempt EXCEPT ![s] = "done"] /\ kept' = kept /\ truth' = truth
      /\ \A t \in Stream : t # s => feed'[t] = feed[t]
      /\ breaks' = breaks \/ breaks' = breaks + 1
  BY <1>1, <1>4 DEF EndStream, Break, Send, ServerTyped
<1>6. /\ run' = run /\ undecided' = undecided /\ remembered' = remembered
      /\ reader' = reader /\ click' = click /\ kind' = kind /\ branch' = branch
      /\ root' = root
  BY <1>2 DEF page, posts
<1>7. breaks \in Nat /\ (breaks' = breaks \/ breaks' > 0) /\ (breaks > 0 => breaks' > 0)
  BY <1>1, <1>5, PageAssumption DEF ServerTyped
<1>8. ASSUME NEW t \in Stream, Asking(t)' PROVE Stage(t)'
  <2>1. Asking(t) /\ t # s BY <1>6, <1>8 DEF Asking
  <2>2. Stage(t) /\ attempt'[t] = attempt[t] /\ feed'[t] = feed[t]
    BY <1>1, <1>5, <2>1 DEF Whole, ServerTyped
  <2> QED BY <1>5, <1>6, <1>7, <2>2, StageSame
<1>9. \A b : Known(b)' <=> Known(b) BY <1>6 DEF Known
<1>10. Names' BY <1>6, <1>9 DEF Whole, Names
<1>11. Unused' /\ Left' BY <1>1, <1>5, <1>6 DEF Whole, Unused, Left, ServerTyped
<1>12. Steers' BY <1>5, <1>6, <1>9 DEF Whole, Steers, InHand
<1>13. StreamOpen' <=> StreamOpen BY <1>6 DEF StreamOpen
<1>14. Rest => Rest'
  <2>1. Draft => Draft' BY <1>6 DEF Draft
  <2>2. ASSUME NEW b \in Branch, Shown(b) PROVE Shown(b)'
    <3> DEFINE v == Played(kept[root[b]])
    <3>1. v' = v BY <1>5, <1>6
    <3>2. /\ run.active /\ At(b) /\ kept[root[b]] # <<>> /\ ~v.threw /\ v.run.active
          /\ v.run.branchId = b /\ Offers(v)
          /\ run.phase # "error" \/ undecided \/ (breaks = 0 /\ Clicks = {}) => Agree(v)
      BY <2>2 DEF Shown
    <3> HIDE DEF v
    <3>3. At(b)' /\ Offers(v)' /\ (Agree(v)' <=> Agree(v))
      BY <1>5, <1>6, <3>1, <3>2 DEF At, Offers, Agree
    <3>4. breaks' = 0 => breaks = 0 BY <1>7
    <3> QED BY <1>5, <1>6, <3>1, <3>2, <3>3, <3>4 DEF Shown, v
  <2> QED BY <2>1, <2>2 DEF Rest
<1> QED BY <1>8, <1>10, <1>11, <1>12, <1>13, <1>14 DEF Whole

(* What sending a frame does to the stream and to its conversation. *)
LEMMA Sends ==
  ASSUME TypeInv, Whole, NEW s \in Stream, Asking(s), UNCHANGED posts,
         NEW k \in {"meta", "end", "broken"} \cup Closing, Send(s, k)
  PROVE  /\ feed'[s] = Append(feed[s], frame(s, k))
         /\ KeptOf(s)' = IF k \in {"end", "broken"} THEN KeptOf(s)
                         ELSE Append(KeptOf(s), frame(s, k))
         /\ k \in {"end", "broken"} => Held(s)' = Held(s)
         /\ k \notin {"end", "broken"} =>
              /\ frame(s, k) \in KeepOf(Rooted) /\ KeptOf(s)' # <<>>
              /\ Held(s)' = Replayed(Held(s), frame(s, k))
         /\ \A b \in Branch : kept'[b] = kept[b] \/ b = root[branch[s]]
<1>1. ServerTyped BY TypeParts
<1>2. /\ branch[s] \in Rooted /\ root[branch[s]] \in Rooted
      /\ KeptOf(s) \in Seq(KeepOf(Rooted))
  BY Posted DEF Whole, Asking
<1>3. branch' = branch /\ root' = root BY DEF posts
<1>4. root[branch[s]] \in Branch BY <1>2 DEF Rooted
<1> DEFINE f == frame(s, k)
<1>5. /\ feed' = [feed EXCEPT ![s] = Append(@, f)]
      /\ kept' = [kept EXCEPT ![root[branch[s]]] =
                    IF k \in {"end", "broken"} THEN @ ELSE Append(@, f)]
  BY DEF Send, frame
<1>6. k \notin {"end", "broken"} => f \in KeepOf(Rooted)
  BY <1>2 DEF KeepOf, frame
<1> HIDE DEF f
<1>7. feed'[s] = Append(feed[s], f) BY <1>1, <1>5 DEF ServerTyped
<1>8. \A b \in Branch : kept'[b] = kept[b] \/ b = root[branch[s]]
  BY <1>1, <1>5 DEF ServerTyped
<1>9. kept'[root[branch[s]]] = IF k \in {"end", "broken"} THEN kept[root[branch[s]]]
                               ELSE Append(kept[root[branch[s]]], f)
  BY <1>1, <1>4, <1>5 DEF ServerTyped
<1>10. KeptOf(s)' = IF k \in {"end", "broken"} THEN KeptOf(s) ELSE Append(KeptOf(s), f)
  BY <1>3, <1>9 DEF KeptOf
<1>11. k \in {"end", "broken"} => Held(s)' = Held(s) BY <1>10 DEF Held
<1>12. k \notin {"end", "broken"} =>
         KeptOf(s)' # <<>> /\ Held(s)' = Replayed(Held(s), f)
  <2> SUFFICES ASSUME k \notin {"end", "broken"}
               PROVE  KeptOf(s)' # <<>> /\ Held(s)' = Replayed(Held(s), f)
    OBVIOUS
  <2>1. KeptOf(s)' = Append(KeptOf(s), f) BY <1>10
  <2>2. Played(Append(KeptOf(s), f)) = Replayed(Played(KeptOf(s)), f)
    BY <1>2, <1>6, PlayedMore
  <2>3. Append(KeptOf(s), f) # <<>> BY <1>2
  <2> QED BY <2>1, <2>2, <2>3 DEF Held
<1> QED BY <1>6, <1>7, <1>8, <1>10, <1>11, <1>12 DEF f

(* The server answers: the meta frame is on its way. *)
LEMMA AnswerWhole ==
  ASSUME TypeInv, Tidy, Whole, NEW s \in Stream, Asking(s), Answer(s)
  PROVE  Whole'
<1>1. ClientTyped /\ PostTyped /\ ServerTyped BY TypeParts
<1>2. /\ UNCHANGED <<page, reader, click, reloads, breaks, posts>> /\ attempt[s] = "idle"
      /\ attempt' = [attempt EXCEPT ![s] = "open"] /\ Send(s, "meta")
      /\ truth' = [truth EXCEPT ![branch[s]] = IF @ = "none" THEN "running" ELSE @]
  BY DEF Answer
<1>3. /\ run' = run /\ undecided' = undecided /\ remembered' = remembered
      /\ branch' = branch /\ kind' = kind
  BY <1>2 DEF page, posts
<1>4. Waiting(s) BY <1>2 DEF Whole, Stage
<1> DEFINE f == frame(s, "meta")
<1>5. /\ feed'[s] = Append(feed[s], f) /\ KeptOf(s)' # <<>>
      /\ f \in KeepOf(Rooted) /\ Held(s)' = Replayed(Held(s), f)
      /\ \A b \in Branch : kept'[b] = kept[b] \/ b = root[branch[s]]
  BY <1>2, Sends
<1>6. /\ branch[s] \in Branch /\ Held(s) \in ViewOf(Rooted)
      /\ KeptOf(s) = <<>> => Held(s) = Blank
  BY Posted DEF Whole, Asking, Rooted
<1>7. truth'[branch[s]] = IF truth[branch[s]] = "none" THEN "running" ELSE truth[branch[s]]
  BY <1>1, <1>2, <1>6 DEF ServerTyped
<1>8. Streaming(Held(s)', branch[s])
  <2>1. /\ ~Held(s).threw /\ Held(s).run.active /\ ~Held(s).undecided
        /\ Held(s).run.branchId # None \/ Held(s) = Blank
    <3>1. CASE kind[s] = "run"
      <4>1. Held(s) = Blank BY <1>4, <1>6, <3>1 DEF Waiting
      <4>2. ~Blank.threw /\ ~Blank.undecided /\ Blank.run = startRun(createRunState)
        BY DEF Blank, View
      <4>3. startRun(createRunState).active BY DEF startRun, createRunState
      <4> QED BY <4>1, <4>2, <4>3
    <3> QED BY <1>4, <3>1 DEF Waiting
  <2>2. f.kind = "meta" /\ f.branch = branch[s] BY DEF frame
  <2> HIDE DEF f
  <2>3. Streaming(Replayed(Held(s), f), f.branch)
    BY <1>5, <1>6, <2>1, <2>2, MetaStarts
  <2> QED BY <1>5, <2>2, <2>3
<1>9. Fits(s)' BY <1>1, <1>3, <1>4, <1>7 DEF Waiting, Fits, PostTyped
<1>10. feed'[s] = <<f>>
  <2> HIDE DEF f
  <2>1. feed[s] = <<>> BY <1>4 DEF Waiting
  <2>2. Append(<<>>, f) = <<f>> BY Queues
  <2> QED BY <1>5, <2>1, <2>2
<1>11. Begun(s)'
  <2>1. Live' /\ Toward(branch[s])' /\ frame(s, "meta")' = f
    BY <1>3, <1>4 DEF Waiting, Live, Toward, At, frame
  <2> HIDE DEF f
  <2> QED BY <1>3, <1>5, <1>8, <1>9, <1>10, <2>1 DEF Begun
<1>12. attempt'[s] = "open" /\ \A t \in Stream : t # s => attempt'[t] = attempt[t]
  BY <1>1, <1>2 DEF ServerTyped
<1>13. Stage(s)' BY <1>11, <1>12 DEF Stage
<1>14. \A b \in Branch : truth'[b] = truth[b] \/ b = branch[s] BY <1>1, <1>2 DEF ServerTyped
<1> QED BY <1>2, <1>5, <1>7, <1>12, <1>13, <1>14, ServesOne

(* A view that is under way is ended by any closing frame. *)
LEMMA HeldCloses ==
  ASSUME TypeInv, Whole, NEW s \in Stream, Asking(s), NEW k \in Closing,
         frame(s, k) \in KeepOf(Rooted), Streaming(Held(s), branch[s]),
         Held(s)' = Replayed(Held(s), frame(s, k))
  PROVE  /\ ~Held(s)'.threw
         /\ Reached(Held(s)'.run, Held(s)'.undecided, s, branch[s], k)
<1> DEFINE f == frame(s, k)
           b == branch[s]
<1>1. f.kind = k /\ f.id = s /\ k # "meta" BY DEF frame, Closing
<1>2. Held(s) \in ViewOf(Rooted) BY Posted DEF Whole, Asking
<1>3. /\ ~Held(s).threw /\ Held(s).run.active /\ ~Held(s).undecided
      /\ Held(s).run.phase = "streaming" /\ Held(s).run.branchId = b
  BY DEF Streaming
<1> HIDE DEF f, b
<1>4. Held(s)' = handleFrame(Held(s), f) BY <1>1, <1>3 DEF Replayed, f
<1>5. f \in KeepOf(Rooted) /\ f.kind \in Closing BY <1>1 DEF f
<1>6. /\ ~handleFrame(Held(s), f).threw
      /\ Reached(handleFrame(Held(s), f).run, handleFrame(Held(s), f).undecided, f.id, b,
                 f.kind)
  BY <1>2, <1>3, <1>5, ClosingReaches
<1> QED BY <1>1, <1>4, <1>6 DEF b

(* It closes the stream: what happened is what the frame says. *)
LEMMA CloseWhole ==
  ASSUME TypeInv, Tidy, Whole, NEW s \in Stream, Asking(s), Close(s)
  PROVE  Whole'
<1>1. ClientTyped /\ PostTyped /\ ServerTyped BY TypeParts
<1>2. /\ UNCHANGED <<page, reader, click, reloads, breaks, posts>> /\ attempt[s] = "open"
      /\ attempt' = [attempt EXCEPT ![s] = "closing"]
  BY DEF Close
<1>3. /\ run' = run /\ undecided' = undecided /\ remembered' = remembered
      /\ branch' = branch /\ reader' = reader
  BY <1>2 DEF page, posts
<1>4. Begun(s) /\ Fits(s) BY <1>2 DEF Whole, Stage, Begun
<1>5. branch[s] \in Branch BY Posted DEF Whole, Asking, Rooted
<1>6. truth[branch[s]] # "finished" BY <1>1, <1>4 DEF Fits, PostTyped
<1>7. PICK k \in Closing :
        /\ Send(s, k) /\ Happened(truth'[branch[s]], k)
        /\ truth' = truth \/ \E e : truth' = [truth EXCEPT ![branch[s]] = e]
  <2>1. CASE Send(s, "failed") /\ UNCHANGED truth
    <3>1. Happened(truth'[branch[s]], "failed") BY DEF Happened
    <3> QED BY <2>1, <3>1 DEF Closing
  <2>2. CASE \E e \in {<<"suspended", "parked">>, <<"recoverable", "interrupted">>,
                       <<"indeterminate", "unknown">>, <<"outcome", "finished">>} :
               Send(s, e[1]) /\ truth' = [truth EXCEPT ![branch[s]] = e[2]]
    <3>1. ASSUME NEW k \in Closing, NEW e, Send(s, k), Happened(e, k),
                 truth' = [truth EXCEPT ![branch[s]] = e]
          PROVE  Send(s, k) /\ Happened(truth'[branch[s]], k)
      BY <1>1, <1>5, <3>1 DEF ServerTyped
    <3>2. /\ Happened("parked", "suspended") /\ Happened("interrupted", "recoverable")
          /\ Happened("unknown", "indeterminate") /\ Happened("finished", "outcome")
      BY DEF Happened
    <3>3. \/ Send(s, "suspended") /\ truth' = [truth EXCEPT ![branch[s]] = "parked"]
          \/ Send(s, "recoverable") /\ truth' = [truth EXCEPT ![branch[s]] = "interrupted"]
          \/ Send(s, "indeterminate") /\ truth' = [truth EXCEPT ![branch[s]] = "unknown"]
          \/ Send(s, "outcome") /\ truth' = [truth EXCEPT ![branch[s]] = "finished"]
      <4>1. PICK e \in {<<"suspended", "parked">>, <<"recoverable", "interrupted">>,
                        <<"indeterminate", "unknown">>, <<"outcome", "finished">>} :
              Send(s, e[1]) /\ truth' = [truth EXCEPT ![branch[s]] = e[2]]
        BY <2>2
      <4>2. \/ e[1] = "suspended" /\ e[2] = "parked"
            \/ e[1] = "recoverable" /\ e[2] = "interrupted"
            \/ e[1] = "indeterminate" /\ e[2] = "unknown"
            \/ e[1] = "outcome" /\ e[2] = "finished"
        OBVIOUS
      <4> QED BY <4>1, <4>2
    <3> QED BY <3>1, <3>2, <3>3 DEF Closing
  <2> QED BY <2>1, <2>2 DEF Close
<1> DEFINE f == frame(s, k)
           m == frame(s, "meta")
<1>8. k \notin {"end", "broken"} BY DEF Closing
<1>9. /\ feed'[s] = Append(feed[s], f) /\ KeptOf(s)' # <<>>
      /\ f \in KeepOf(Rooted) /\ Held(s)' = Replayed(Held(s), f)
      /\ \A b \in Branch : kept'[b] = kept[b] \/ b = root[branch[s]]
  BY <1>2, <1>7, <1>8, Sends
<1>10. ~Held(s)'.threw /\ Reached(Held(s)'.run, Held(s)'.undecided, s, branch[s], k)
  BY <1>4, <1>9, HeldCloses DEF Begun
<1>11. attempt'[s] = "closing" /\ \A t \in Stream : t # s => attempt'[t] = attempt[t]
  BY <1>1, <1>2 DEF ServerTyped
<1>12. Follows(s, k, <<>>)'
  <2>1. frame(s, "meta")' = m /\ frame(s, k)' = f BY <1>3 DEF frame
  <2>2. (Live' <=> Live) /\ (Toward(branch[s])' <=> Toward(branch[s]))
        /\ (At(branch[s])' <=> At(branch[s]))
    BY <1>3 DEF Live, Toward, At
  <2> HIDE DEF f, m
  <2>3. Append(<<>>, f) = <<f>> \o <<>> /\ Append(<<m>>, f) = <<m, f>> \o <<>>
    BY Sent
  <2>4. CASE feed[s] = <<m>> /\ Toward(branch[s])
    <3>1. feed'[s] = <<m, f>> \o <<>> BY <1>9, <2>3, <2>4
    <3> QED BY <1>4, <2>1, <2>2, <2>4, <3>1 DEF Follows, Begun
  <2>5. CASE feed[s] = <<>> /\ reader[s] = "reading" /\ At(branch[s])
    <3>1. feed'[s] = <<f>> \o <<>> BY <1>9, <2>3, <2>5
    <3> QED BY <1>3, <1>4, <2>1, <2>2, <2>5, <3>1 DEF Follows, Begun
  <2> QED BY <1>4, <2>4, <2>5 DEF Begun, m
<1>13. <<>> \in Tails(s)' BY <1>11 DEF Tails
<1>14. Closed(s, k)' BY <1>3, <1>7, <1>9, <1>10, <1>12, <1>13 DEF Closed
<1>15. Stage(s)' BY <1>11, <1>14 DEF Stage
<1>16. \A b \in Branch : truth'[b] = truth[b] \/ b = branch[s]
  BY <1>1, <1>7 DEF ServerTyped
<1> QED BY <1>2, <1>6, <1>9, <1>11, <1>15, <1>16, ServesOne

(* The end of a stream that was closed, however it comes. *)
LEMMA EndsFollow ==
  ASSUME TypeInv, Whole, NEW s \in Stream, Asking(s), NEW k \in Closing, Closed(s, k),
         attempt[s] = "closing", attempt'[s] = "done",
         UNCHANGED <<page, reader, posts>>, truth'[branch[s]] = truth[branch[s]],
         NEW e \in {"end", "broken"}, Send(s, e), breaks' # 0 \/ e = "end"
  PROVE  Stage(s)'
<1>1. /\ run' = run /\ undecided' = undecided /\ remembered' = remembered
      /\ branch' = branch /\ reader' = reader
  BY DEF page, posts
<1>2. Follows(s, k, <<>>) BY DEF Closed, Tails
<1> DEFINE m == frame(s, "meta")
           f == frame(s, k)
           x == frame(s, e)
<1>3. /\ feed'[s] = Append(feed[s], x) /\ KeptOf(s)' = KeptOf(s)
      /\ Held(s)' = Held(s)
  BY Sends
<1>4. /\ frame(s, "meta")' = m /\ frame(s, k)' = f /\ frame(s, e)' = x
      /\ (Live' <=> Live) /\ (Draft' <=> Draft) /\ (Misled(s)' <=> Misled(s))
      /\ (At(branch[s])' <=> At(branch[s])) /\ (Toward(branch[s])' <=> Toward(branch[s]))
  BY <1>1 DEF frame, Live, Draft, Misled, At, Toward
<1>5. <<x>> \in Tails(s)' BY <1>4 DEF Tails
<1>6. PICK T : T = <<x>> OBVIOUS
<1>7. Follows(s, k, T)'
  <2> HIDE DEF m, f, x
  <2>1. /\ Append(<<>>, x) = <<x>>
        /\ Append(<<f>> \o <<>>, x) = <<f>> \o <<x>>
        /\ Append(<<m, f>> \o <<>>, x) = <<m, f>> \o <<x>>
    BY Sent, Queues
  <2>2. CASE feed[s] = <<m, f>> \o <<>> /\ ((Live /\ Toward(branch[s])) \/ Misled(s))
    <3>1. feed'[s] = <<m, f>> \o <<x>> BY <1>3, <2>1, <2>2
    <3> QED BY <1>4, <1>6, <2>2, <3>1 DEF Follows
  <2>3. CASE /\ feed[s] = <<f>> \o <<>> /\ reader[s] = "reading"
             /\ (Live /\ At(branch[s])) \/ Misled(s)
    <3>1. feed'[s] = <<f>> \o <<x>> BY <1>3, <2>1, <2>3
    <3> QED BY <1>1, <1>4, <1>6, <2>3, <3>1 DEF Follows
  <2>4. CASE /\ feed[s] = <<>> /\ reader[s] = "reading"
             /\ \/ Reached(run, undecided, s, branch[s], k) /\ remembered = branch[s]
                \/ Misled(s) \/ Draft
    <3>1. feed'[s] = <<x>> BY <1>3, <2>1, <2>4
    <3> QED BY <1>1, <1>4, <1>6, <2>4, <3>1 DEF Follows
  <2> QED BY <1>2, <2>2, <2>3, <2>4 DEF Follows, m, f
<1>8. Closed(s, k)' BY <1>1, <1>3, <1>5, <1>6, <1>7 DEF Closed
<1> QED BY <1>8 DEF Stage

(* It ends the stream, or the connection breaks. *)
LEMMA EndsWhole ==
  ASSUME TypeInv, Tidy, Whole, NEW s \in Stream, Asking(s), EndStream(s) \/ Break(s)
  PROVE  Whole'
<1>1. ClientTyped /\ PostTyped /\ ServerTyped BY TypeParts
<1>2. /\ UNCHANGED <<page, reader, click, reloads, posts>>
      /\ attempt' = [attempt EXCEPT ![s] = "done"]
  BY DEF EndStream, Break
<1>3. /\ run' = run /\ undecided' = undecided /\ remembered' = remembered
      /\ branch' = branch /\ reader' = reader
  BY <1>2 DEF page, posts
<1>4. branch[s] \in Branch BY Posted DEF Whole, Asking, Rooted
<1>5. attempt'[s] = "done" /\ \A t \in Stream : t # s => attempt'[t] = attempt[t]
  BY <1>1, <1>2 DEF ServerTyped
<1>6. \A b \in Branch : truth'[b] = truth[b] \/ b = branch[s]
  BY <1>1 DEF ServerTyped, EndStream, Break
<1>7. \A b \in Branch : kept'[b] = kept[b] \/ b = root[branch[s]]
  BY <1>2, Sends DEF EndStream, Break
<1>8. Stage(s) BY DEF Whole
<1>9. breaks \in Nat BY <1>1, PageAssumption DEF ServerTyped
<1>10. CASE attempt[s] = "closing"
  <2>1. PICK k \in Closing : Closed(s, k) BY <1>8, <1>10 DEF Stage
  <2>2. truth'[branch[s]] = truth[branch[s]]
    BY <1>1, <1>4, <1>10 DEF ServerTyped, EndStream, Break
  <2>3. \E e \in {"end", "broken"} : Send(s, e) /\ (breaks' # 0 \/ e = "end")
    BY <1>9 DEF EndStream, Break
  <2>4. Stage(s)' BY <1>2, <1>5, <1>10, <2>1, <2>2, <2>3, EndsFollow
  <2> QED BY <1>2, <1>5, <1>6, <1>7, <2>2, <2>4, ServesOne
<1>11. CASE attempt[s] = "open"
  <2>1. Begun(s) /\ Break(s) BY <1>8, <1>11 DEF Stage, EndStream
  <2>2. breaks' > 0 /\ Send(s, "broken") BY <1>9, <2>1 DEF Break
  <2>3. truth'[branch[s]] = "interrupted"
    BY <1>1, <1>4, <1>11, <2>1 DEF ServerTyped, Break, Begun
  <2>4. truth[branch[s]] # "finished" BY <1>1, <2>1 DEF Begun, Fits, PostTyped
  <2> DEFINE m == frame(s, "meta")
             x == frame(s, "broken")
  <2>5. feed'[s] = Append(feed[s], x) /\ KeptOf(s)' = KeptOf(s) /\ Held(s)' = Held(s)
    BY <1>2, <2>2, Sends
  <2>6. /\ frame(s, "meta")' = m /\ frame(s, "broken")' = x /\ (Live' <=> Live)
        /\ (At(branch[s])' <=> At(branch[s])) /\ (Toward(branch[s])' <=> Toward(branch[s]))
    BY <1>3 DEF frame, Live, At, Toward
  <2>7. \/ feed'[s] = <<m, x>> /\ Toward(branch[s])
        \/ feed'[s] = <<x>> /\ reader[s] = "reading" /\ At(branch[s])
    <3> HIDE DEF m, x
    <3>1. Append(<<>>, x) = <<x>> /\ Append(<<m>>, x) = <<m, x>> BY Queues
    <3> QED BY <2>1, <2>5, <3>1 DEF Begun, m
  <2> HIDE DEF m, x
  <2>8. Broken(s)' BY <1>3, <2>1, <2>2, <2>3, <2>5, <2>6, <2>7 DEF Broken, Begun
  <2>9. Stage(s)' BY <1>5, <2>8 DEF Stage
  <2> QED BY <1>2, <1>5, <1>6, <1>7, <2>4, <2>9, ServesOne
<1>12. attempt[s] \in {"open", "closing"} BY <1>8 DEF Stage, EndStream, Break
<1> QED BY <1>10, <1>11, <1>12

LEMMA ServesWhole ==
  ASSUME TypeInv, Tidy, Whole, NEW s \in Stream, Serving(s) \/ Break(s)
  PROVE  Whole'
<1>1. CASE ~Asking(s) BY <1>1, ServesLeft
<1>2. CASE Asking(s)
  <2>1. Stage(s) BY <1>2 DEF Whole
  <2>2. ~RefuseFork(s)
    <3> SUFFICES ASSUME RefuseFork(s) PROVE FALSE
      OBVIOUS
    <3>1. Waiting(s) /\ kind[s] = "fork" BY <2>1 DEF Stage, RefuseFork
    <3> QED BY <3>1 DEF Waiting, RefuseFork
  <2>3. ~CloseAborted(s) BY <2>1 DEF Stage, CloseAborted
  <2>4. ~Cancelled(s) BY <1>2 DEF Cancelled, Asking
  <2> QED BY <1>2, <2>2, <2>3, <2>4, AnswerWhole, CloseWhole, EndsWhole DEF Serving
<1> QED BY <1>1, <1>2

----------------------------------------------------------------------------
(* The page reads a stream. *)

(* A step of the page that reads stream s. *)
LEMMA ReadsOne ==
  ASSUME TypeInv, Tidy, Whole, NEW s \in Stream, Asking(s),
         UNCHANGED <<click, breaks, posts, attempt, kept, truth>>,
         \A t \in Stream : t # s => reader'[t] = reader[t] /\ feed'[t] = feed[t],
         reader'[s] # "idle",
         run'.branchId \in {run.branchId, branch[s]},
         run'.active => run.active /\ run.branchId \in {None, run'.branchId},
         Asking(s)' => Stage(s)',
         ~Asking(s)' => attempt[s] \in {"closing", "done"} /\ Rest'
  PROVE  Whole'
<1>1. PageTyped /\ ClientTyped /\ PostTyped /\ ServerTyped BY TypeParts
<1>2. kind' = kind /\ branch' = branch /\ root' = root BY DEF posts
<1>3. \A t \in Stream : reader'[t] = "idle" <=> reader[t] = "idle"
  BY DEF Asking
<1>4. \A b : Known(b)' <=> Known(b) BY <1>2, <1>3 DEF Known, Branch
<1>5. Known(branch[s]) BY DEF Whole, Names, Asking
<1>6. Names' BY <1>2, <1>3, <1>4, <1>5 DEF Whole, Names
<1>7. Unused' BY <1>3 DEF Whole, Unused
<1>8. Left' BY DEF Whole, Left, Asking
<1>9. \A t \in Stream : Asking(t)' => t = s BY DEF Tidy, OneAsked, Asking
<1>10. Steers'
  <2> SUFFICES ASSUME NEW c \in Click, InHand(c)
               PROVE  /\ click[c].kind = "steer" /\ "steer" \in Clicks
                      /\ Known(click[c].branch)'
                      /\ run'.active => run'.branchId = click[c].branch
                      /\ click[c].state = "refused" => truth[click[c].branch] = "finished"
    BY DEF Steers, InHand
  <2>1. /\ click[c].kind = "steer" /\ "steer" \in Clicks /\ Known(click[c].branch)
        /\ run.active => run.branchId = click[c].branch
        /\ click[c].state = "refused" => truth[click[c].branch] = "finished"
    BY DEF Whole, Steers
  <2>2. click[c].branch # None BY <2>1, NoneApart DEF Known
  <2> QED BY <1>4, <2>1, <2>2
<1>11. ~StreamOpen' => Rest' BY DEF StreamOpen, Asking
<1> QED BY <1>6, <1>7, <1>8, <1>9, <1>10, <1>11 DEF Whole

(* The page opens the answer. *)
LEMMA OpensWhole ==
  ASSUME TypeInv, Tidy, Whole, NEW s \in Stream, Opens(s)
  PROVE  Whole'
<1>1. PageTyped /\ ClientTyped /\ PostTyped /\ ServerTyped BY TypeParts
<1>2. /\ Asking(s) /\ reader' = [reader EXCEPT ![s] = "reading"] /\ feed[s] # <<>>
      /\ UNCHANGED <<page, click, breaks, posts, server>>
  BY DEF Opens, Asking
<1>3. /\ run' = run /\ undecided' = undecided /\ remembered' = remembered
      /\ kind' = kind /\ branch' = branch /\ root' = root
      /\ attempt' = attempt /\ feed' = feed /\ kept' = kept /\ truth' = truth
  BY <1>2 DEF page, posts, server
<1>4. reader'[s] = "reading" /\ \A t \in Stream : t # s => reader'[t] = reader[t]
  BY <1>1, <1>2 DEF ClientTyped
<1>5. Stage(s) BY <1>2 DEF Whole
<1>6. Stage(s)' BY <1>2, <1>3, <1>4, <1>5, StageSame
<1>7. Asking(s)' BY <1>4 DEF Asking
<1> QED BY <1>2, <1>3, <1>4, <1>6, <1>7, ReadsOne

(* What the first frame of a queue is. *)
Deals(a, b, T) ==
  /\ Head(<<b>> \o T) = b /\ Tail(<<b>> \o T) = T
  /\ Head(<<a, b>> \o T) = a /\ Tail(<<a, b>> \o T) = <<b>> \o T

LEMMA Firsts ==
  ASSUME NEW a, NEW b, NEW T, T = <<>> \/ \E e : T = <<e>>
  PROVE  Deals(a, b, T)
<1>1. CASE T = <<>>
  <2>1. <<a, b>> \o <<>> = <<a, b>> /\ <<b>> \o <<>> = <<b>>
    OBVIOUS
  <2>2. Head(<<b>>) = b /\ Tail(<<b>>) = <<>> /\ Head(<<a, b>>) = a /\ Tail(<<a, b>>) = <<b>>
    OBVIOUS
  <2> QED BY <1>1, <2>1, <2>2, Zenon DEF Deals
<1>2. ASSUME NEW e, T = <<e>> PROVE Deals(a, b, T)
  <2>1. /\ <<b>> \o <<e>> = <<b, e>> /\ <<a, b>> \o <<e>> = <<a, b, e>>
    BY Queues, Zenon
  <2>2. /\ Head(<<b, e>>) = b /\ Tail(<<b, e>>) = <<e>>
        /\ Head(<<a, b, e>>) = a
    OBVIOUS
  <2>3. Tail(<<a, b, e>>) = <<b, e>> OBVIOUS
  <2> QED BY <1>2, <2>1, <2>2, <2>3, Zenon DEF Deals
<1> QED BY <1>1, <1>2

(* What the page is about to read. *)
LEMMA ReadsNext ==
  ASSUME TypeInv, Whole, NEW s \in Stream, Asking(s), feed[s] # <<>>
  PROVE  \/ /\ Begun(s) /\ attempt[s] = "open" /\ feed[s] = <<frame(s, "meta")>>
         \/ /\ Broken(s) /\ attempt[s] = "done"
            /\ feed[s] = <<frame(s, "meta"), frame(s, "broken")>>
               \/ feed[s] = <<frame(s, "broken")>>
         \/ /\ attempt[s] \in {"closing", "done"}
            /\ \E k \in Closing, T \in Tails(s) : Closed(s, k) /\ Follows(s, k, T)
<1>1. Stage(s) BY DEF Whole
<1>2. CASE attempt[s] = "idle" /\ Waiting(s) BY <1>2 DEF Waiting
<1>3. CASE attempt[s] = "open" /\ Begun(s) BY <1>3 DEF Begun
<1>4. CASE attempt[s] \in {"closing", "done"} /\ \E k \in Closing : Closed(s, k)
  BY <1>4 DEF Closed
<1>5. CASE attempt[s] = "done" /\ Broken(s) BY <1>5 DEF Broken
<1> QED BY <1>1, <1>2, <1>3, <1>4, <1>5 DEF Stage

(* A page that was misled takes nothing more from the stream. *)
LEMMA MisledStays ==
  ASSUME TypeInv, NEW s \in Stream, Misled(s)
  PROVE  failCurrent(run) = run /\ run.phase # "streaming" /\ ~undecided
         /\ (run.active => run.phase = "error" /\ At(branch[s]))
<1>1. run \in RunOf(Rooted) BY TypeParts DEF PageTyped
<1>2. CASE Draft BY <1>2 DEF Draft, createRunState, failCurrent
<1>3. CASE run.phase = "error" /\ run.active /\ ~undecided /\ At(branch[s])
  BY <1>3 DEF failCurrent
<1> QED BY <1>2, <1>3 DEF Misled

(* A view that the closing frame k ended tells what is so. *)
LEMMA ClosedOffers ==
  ASSUME NEW s, NEW b, NEW v, NEW k \in Closing, Reached(v.run, v.undecided, s, b, k),
         Happened(truth[b], k)
  PROVE  Offers(v)
BY DEF Reached, Happened, Offers, PhaseOf, Closing

(* A page that waits for nothing more of a closed stream is at rest. *)
LEMMA ClosedRests ==
  ASSUME TypeInv, Whole, NEW s \in Stream, Asking(s), NEW k \in Closing, Closed(s, k),
         \/ Misled(s) \/ Draft
         \/ Reached(run, undecided, s, branch[s], k) /\ remembered = branch[s]
  PROVE  Rest
<1>1. CASE Draft BY <1>1 DEF Rest
<1>2. CASE ~Draft
  <2> DEFINE b == branch[s]
             v == Held(s)
  <2>1. b \in Branch BY Posted DEF Whole, Asking, Rooted
  <2>2. /\ KeptOf(s) # <<>> /\ ~v.threw /\ Reached(v.run, v.undecided, s, b, k)
        /\ Happened(truth[b], k)
    BY DEF Closed
  <2>3. v = Played(kept[root[b]]) /\ KeptOf(s) = kept[root[b]] BY DEF Held, KeptOf
  <2> HIDE DEF b, v
  <2>4. Offers(v) BY <2>2, ClosedOffers
  <2>5. v.run.active /\ v.run.branchId = b BY <2>2 DEF Reached
  <2>6. CASE Misled(s)
    <3>1. run.phase = "error" /\ run.active /\ ~undecided /\ At(b) /\ Clicks # {}
      BY <1>2, <2>6 DEF Misled, b
    <3>2. Shown(b) BY <2>1, <2>2, <2>3, <2>4, <2>5, <3>1 DEF Shown
    <3> QED BY <2>1, <3>2 DEF Rest
  <2>7. CASE Reached(run, undecided, s, b, k) /\ remembered = b
    <3>1. Agree(v) BY <2>2, <2>7 DEF Reached, Agree, PhaseOf, Closing
    <3>2. run.active /\ At(b) BY <2>7 DEF Reached, At
    <3>3. Shown(b) BY <2>1, <2>2, <2>3, <2>4, <2>5, <3>1, <3>2 DEF Shown
    <3> QED BY <2>1, <3>3 DEF Rest
  <2> QED BY <1>2, <2>6, <2>7 DEF b
<1> QED BY <1>1, <1>2

(* A page at rest stays so, when nothing it rests on changes. *)
LEMMA RestSame ==
  ASSUME UNCHANGED <<run, undecided, remembered, kept, root, truth, breaks>>, Rest
  PROVE  Rest'
<1>1. Draft => Draft' BY DEF Draft
<1>2. ASSUME NEW b \in Branch, Shown(b) PROVE Shown(b)'
  <2> DEFINE v == Played(kept[root[b]])
  <2>1. v' = v OBVIOUS
  <2>2. /\ run.active /\ At(b) /\ kept[root[b]] # <<>> /\ ~v.threw /\ v.run.active
        /\ v.run.branchId = b /\ Offers(v)
        /\ run.phase # "error" \/ undecided \/ (breaks = 0 /\ Clicks = {}) => Agree(v)
    BY <1>2 DEF Shown
  <2> HIDE DEF v
  <2>3. At(b)' /\ Offers(v)' /\ (Agree(v)' <=> Agree(v))
    BY <2>1, <2>2 DEF At, Offers, Agree
  <2> QED BY <2>1, <2>2, <2>3 DEF Shown, v
<1> QED BY <1>1, <1>2 DEF Rest

(* Reading does not touch the server, nor what the kept frames show. *)
LEMMA ReadSame ==
  ASSUME TypeInv, NEW s \in Stream, ReadFrame(s) \/ ReadEnd(s)
  PROVE  /\ Asking(s) /\ reader[s] = "reading" /\ feed[s] # <<>>
         /\ UNCHANGED <<click, reloads, breaks, posts, attempt, kept, truth>>
         /\ feed'[s] = Tail(feed[s])
         /\ \A t \in Stream : t # s => reader'[t] = reader[t] /\ feed'[t] = feed[t]
         /\ kind' = kind /\ branch' = branch /\ root' = root
         /\ KeptOf(s)' = KeptOf(s) /\ Held(s)' = Held(s) /\ (Fits(s)' <=> Fits(s))
         /\ \A k : frame(s, k)' = frame(s, k)
         /\ Tails(s)' = Tails(s)
<1>1. ClientTyped /\ ServerTyped BY TypeParts
<1>2. /\ reader[s] = "reading" /\ feed[s] # <<>>
      /\ feed' = [feed EXCEPT ![s] = Tail(feed[s])]
      /\ UNCHANGED <<click, reloads, breaks, posts, attempt, kept, truth>>
      /\ \E x : reader' = [reader EXCEPT ![s] = x]
  BY DEF ReadFrame, ReadEnd, Reads
<1>3. kind' = kind /\ branch' = branch /\ root' = root BY <1>2 DEF posts
<1>4. /\ feed'[s] = Tail(feed[s])
      /\ \A t \in Stream : t # s => reader'[t] = reader[t] /\ feed'[t] = feed[t]
  BY <1>1, <1>2 DEF ClientTyped, ServerTyped
<1>5. /\ KeptOf(s)' = KeptOf(s) /\ Held(s)' = Held(s) /\ (Fits(s)' <=> Fits(s))
      /\ \A k : frame(s, k)' = frame(s, k)
  BY <1>2, <1>3 DEF KeptOf, Held, Fits, frame
<1>6. Tails(s)' = Tails(s) BY <1>2, <1>5 DEF Tails
<1> QED BY <1>2, <1>3, <1>4, <1>5, <1>6 DEF Asking

(* A meta frame that is awaited attaches the run to its branch. *)
LEMMA Attaches ==
  ASSUME TypeInv, NEW s \in Stream, ReadFrame(s), Live,
         Head(feed[s]) = frame(s, "meta")
  PROVE  /\ Live' /\ At(branch[s])' /\ reader'[s] = "reading"
         /\ run'.active /\ run'.branchId = branch[s]
<1>1. PageTyped /\ ClientTyped BY TypeParts
<1>2. run \in RunOf(Rooted) BY <1>1 DEF PageTyped
<1>3. branch' = branch BY ReadSame
<1> DEFINE f == Head(feed[s])
           v == handleFrame(View(run, undecided), f)
<1>4. f.kind = "meta" /\ f.branch = branch[s] BY DEF frame
<1> HIDE DEF f
<1>5. v = [View(run, undecided) EXCEPT !.run = attachBranchId(run, branch[s])]
  BY <1>4 DEF handleFrame, Apply, View, canAttach, Live
<1>6. /\ v.run = attachBranchId(run, branch[s]) /\ v.undecided = undecided /\ ~v.threw
  BY <1>5 DEF View
<1> HIDE DEF v
<1>7. /\ run' = attachBranchId(run, branch[s]) /\ undecided' = undecided
      /\ remembered' = branch[s] /\ reader'[s] = "reading"
  BY <1>1, <1>4, <1>6 DEF ReadFrame, ClientTyped, f, v
<1> QED BY <1>2, <1>3, <1>7 DEF Live, At, attachBranchId, RunOf

(* One that is not awaited stops the page from reading on. *)
LEMMA Stops ==
  ASSUME TypeInv, NEW s \in Stream, ReadFrame(s), Misled(s),
         NEW k \in {"meta"} \cup Closing, Head(feed[s]) = frame(s, k),
         k \notin {"outcome", "failed", "indeterminate"} \/ ~run.active, k # "indeterminate"
  PROVE  /\ run' = run /\ undecided' = undecided /\ remembered' = remembered
         /\ reader'[s] = "unread"
<1>1. PageTyped /\ ClientTyped BY TypeParts
<1>2. failCurrent(run) = run /\ run.phase # "streaming" /\ (run.active => run.phase = "error")
  BY MisledStays
<1>3. ~run.active => run.phase = "idle" BY DEF Misled, Draft, createRunState
<1> DEFINE f == Head(feed[s])
           v == handleFrame(View(run, undecided), f)
<1>4. f.kind = k BY DEF frame
<1>5. ~canAttach(run) /\ ~canPark(run) BY <1>2, <1>3 DEF canAttach, canPark, PARKABLE
<1> HIDE DEF f
<1>6. v = [View(run, undecided) EXCEPT !.threw = TRUE]
  BY <1>4, <1>5 DEF handleFrame, Apply, View, Closing
<1>7. v.threw /\ v.undecided = undecided BY <1>6 DEF View
<1> HIDE DEF v
<1> QED BY <1>1, <1>2, <1>7 DEF ReadFrame, ClientTyped, f, v

(* Where the page is with a closed stream of which it has not read all. *)
LEMMA FollowCases ==
  ASSUME NEW s \in Stream, NEW k \in Closing, NEW T \in Tails(s), Follows(s, k, T),
         feed[s] # <<>>
  PROVE  \/ /\ Head(feed[s]) = frame(s, "meta") /\ Tail(feed[s]) = <<frame(s, k)>> \o T
            /\ (Live /\ Toward(branch[s])) \/ Misled(s)
         \/ /\ Head(feed[s]) = frame(s, k) /\ Tail(feed[s]) = T /\ reader[s] = "reading"
            /\ (Live /\ At(branch[s])) \/ Misled(s)
         \/ /\ \E e \in {"end", "broken"} : /\ Head(feed[s]) = frame(s, e)
                                            /\ e = "broken" => breaks # 0
            /\ reader[s] = "reading" /\ attempt[s] # "closing"
            /\ \/ Reached(run, undecided, s, branch[s], k) /\ remembered = branch[s]
               \/ Misled(s) \/ Draft
<1>1. \/ T = <<>>
      \/ attempt[s] # "closing" /\ \E e \in {"end", "broken"} : /\ T = <<frame(s, e)>>
                                                                /\ e = "broken" => breaks # 0
  BY DEF Tails
<1>2. T = <<>> \/ \E e : T = <<e>> BY <1>1
<1> DEFINE m == frame(s, "meta")
           f == frame(s, k)
<1>3. Follows(s, k, T) <=>
        \/ /\ feed[s] = <<m, f>> \o T
           /\ (Live /\ Toward(branch[s])) \/ Misled(s)
        \/ /\ feed[s] = <<f>> \o T /\ reader[s] = "reading"
           /\ (Live /\ At(branch[s])) \/ Misled(s)
        \/ /\ feed[s] = T /\ reader[s] = "reading"
           /\ \/ Reached(run, undecided, s, branch[s], k) /\ remembered = branch[s]
              \/ Misled(s) \/ Draft
  BY DEF Follows
<1>4. /\ Head(<<m, f>> \o T) = m /\ Tail(<<m, f>> \o T) = <<f>> \o T
      /\ Head(<<f>> \o T) = f /\ Tail(<<f>> \o T) = T
  <2> HIDE DEF m, f
  <2>1. Deals(m, f, T) BY <1>2, Firsts
  <2> QED BY <2>1 DEF Deals
<1> HIDE DEF m, f
<1>5. CASE feed[s] = T
  <2>1. PICK e \in {"end", "broken"} : T = <<frame(s, e)>> /\ (e = "broken" => breaks # 0)
    BY <1>1, <1>5
  <2>2. Head(<<frame(s, e)>>) = frame(s, e) OBVIOUS
  <2>3. attempt[s] # "closing" BY <1>1, <1>5
  <2>4. feed[s] # <<m, f>> \o T /\ feed[s] # <<f>> \o T
    <3>1. frame(s, e) # m /\ frame(s, e) # f BY DEF m, f, frame, Closing
    <3> QED BY <1>4, <1>5, <2>1, <2>2, <3>1
  <2> QED BY <1>3, <1>5, <2>1, <2>2, <2>3, <2>4
<1>6. CASE feed[s] = <<m, f>> \o T /\ feed[s] # T
  <2>1. m # f BY DEF m, f, frame, Closing
  <2> QED BY <1>3, <1>4, <1>6, <2>1 DEF m, f
<1>7. CASE feed[s] = <<f>> \o T /\ feed[s] # T
  <2>1. m # f BY DEF m, f, frame, Closing
  <2> QED BY <1>3, <1>4, <1>7, <2>1 DEF m, f
<1> QED BY <1>3, <1>5, <1>6, <1>7

(* The page reads a meta frame. *)
LEMMA MetaWhole ==
  ASSUME TypeInv, Tidy, Whole, NEW s \in Stream, ReadFrame(s),
         Head(feed[s]) = frame(s, "meta")
  PROVE  Whole'
<1> DEFINE m == frame(s, "meta")
<1>1. ClientTyped BY TypeParts
<1>2. /\ Asking(s) /\ reader[s] = "reading" /\ feed[s] # <<>>
      /\ UNCHANGED <<click, reloads, breaks, posts, attempt, kept, truth>>
      /\ feed'[s] = Tail(feed[s])
      /\ \A t \in Stream : t # s => reader'[t] = reader[t] /\ feed'[t] = feed[t]
      /\ kind' = kind /\ branch' = branch /\ root' = root
      /\ KeptOf(s)' = KeptOf(s) /\ Held(s)' = Held(s) /\ (Fits(s)' <=> Fits(s))
      /\ \A k : frame(s, k)' = frame(s, k)
      /\ Tails(s)' = Tails(s)
  BY ReadSame
<1>3. ASSUME Live, Toward(branch[s]),
             Live' /\ At(branch[s])' /\ reader'[s] = "reading" => Stage(s)'
      PROVE  Whole'
  <2>1. /\ Live' /\ At(branch[s])' /\ reader'[s] = "reading"
        /\ run'.active /\ run'.branchId = branch[s]
    BY <1>3, Attaches
  <2>2. run.active /\ run.branchId \in {None, run'.branchId}
    BY <1>3, <2>1 DEF Live, Toward, At
  <2>3. Asking(s)' /\ reader'[s] # "idle" BY <2>1 DEF Asking
  <2> QED BY <1>2, <1>3, <2>1, <2>2, <2>3, ReadsOne
<1>4. CASE Begun(s) /\ attempt[s] = "open" /\ feed[s] = <<m>>
  <2>1. Live /\ Toward(branch[s]) BY <1>4 DEF Begun
  <2>2. feed'[s] = <<>> BY <1>2, <1>4
  <2>3. ASSUME Live', At(branch[s])', reader'[s] = "reading" PROVE Stage(s)'
    <3>1. Begun(s)' BY <1>2, <1>4, <2>2, <2>3 DEF Begun
    <3> QED BY <1>2, <1>4, <3>1 DEF Stage
  <2> QED BY <1>3, <2>1, <2>3
<1>5. CASE /\ Broken(s) /\ attempt[s] = "done"
           /\ \/ feed[s] = <<m, frame(s, "broken")>>
              \/ feed[s] = <<frame(s, "broken")>>
  <2> DEFINE x == frame(s, "broken")
  <2>1. m # x BY DEF frame
  <2>2. feed[s] = <<m, x>> /\ feed[s] # <<x>> /\ Tail(feed[s]) = <<x>>
    <3> HIDE DEF m, x
    <3>1. /\ Head(<<m, x>>) = m /\ Tail(<<m, x>>) = <<x>> /\ Head(<<x>>) = x
      OBVIOUS
    <3>2. Head(feed[s]) = m BY DEF m
    <3>3. feed[s] = <<m, x>> \/ feed[s] = <<x>> BY <1>5 DEF x
    <3> QED BY <2>1, <3>1, <3>2, <3>3
  <2> HIDE DEF m
  <2>3. Live /\ Toward(branch[s]) BY <1>5, <2>2 DEF Broken
  <2>4. ASSUME Live', At(branch[s])', reader'[s] = "reading" PROVE Stage(s)'
    <3>1. feed'[s] = <<frame(s, "broken")>> BY <1>2, <2>2
    <3>2. Broken(s)' BY <1>2, <1>5, <2>4, <3>1 DEF Broken
    <3> QED BY <1>2, <1>5, <3>2 DEF Stage
  <2> QED BY <1>3, <2>3, <2>4
<1>6. ASSUME NEW k \in Closing, NEW T \in Tails(s), Closed(s, k), Follows(s, k, T),
             attempt[s] \in {"closing", "done"}
      PROVE  Whole'
  <2>1. /\ Tail(feed[s]) = <<frame(s, k)>> \o T
        /\ (Live /\ Toward(branch[s])) \/ Misled(s)
    <3>1. m # frame(s, k) /\ \A e \in {"end", "broken"} : m # frame(s, e)
      BY DEF frame, Closing
    <3>2. Head(feed[s]) = m OBVIOUS
    <3> HIDE DEF m
    <3> QED BY <1>2, <1>6, <3>1, <3>2, FollowCases
  <2>2. CASE Live /\ Toward(branch[s])
    <3>1. ASSUME Live', At(branch[s])', reader'[s] = "reading" PROVE Stage(s)'
      <4>1. Follows(s, k, T)' BY <1>2, <2>1, <3>1 DEF Follows
      <4>2. Closed(s, k)' BY <1>2, <1>6, <4>1 DEF Closed
      <4> QED BY <1>2, <1>6, <4>2 DEF Stage
    <3> QED BY <1>3, <2>2, <3>1
  <2>3. CASE Misled(s)
    <3>1. /\ run' = run /\ undecided' = undecided /\ remembered' = remembered
          /\ reader'[s] = "unread"
      BY <2>3, Stops
    <3>2. Rest' BY <1>2, <1>6, <2>3, <3>1, ClosedRests, RestSame
    <3>3. ~Asking(s)' /\ reader'[s] # "idle" BY <3>1 DEF Asking
    <3> QED BY <1>2, <1>6, <3>1, <3>2, <3>3, ReadsOne
  <2> QED BY <2>1, <2>2, <2>3
<1> QED BY <1>2, <1>4, <1>5, <1>6, ReadsNext

(* A closing frame that is awaited ends the run. *)
LEMMA Ends ==
  ASSUME TypeInv, NEW s \in Stream, ReadFrame(s), NEW k \in Closing,
         Head(feed[s]) = frame(s, k), Live, At(branch[s])
  PROVE  /\ Reached(run', undecided', s, branch[s], k) /\ remembered' = branch[s]
         /\ reader'[s] = "reading"
<1>1. PageTyped /\ ClientTyped /\ ServerTyped BY TypeParts
<1> DEFINE f == Head(feed[s])
           u == View(run, undecided)
           v == handleFrame(u, f)
           b == branch[s]
<1>2. u \in ViewOf(Rooted) /\ u.run = run /\ u.undecided = undecided /\ ~u.threw
  BY <1>1 DEF PageTyped, View, ViewOf
<1>3. f.kind = k /\ f.id = s /\ k # "meta" BY DEF frame, Closing
<1>4. f \in KeepOf(Rooted)
  <2>1. feed[s] \in Seq(FrameOf(Rooted)) /\ feed[s] # <<>>
    BY <1>1 DEF ServerTyped, ReadFrame, Reads
  <2>2. f \in FrameOf(Rooted) BY <2>1
  <2> QED BY <1>3, <2>2 DEF FrameOf, KeepOf
<1>5. /\ run' = IF v.threw THEN failCurrent(run) ELSE v.run
      /\ undecided' = v.undecided
      /\ remembered' = IF f.kind = "meta" /\ ~v.threw THEN f.branch ELSE remembered
      /\ reader'[s] = IF v.threw THEN "unread" ELSE "reading"
  BY <1>1 DEF ReadFrame, ClientTyped
<1>6. /\ u.run.active /\ ~u.undecided /\ u.run.phase = "streaming" /\ u.run.branchId = b
      /\ remembered = b
  BY <1>2 DEF Live, At
<1> HIDE DEF f, u, b
<1>7. ~v.threw /\ Reached(v.run, v.undecided, f.id, b, f.kind)
  BY <1>2, <1>3, <1>4, <1>6, ClosingReaches
<1> HIDE DEF v
<1> QED BY <1>3, <1>5, <1>6, <1>7 DEF b

(* A run that was called failed too early is ended by what comes. *)
LEMMA EndsMisled ==
  ASSUME TypeInv, NEW s \in Stream, ReadFrame(s), NEW k \in {"outcome", "failed"},
         Head(feed[s]) = frame(s, k), Misled(s), run.active
  PROVE  /\ Reached(run', undecided', s, branch[s], k) /\ remembered' = branch[s]
         /\ reader'[s] = "reading"
<1>1. PageTyped /\ ClientTyped BY TypeParts
<1>2. run \in RunOf(Rooted) BY <1>1 DEF PageTyped
<1>3. undecided = FALSE /\ At(branch[s]) BY <1>1, MisledStays DEF PageTyped
<1> DEFINE f == Head(feed[s])
           u == View(run, undecided)
           v == handleFrame(u, f)
           r == IF k = "outcome" THEN finishRun(run) ELSE failRun(run)
<1>4. f.kind = k BY DEF frame
<1> HIDE DEF f
<1>5. v = [u EXCEPT !.run = r] BY <1>4 DEF handleFrame, Apply, View
<1>6. v.run = r /\ v.undecided = undecided /\ ~v.threw BY <1>5 DEF View
<1>7. r.active /\ r.branchId = branch[s] /\ r.phase = PhaseOf(k)
  BY <1>2, <1>3 DEF finishRun, failRun, RunOf, PhaseOf, At
<1> HIDE DEF v, r
<1>8. run' = r /\ undecided' = undecided /\ remembered' = remembered /\ reader'[s] = "reading"
  <2>1. /\ run' = IF v.threw THEN failCurrent(run) ELSE v.run
        /\ undecided' = v.undecided
        /\ remembered' = IF f.kind = "meta" /\ ~v.threw THEN f.branch ELSE remembered
        /\ reader'[s] = IF v.threw THEN "unread" ELSE "reading"
    BY <1>1 DEF ReadFrame, ClientTyped, f, u, v
  <2> QED BY <1>4, <1>6, <2>1
<1> QED BY <1>3, <1>7, <1>8 DEF Reached, At

(* The page reads a closing frame. *)
LEMMA ClosingWhole ==
  ASSUME TypeInv, Tidy, Whole, NEW s \in Stream, ReadFrame(s),
         NEW k \in Closing, NEW T \in Tails(s), Closed(s, k), Follows(s, k, T),
         attempt[s] \in {"closing", "done"}, Head(feed[s]) # frame(s, "meta")
  PROVE  Whole'
<1>1. ClientTyped BY TypeParts
<1>2. /\ Asking(s) /\ reader[s] = "reading" /\ feed[s] # <<>>
      /\ UNCHANGED <<click, reloads, breaks, posts, attempt, kept, truth>>
      /\ feed'[s] = Tail(feed[s])
      /\ \A t \in Stream : t # s => reader'[t] = reader[t] /\ feed'[t] = feed[t]
      /\ kind' = kind /\ branch' = branch /\ root' = root
      /\ KeptOf(s)' = KeptOf(s) /\ Held(s)' = Held(s) /\ (Fits(s)' <=> Fits(s))
      /\ \A j : frame(s, j)' = frame(s, j)
      /\ Tails(s)' = Tails(s)
  BY ReadSame
<1>3. /\ Head(feed[s]) = frame(s, k) /\ Tail(feed[s]) = T
      /\ (Live /\ At(branch[s])) \/ Misled(s)
  <2>1. \A e \in {"end", "broken"} : Head(feed[s]) # frame(s, e)
    BY DEF ReadFrame, Reads, frame, Closing
  <2> QED BY <1>2, <2>1, FollowCases
<1>4. ASSUME Reached(run', undecided', s, branch[s], k), remembered' = branch[s],
             reader'[s] = "reading", run.active, At(branch[s])
      PROVE  Whole'
  <2>1. Follows(s, k, T)' BY <1>2, <1>3, <1>4 DEF Follows
  <2>2. Closed(s, k)' BY <1>2, <2>1 DEF Closed
  <2>3. Stage(s)' BY <1>2, <2>2 DEF Stage
  <2>4. Asking(s)' /\ reader'[s] # "idle" BY <1>4 DEF Asking
  <2>5. run'.branchId = branch[s] /\ run.branchId = branch[s] BY <1>4 DEF Reached, At
  <2> QED BY <1>2, <1>4, <2>3, <2>4, <2>5, ReadsOne
<1>5. CASE Live /\ At(branch[s])
  <2>1. /\ Reached(run', undecided', s, branch[s], k) /\ remembered' = branch[s]
        /\ reader'[s] = "reading"
    BY <1>3, <1>5, Ends
  <2> QED BY <1>4, <1>5, <2>1 DEF Live
<1>6. CASE Misled(s)
  <2>1. k \in {"outcome", "failed"}
    BY <1>6 DEF Misled, Closed, Happened, Closing
  <2>2. CASE run.active
    <3>1. /\ Reached(run', undecided', s, branch[s], k) /\ remembered' = branch[s]
          /\ reader'[s] = "reading"
      BY <1>3, <1>6, <2>1, <2>2, EndsMisled
    <3>2. At(branch[s]) BY <1>6, <2>2, MisledStays
    <3> QED BY <1>4, <2>2, <3>1, <3>2
  <2>3. CASE ~run.active
    <3>1. /\ run' = run /\ undecided' = undecided /\ remembered' = remembered
          /\ reader'[s] = "unread"
      BY <1>3, <1>6, <2>1, <2>3, Stops
    <3>2. Rest' BY <1>2, <1>6, <3>1, ClosedRests, RestSame
    <3>3. ~Asking(s)' /\ reader'[s] # "idle" BY <3>1 DEF Asking
    <3> QED BY <1>2, <2>3, <3>1, <3>2, <3>3, ReadsOne
  <2> QED BY <2>2, <2>3
<1> QED BY <1>3, <1>5, <1>6

(* A page that calls a run failed is at rest with what the kept frames tell. *)
LEMMA FailedRests ==
  ASSUME TypeInv, NEW s \in Stream, NEW b \in Branch, b = branch[s],
         UNCHANGED <<kept, root, branch, truth, breaks>>, breaks > 0,
         KeptOf(s) # <<>>, ~Held(s).threw, Held(s).run.active,
         Held(s).run.branchId = b, Offers(Held(s)),
         run'.phase = "error", run'.active, ~undecided', run'.branchId = b, remembered' = b
  PROVE  Rest'
<1> DEFINE v == Held(s)
<1>1. breaks' # 0
  <2>1. breaks \in Nat BY TypeParts, PageAssumption DEF ServerTyped
  <2> QED BY <2>1
<1>2. v = Played(kept[root[b]]) /\ KeptOf(s) = kept[root[b]] BY DEF Held, KeptOf
<1>3. v' = v BY DEF Held, KeptOf
<1>4. Offers(v)' BY <1>3 DEF Offers
<1>5. At(b)' BY DEF At
<1> HIDE DEF v
<1>6. Shown(b)' BY <1>1, <1>2, <1>3, <1>4, <1>5 DEF Shown, v
<1> QED BY <1>6 DEF Rest

(* The page reads the end of a stream. *)
LEMMA EndWhole ==
  ASSUME TypeInv, Tidy, Whole, NEW s \in Stream, ReadEnd(s)
  PROVE  Whole'
<1>1. PageTyped /\ ClientTyped /\ ServerTyped BY TypeParts
<1>2. /\ Asking(s) /\ reader[s] = "reading" /\ feed[s] # <<>>
      /\ UNCHANGED <<click, reloads, breaks, posts, attempt, kept, truth>>
      /\ feed'[s] = Tail(feed[s])
      /\ \A t \in Stream : t # s => reader'[t] = reader[t] /\ feed'[t] = feed[t]
      /\ kind' = kind /\ branch' = branch /\ root' = root
  BY ReadSame
<1>3. run \in RunOf(Rooted) /\ breaks \in Nat /\ undecided \in BOOLEAN
  BY <1>1, PageAssumption DEF PageTyped, ServerTyped
<1>4. /\ Head(feed[s]).kind \in {"end", "broken"} /\ reader'[s] = "ended"
      /\ undecided' = undecided /\ remembered' = remembered
      /\ run' = IF Head(feed[s]).kind = "end" /\ acceptsStreamEnd(run) THEN run
                ELSE failCurrent(run)
  BY <1>1 DEF ReadEnd, Reads, ClientTyped
<1>5. \A j \in {"meta"} \cup Closing : Head(feed[s]) # frame(s, j)
  BY <1>4 DEF frame, Closing
<1>6. run'.branchId = run.branchId /\ run'.active = run.active
  BY <1>3, <1>4 DEF failCurrent, failRun, RunOf
<1>7. ASSUME attempt[s] = "done", Rest' PROVE Whole'
  <2>1. ~Asking(s)' /\ reader'[s] # "idle" BY <1>4 DEF Asking
  <2> QED BY <1>2, <1>6, <1>7, <2>1, ReadsOne
<1>8. branch[s] \in Branch BY <1>2, Posted DEF Whole, Asking, Rooted
<1>9. ASSUME breaks > 0, KeptOf(s) # <<>>, ~Held(s).threw, Held(s).run.active,
             Held(s).run.branchId = branch[s], Offers(Held(s)), run.active, ~undecided,
             At(branch[s]), run' = failCurrent(run)
      PROVE  Rest'
  <2>1. run'.phase = "error" /\ run'.active /\ run'.branchId = branch[s]
    BY <1>3, <1>9 DEF failCurrent, failRun, RunOf, At
  <2>2. ~undecided' /\ remembered' = branch[s] BY <1>4, <1>9 DEF At
  <2> QED BY <1>2, <1>8, <1>9, <2>1, <2>2, FailedRests
<1>10. CASE Begun(s) /\ feed[s] = <<frame(s, "meta")>>
  <2>1. Head(feed[s]) = frame(s, "meta") BY <1>10
  <2> QED BY <1>5, <2>1
<1>11. CASE /\ Broken(s) /\ attempt[s] = "done"
            /\ \/ feed[s] = <<frame(s, "meta"), frame(s, "broken")>>
               \/ feed[s] = <<frame(s, "broken")>>
  <2>1. feed[s] # <<frame(s, "meta"), frame(s, "broken")>>
    <3>1. ASSUME NEW m, NEW x, feed[s] = <<m, x>> PROVE Head(feed[s]) = m
      BY <3>1
    <3> QED BY <1>5, <3>1
  <2>2. feed[s] = <<frame(s, "broken")>> BY <1>11, <2>1
  <2>3. Head(feed[s]).kind = "broken" BY <2>2 DEF frame
  <2>4. breaks > 0 /\ Live /\ KeptOf(s) # <<>> /\ Streaming(Held(s), branch[s])
    BY <1>11 DEF Broken
  <2>5. At(branch[s])
    <3>1. ASSUME NEW m, NEW x, NEW y PROVE <<m, x>> # <<y>> OBVIOUS
    <3> QED BY <1>11, <2>1 DEF Broken
  <2>6. Offers(Held(s)) BY <2>4 DEF Streaming, Offers
  <2> QED BY <1>4, <1>7, <1>9, <1>11, <2>3, <2>4, <2>5, <2>6 DEF Live, Streaming
<1>12. ASSUME NEW k \in Closing, NEW T \in Tails(s), Closed(s, k), Follows(s, k, T),
              attempt[s] \in {"closing", "done"}
       PROVE  Whole'
  <2>1. PICK e \in {"end", "broken"} : /\ Head(feed[s]) = frame(s, e)
                                       /\ e = "broken" => breaks # 0
    BY <1>2, <1>5, <1>12, FollowCases
  <2>2. /\ attempt[s] = "done"
        /\ \/ Reached(run, undecided, s, branch[s], k) /\ remembered = branch[s]
           \/ Misled(s) \/ Draft
    BY <1>2, <1>5, <1>12, FollowCases
  <2>3. Rest BY <1>2, <1>12, <2>2, ClosedRests
  <2>4. ASSUME run' = run PROVE Whole'
    BY <1>2, <1>4, <1>7, <2>2, <2>3, <2>4, RestSame
  <2>5. CASE Misled(s) \/ Draft
    <3>1. failCurrent(run) = run
      BY <2>5, MisledStays DEF Draft, createRunState, failCurrent
    <3> QED BY <1>4, <2>4, <3>1
  <2>6. CASE Reached(run, undecided, s, branch[s], k) /\ remembered = branch[s]
    <3>1. acceptsStreamEnd(run)
      BY <2>6 DEF Reached, PhaseOf, Closing, acceptsStreamEnd, ENDABLE
    <3>2. CASE Head(feed[s]).kind = "end" \/ run.phase = "error"
      <4>1. run' = run BY <1>4, <3>1, <3>2 DEF failCurrent
      <4> QED BY <2>4, <4>1
    <3>3. CASE Head(feed[s]).kind # "end" /\ run.phase # "error"
      <4>1. e = "broken" BY <2>1, <3>3 DEF frame
      <4>2. breaks > 0 BY <1>3, <2>1, <4>1
      <4>3. ~undecided BY <2>6, <3>3 DEF Reached, PhaseOf
      <4>4. run.active /\ At(branch[s]) BY <2>6 DEF Reached, At
      <4>5. /\ KeptOf(s) # <<>> /\ ~Held(s).threw
            /\ Reached(Held(s).run, Held(s).undecided, s, branch[s], k)
            /\ Happened(truth[branch[s]], k)
        BY <1>12 DEF Closed
      <4> DEFINE v == Held(s)
      <4> HIDE DEF v
      <4>6. Reached(v.run, v.undecided, s, branch[s], k) BY <4>5 DEF v
      <4>7. Offers(v) BY <4>5, <4>6, ClosedOffers
      <4>8. v.run.active /\ v.run.branchId = branch[s] BY <4>6 DEF Reached
      <4>9. run' = failCurrent(run) BY <1>4, <3>3
      <4>10. Rest' BY <1>9, <4>2, <4>3, <4>4, <4>5, <4>7, <4>8, <4>9 DEF v
      <4> QED BY <1>7, <2>2, <4>10
    <3> QED BY <3>2, <3>3
  <2> QED BY <2>2, <2>5, <2>6
<1> QED BY <1>2, <1>10, <1>11, <1>12, ReadsNext

LEMMA ReadsWhole ==
  ASSUME TypeInv, Tidy, Whole, NEW s \in Stream, Reading(s)
  PROVE  Whole'
<1>1. CASE Refused(s)
  <2>1. Stage(s) BY <1>1 DEF Refused, Asking, Whole
  <2> QED BY <1>1, <2>1 DEF Refused, Stage
<1>2. CASE Opens(s) BY <1>2, OpensWhole
<1>3. CASE ReadFrame(s)
  <2>1. /\ Asking(s) /\ feed[s] # <<>> /\ Head(feed[s]).kind \in {"meta"} \cup Closing
    BY <1>3 DEF ReadFrame, Reads, Asking
  <2>2. CASE Head(feed[s]) = frame(s, "meta") BY <1>3, <2>2, MetaWhole
  <2>3. CASE Head(feed[s]) # frame(s, "meta")
    <3>1. ~(\E k \in {"end", "broken"} : Head(feed[s]) = frame(s, k))
      BY <2>1 DEF frame, Closing
    <3>2. \A m : Head(<<m>>) = m OBVIOUS
    <3>3. \A m, x : Head(<<m, x>>) = m OBVIOUS
    <3>4. feed[s] # <<frame(s, "meta")>> BY <2>3, <3>2
    <3>5. feed[s] # <<frame(s, "meta"), frame(s, "broken")>> BY <2>3, <3>3
    <3>6. feed[s] # <<frame(s, "broken")>> BY <3>1, <3>2
    <3> QED BY <1>3, <2>1, <2>3, <3>4, <3>5, <3>6, ReadsNext, ClosingWhole
  <2> QED BY <2>2, <2>3
<1>4. CASE ReadEnd(s) BY <1>4, EndWhole
<1> QED BY <1>1, <1>2, <1>3, <1>4 DEF Reading

----------------------------------------------------------------------------
(* The page at rest asks for a stream. *)

(* A stream is posted for a branch of its own, or for one that is known. *)
Places(s, b, o) ==
  \/ b = s /\ (o = s \/ Known(o))
  \/ Known(b) /\ o = root[b]

(* A page at rest asks for a stream. *)
LEMMA PostsOne ==
  ASSUME TypeInv, Tidy, Whole, ~InFlight, NEW s \in Stream, NEW k, NEW b \in Branch,
         NEW o, Post(s, k, b, o), click' = click,
         Places(s, b, o),
         run'.branchId = run.branchId \/ run'.branchId = None,
         Waiting(s)'
  PROVE  Whole'
<1>1. ClientTyped /\ PostTyped /\ ServerTyped BY TypeParts
<1>2. /\ reader[s] = "idle" /\ reader' = [reader EXCEPT ![s] = "posted"]
      /\ branch' = [branch EXCEPT ![s] = b] /\ root' = [root EXCEPT ![b] = o]
      /\ attempt' = attempt /\ kept' = kept /\ truth' = truth
  BY DEF Post, server
<1>3. /\ branch'[s] = b /\ root'[b] = o /\ reader'[s] = "posted" /\ attempt'[s] = "idle"
      /\ \A t \in Stream : t # s => branch'[t] = branch[t] /\ reader'[t] = reader[t]
      /\ \A a \in Branch : a # b => root'[a] = root[a]
  BY <1>1, <1>2 DEF ClientTyped, PostTyped, ServerTyped
<1>4. ~StreamOpen /\ \A c \in Click : ~InHand(c) BY DEF InFlight, InHand
<1>5. \A t \in Stream : t # s => ~Asking(t)' BY <1>3, <1>4 DEF StreamOpen, Asking
<1>6. StreamOpen' BY <1>3 DEF StreamOpen
<1>7. Stage(s)' BY <1>3 DEF Stage
<1> DEFINE K(a) == a \in Branch /\ reader'[a] # "idle" /\ branch'[a] = a
<1>8. ASSUME NEW a, Known(a) PROVE K(a)
  BY <1>2, <1>3, <1>8 DEF Known, Branch
<1>9. K(b) /\ K(o)
  <2>1. K(b)
    <3>1. CASE b = s BY <1>3, <3>1 DEF Branch
    <3>2. CASE Known(b) BY <1>8, <3>2
    <3> QED BY <3>1, <3>2 DEF Places
  <2>2. Known(b) => Known(root[b]) BY DEF Whole, Names, Known
  <2> HIDE DEF K
  <2> QED BY <1>8, <2>1, <2>2 DEF Places
<1>10. ASSUME NEW a \in Branch, K(a) PROVE K(root'[a])
  <2> HIDE DEF K
  <2>1. CASE a = b BY <1>3, <1>9, <2>1
  <2>2. CASE a # b
    <3>1. a # s BY <1>3, <1>10, <2>2 DEF K
    <3>2. Known(a) BY <1>3, <1>10, <3>1 DEF K, Known, Branch
    <3>3. Known(root[a]) BY <3>2 DEF Whole, Names
    <3> QED BY <1>3, <1>8, <2>2, <3>3
  <2> QED BY <2>1, <2>2
<1>11. Names'
  <2>1. ASSUME NEW t \in Stream, reader'[t] # "idle" PROVE K(branch'[t])
    <3> HIDE DEF K
    <3>1. CASE t = s BY <1>3, <1>9, <3>1
    <3>2. CASE t # s
      <4>1. Known(branch[t]) BY <1>3, <2>1, <3>2 DEF Whole, Names
      <4> QED BY <1>3, <1>8, <3>2, <4>1
    <3> QED BY <3>1, <3>2
  <2>2. run'.branchId # None => K(run'.branchId)
    <3> HIDE DEF K
    <3> QED BY <1>8 DEF Whole, Names
  <2> QED BY <1>10, <2>1, <2>2 DEF Names, Known
<1>12. Unused' BY <1>2, <1>3 DEF Whole, Unused
<1>13. Left' BY <1>2, <1>3 DEF Whole, Left
<1>14. Steers' BY <1>4 DEF Steers, InHand
<1> QED BY <1>5, <1>6, <1>7, <1>11, <1>12, <1>13, <1>14 DEF Whole

(* What a page at rest shows, when it shows a run. *)
LEMMA ShownIs ==
  ASSUME TypeInv, Whole, ~InFlight, run.branchId # None
  PROVE  /\ Shown(run.branchId) /\ Known(run.branchId) /\ run.branchId \in Rooted
         /\ root[run.branchId] \in Rooted
<1>1. ~StreamOpen BY DEF InFlight
<1>2. Rest /\ ~Draft BY <1>1 DEF Whole, Draft, createRunState
<1>3. PICK b \in Branch : Shown(b) BY <1>2 DEF Rest
<1>4. b = run.branchId BY <1>3 DEF Shown, At
<1>5. Known(run.branchId) /\ Known(root[run.branchId])
  BY DEF Whole, Names, Known
<1>6. \A a : Known(a) => a \in Rooted BY TypeParts DEF PostTyped, Known, Branch
<1> QED BY <1>3, <1>4, <1>5, <1>6

(* A run, a continuation, a recovery or a fork is asked for. *)
LEMMA PagePosts ==
  ASSUME Patient, TypeInv, Queued, Tidy, Whole, NEW s \in Stream,
         runActive(s) \/ decide(s) \/ recover(s) \/ forkSource(s)
  PROVE  Whole'
<1>1. PageTyped /\ ClientTyped /\ PostTyped /\ ServerTyped BY TypeParts
<1>2. run \in RunOf(Rooted) BY <1>1 DEF PageTyped
<1>3. ~InFlight /\ click' = click /\ reader[s] = "idle"
  BY DEF runActive, decide, recover, forkSource, Ready, Post
<1>4. attempt[s] = "idle" /\ feed[s] = <<>> /\ kept[s] = <<>> /\ truth[s] = "none"
  BY <1>1, <1>3 DEF ServerTyped, Queued, Whole, Unused
<1>5. ASSUME NEW k \in {"run", "fork", "resume", "recover"}, NEW b \in Branch,
             NEW o \in Branch, Post(s, k, b, o)
      PROVE  /\ branch'[s] = b /\ root'[b] = o /\ kind'[s] = k /\ reader'[s] = "posted"
             /\ feed' = feed /\ kept' = kept /\ truth' = truth /\ attempt' = attempt
             /\ remembered' = remembered /\ KeptOf(s)' = kept[o]
             /\ Held(s)' = Played(kept[o])
             /\ \A a \in Branch : a # b => root'[a] = root[a]
  <2>1. /\ reader' = [reader EXCEPT ![s] = "posted"] /\ kind' = [kind EXCEPT ![s] = k]
        /\ branch' = [branch EXCEPT ![s] = b] /\ root' = [root EXCEPT ![b] = o]
        /\ feed' = feed /\ kept' = kept /\ truth' = truth /\ attempt' = attempt
        /\ remembered' = remembered
    BY <1>5 DEF Post, server
  <2>2. /\ branch'[s] = b /\ root'[b] = o /\ kind'[s] = k /\ reader'[s] = "posted"
        /\ \A a \in Branch : a # b => root'[a] = root[a]
    BY <1>1, <2>1 DEF ClientTyped, PostTyped
  <2>3. KeptOf(s)' = kept[o] BY <2>1, <2>2 DEF KeptOf
  <2>4. Held(s)' = Played(kept[o]) BY <2>3 DEF Held
  <2> QED BY <2>1, <2>2, <2>3, <2>4
<1>6. CASE runActive(s)
  <2>1. run' = startRun(run) /\ undecided' = FALSE /\ Post(s, "run", s, s)
    BY <1>6 DEF runActive
  <2>2. /\ branch'[s] = s /\ root'[s] = s /\ kind'[s] = "run" /\ reader'[s] = "posted"
        /\ feed' = feed /\ truth' = truth /\ KeptOf(s)' = kept[s]
    BY <1>5, <2>1 DEF Branch
  <2>3. run'.phase = "streaming" /\ run'.active /\ run'.branchId = None
    BY <2>1 DEF startRun, createRunState
  <2>4. Waiting(s)' BY <1>4, <2>1, <2>2, <2>3 DEF Waiting, Live, Toward
  <2>5. s \in Branch BY DEF Branch
  <2>6. run'.branchId = None BY <2>3
  <2>7. Places(s, s, s) BY DEF Places
  <2> QED BY <1>3, <2>1, <2>4, <2>5, <2>6, <2>7, PostsOne
<1>7. ASSUME NEW k \in {"resume", "recover"}, NEW b, b = run.branchId, b # None,
             Post(s, k, b, root[b]), run' = beginContinuation(run),
             undecided' = undecided,
             k = "resume" => run.phase = "suspended",
             k = "recover" => run.phase = "recoverable",
             run.phase \in {"suspended", "recoverable"}
      PROVE  Whole'
  <2>1. Shown(b) /\ Known(b) /\ b \in Branch /\ root[b] \in Branch
    BY <1>3, <1>7, ShownIs DEF Rooted
  <2> DEFINE v == Played(kept[root[b]])
  <2>2. /\ run.active /\ At(b) /\ ~v.threw /\ v.run.active /\ v.run.branchId = b /\ Offers(v)
        /\ Agree(v)
    BY <1>7, <2>1 DEF Shown
  <2>3. /\ branch'[s] = b /\ kind'[s] = k /\ reader'[s] = "posted"
        /\ feed' = feed /\ truth' = truth /\ Held(s)' = v /\ remembered' = remembered
    BY <1>5, <1>7, <2>1
  <2> HIDE DEF v
  <2>4. ~v.undecided /\ ~undecided BY <1>7, <2>2 DEF Agree, Offers
  <2>5. /\ k = "resume" => truth[b] = "parked"
        /\ k = "recover" => truth[b] = "interrupted"
    BY <1>7, <2>2 DEF Agree, Offers
  <2>6. run'.phase = "streaming" /\ run'.active /\ run'.branchId = b
    BY <1>2, <1>7, <2>2 DEF beginContinuation, RunOf
  <2>7. Live' /\ At(b)' BY <1>7, <2>2, <2>3, <2>4, <2>6 DEF Live, At
  <2>8. Waiting(s)'
    <3>1. Toward(branch[s])' BY <2>3, <2>7 DEF Toward, At
    <3>2. /\ k = "resume" => truth'[branch'[s]] = "parked"
          /\ k = "recover" => truth'[branch'[s]] = "interrupted"
      BY <1>7, <2>2, <2>3 DEF Agree, Offers
    <3>3. /\ ~Held(s)'.threw /\ Held(s)'.run.active /\ ~Held(s)'.undecided
          /\ Held(s)'.run.branchId # None
      BY <1>7, <2>2, <2>3, <2>4
    <3> QED BY <1>4, <1>7, <2>3, <2>7, <3>1, <3>2, <3>3 DEF Waiting
  <2>9. Places(s, b, root[b]) BY <2>1 DEF Places
  <2> QED BY <1>3, <1>7, <2>1, <2>6, <2>8, <2>9, PostsOne
<1>8. CASE decide(s)
  BY <1>7, <1>8 DEF decide, canContinue
<1>9. CASE recover(s)
  BY <1>7, <1>9 DEF recover, canContinue
<1>10. CASE forkSource(s)
  <2> DEFINE b == run.branchId
  <2>1. /\ run' = beginFork(run) /\ undecided' = undecided /\ Post(s, "fork", s, root[b])
        /\ run.phase = "terminal" /\ b # None
    BY <1>10 DEF forkSource, canFork
  <2>2. Shown(b) /\ Known(b) /\ b \in Branch /\ root[b] \in Branch /\ Known(root[b])
    <3>1. Shown(b) /\ Known(b) /\ b \in Branch /\ root[b] \in Branch
      BY <1>3, <2>1, ShownIs DEF Rooted
    <3> QED BY <3>1 DEF Whole, Names
  <2>3. b # s BY <1>3, <2>2 DEF Known
  <2> DEFINE v == Played(kept[root[b]])
  <2>4. /\ run.active /\ At(b) /\ ~v.threw /\ v.run.active /\ v.run.branchId = b /\ Offers(v)
        /\ Agree(v)
    BY <2>1, <2>2 DEF Shown
  <2>5. /\ branch'[s] = s /\ root'[s] = root[b] /\ kind'[s] = "fork" /\ reader'[s] = "posted"
        /\ feed' = feed /\ truth' = truth /\ Held(s)' = v
        /\ \A a \in Branch : a # s => root'[a] = root[a]
    BY <1>5, <2>1, <2>2 DEF Branch
  <2> HIDE DEF v
  <2>6. /\ ~v.undecided /\ ~undecided /\ truth[b] = "finished"
    BY <2>1, <2>4 DEF Agree, Offers
  <2>7. run'.phase = "streaming" /\ run'.active /\ run'.branchId = None
    BY <1>2, <2>1, <2>4 DEF beginFork, RunOf
  <2> HIDE DEF b
  <2>8. Live' BY <2>1, <2>6, <2>7 DEF Live
  <2>9. root'[b] = root'[s] BY <2>2, <2>3, <2>5
  <2>10. Waiting(s)'
    <3>1. Toward(branch[s])' BY <2>7 DEF Toward
    <3>2. \E a \in Branch : a # s /\ root'[a] = root'[s] /\ truth'[a] = "finished"
      BY <2>2, <2>3, <2>5, <2>6, <2>9
    <3>3. /\ ~Held(s)'.threw /\ Held(s)'.run.active /\ ~Held(s)'.undecided
          /\ Held(s)'.run.branchId # None
      BY <2>1, <2>4, <2>5, <2>6
    <3> QED BY <1>4, <2>5, <2>8, <3>1, <3>2, <3>3 DEF Waiting
  <2>11. s \in Branch BY DEF Branch
  <2>12. run'.branchId \in {run.branchId, None} BY <2>7
  <2>13. Places(s, s, root[b]) BY <2>2 DEF Places
  <2> QED BY <1>3, <2>1, <2>10, <2>11, <2>12, <2>13, PostsOne
<1> QED BY <1>6, <1>8, <1>9, <1>10

----------------------------------------------------------------------------
(* Clicks, and a steer that was refused. *)

(* A click is pressed or answered; the page and its streams stay as they are.*)
LEMMA ClickOne ==
  ASSUME TypeInv, Tidy, Whole, UNCHANGED <<page, reader, breaks, posts, server>>, Steers'
  PROVE  Whole'
<1>1. /\ run' = run /\ undecided' = undecided /\ remembered' = remembered
      /\ kind' = kind /\ branch' = branch /\ root' = root
      /\ attempt' = attempt /\ feed' = feed /\ kept' = kept /\ truth' = truth
  BY DEF page, posts, server
<1>2. Names' BY <1>1 DEF Whole, Names, Known
<1>3. Unused' /\ Left' BY <1>1 DEF Whole, Unused, Left
<1>4. ASSUME NEW t \in Stream, Asking(t)' PROVE Stage(t)'
  <2>1. Stage(t) BY <1>4 DEF Whole, Asking
  <2>2. feed'[t] = feed[t] /\ attempt'[t] = attempt[t] /\ reader'[t] = reader[t] BY <1>1
  <2> QED BY <1>1, <2>1, <2>2, StageSame
<1>5. StreamOpen' <=> StreamOpen BY DEF StreamOpen
<1>6. Rest => Rest' BY <1>1, RestSame
<1> QED BY <1>2, <1>3, <1>4, <1>5, <1>6 DEF Whole

LEMMA ClicksWhole ==
  ASSUME Gentle, TypeInv, Tidy, Whole, NEW c \in Click,
         abort(c) \/ sendSteer(c) \/ settle(c)
         \/ AnswerAbort(c) \/ AnswerSteer(c) \/ AnswerSettle(c) \/ HearSteer(c)
  PROVE  Whole'
<1>1. ClientTyped BY TypeParts
<1>2. InHand(c) => click[c].kind = "steer" BY DEF Whole, Steers
<1>3. ~abort(c) /\ ~settle(c) BY DEF Gentle, abort, settle, Press
<1>4. ~AnswerAbort(c) /\ ~AnswerSettle(c)
  BY <1>2 DEF AnswerAbort, AnswerSettle, InHand
<1>5. CASE sendSteer(c)
  <2>1. /\ UNCHANGED <<page, reader, reloads, breaks, posts, server>>
        /\ click' = [click EXCEPT ![c] = [kind |-> "steer", branch |-> run.branchId,
                                          state |-> "posted"]]
        /\ "steer" \in Clicks /\ run.branchId # None
    BY <1>5 DEF sendSteer, Press, canSteer
  <2>2. /\ click'[c].kind = "steer" /\ click'[c].branch = run.branchId
        /\ click'[c].state = "posted" /\ \A d \in Click : d # c => click'[d] = click[d]
    BY <1>1, <2>1 DEF ClientTyped
  <2>3. run' = run /\ branch' = branch /\ truth' = truth BY <2>1 DEF page, posts, server
  <2>4. Known(run.branchId) BY <2>1 DEF Whole, Names
  <2>5. ASSUME NEW d \in Click, InHand(d)'
        PROVE  /\ click'[d].kind = "steer" /\ "steer" \in Clicks
               /\ Known(click'[d].branch) /\ (run.active => run.branchId = click'[d].branch)
               /\ click'[d].state = "refused" => truth[click'[d].branch] = "finished"
    <3>1. CASE d = c BY <2>1, <2>2, <2>4, <3>1
    <3>2. CASE d # c BY <2>2, <2>5, <3>2 DEF Whole, Steers, InHand
    <3> QED BY <3>1, <3>2
  <2>6. Steers' BY <2>1, <2>3, <2>5 DEF Steers, Known
  <2> QED BY <2>1, <2>6, ClickOne
<1>6. CASE AnswerSteer(c)
  <2>1. /\ UNCHANGED <<page, reader, reloads, breaks, posts, server>> /\ InHand(c)
        /\ click' = [click EXCEPT ![c].state = IF truth[click[c].branch] # "finished"
                                               THEN "ok" ELSE "refused"]
    BY <1>6 DEF AnswerSteer, Says, InHand
  <2>2. /\ click'[c].kind = click[c].kind /\ click'[c].branch = click[c].branch
        /\ click'[c].state = "refused" => truth[click[c].branch] = "finished"
        /\ \A d \in Click : d # c => click'[d] = click[d]
    BY <1>1, <2>1 DEF ClientTyped
  <2>3. run' = run /\ branch' = branch /\ truth' = truth BY <2>1 DEF page, posts, server
  <2>4. ASSUME NEW d \in Click, InHand(d)'
        PROVE  /\ click'[d].kind = "steer" /\ "steer" \in Clicks
               /\ Known(click'[d].branch) /\ (run.active => run.branchId = click'[d].branch)
               /\ click'[d].state = "refused" => truth[click'[d].branch] = "finished"
    <3>1. CASE d = c BY <2>1, <2>2, <3>1 DEF Whole, Steers
    <3>2. CASE d # c BY <2>2, <2>4, <3>2 DEF Whole, Steers, InHand
    <3> QED BY <3>1, <3>2
  <2>5. Steers' BY <2>1, <2>3, <2>4 DEF Steers, Known
  <2> QED BY <2>1, <2>5, ClickOne
<1>7. CASE HearSteer(c)
  <2>1. /\ UNCHANGED <<page, reader, reloads, breaks, posts, server>>
        /\ click' = [click EXCEPT ![c].state = "done"]
    BY <1>7 DEF HearSteer, Done
  <2>2. click'[c].state = "done" /\ \A d \in Click : d # c => click'[d] = click[d]
    BY <1>1, <2>1 DEF ClientTyped
  <2>3. run' = run /\ branch' = branch /\ truth' = truth BY <2>1 DEF page, posts, server
  <2>4. \A d \in Click : InHand(d)' => InHand(d) /\ click'[d] = click[d]
    BY <2>2 DEF InHand
  <2>5. Steers' BY <2>1, <2>3, <2>4 DEF Whole, Steers, Known
  <2> QED BY <2>1, <2>5, ClickOne
<1> QED BY <1>3, <1>4, <1>5, <1>6, <1>7

(* A steer was refused: the page calls its run failed. *)
LEMMA RefusedWhole ==
  ASSUME TypeInv, Tidy, Whole, NEW c \in Click, HearRefused(c)
  PROVE  Whole'
<1>1. PageTyped /\ ClientTyped /\ PostTyped /\ ServerTyped BY TypeParts
<1>2. run \in RunOf(Rooted) /\ undecided \in BOOLEAN BY <1>1 DEF PageTyped
<1> DEFINE b == click[c].branch
<1>3. /\ "steer" \in Clicks /\ (run.active => run.branchId = b) /\ truth[b] = "finished"
      /\ b # None
  <2>1. InHand(c) /\ click[c].state = "refused" BY DEF HearRefused, InHand
  <2>2. Known(b) BY <2>1 DEF Whole, Steers
  <2> QED BY <2>1, <2>2, NoneApart DEF Whole, Steers, Known
<1>4. /\ UNCHANGED <<undecided, remembered, reader, reloads, breaks, posts, server>>
      /\ run' = failCurrent(run) /\ click' = [click EXCEPT ![c].state = "done"]
  BY DEF HearRefused, Done
<1> HIDE DEF b
<1>5. CASE ~run.active \/ run.phase = "error"
  <2>1. run' = run BY <1>4, <1>5 DEF failCurrent
  <2>2. click'[c].state = "done" /\ \A d \in Click : d # c => click'[d] = click[d]
    BY <1>1, <1>4 DEF ClientTyped
  <2>3. branch' = branch /\ truth' = truth BY <1>4 DEF posts, server
  <2>4. \A d \in Click : InHand(d)' => InHand(d) /\ click'[d] = click[d]
    BY <2>2 DEF InHand
  <2>5. Steers' BY <1>4, <2>1, <2>3, <2>4 DEF Whole, Steers, Known
  <2> QED BY <1>4, <2>1, <2>5, ClickOne DEF page
<1>6. CASE run.active /\ run.phase # "error"
  <2>1. /\ run'.phase = "error" /\ run'.active /\ run'.branchId = b /\ run.branchId = b
        /\ run'.branchId = run.branchId
    BY <1>2, <1>3, <1>4, <1>6 DEF failCurrent, failRun, RunOf
  <2>2. /\ undecided' = undecided /\ remembered' = remembered
        /\ kind' = kind /\ branch' = branch /\ root' = root
        /\ attempt' = attempt /\ feed' = feed /\ kept' = kept /\ truth' = truth
    BY <1>4 DEF posts, server
  <2>3. \A a : Known(a)' <=> Known(a) BY <1>4, <2>2 DEF Known
  <2>4. Names'
    <3>1. ASSUME NEW a \in Branch, Known(a)' PROVE Known(root[a])
      BY <2>3, <3>1 DEF Whole, Names
    <3>2. \A s \in Stream : reader[s] # "idle" => Known(branch[s])
      BY DEF Whole, Names
    <3>3. run.branchId # None => Known(run.branchId) BY DEF Whole, Names
    <3> QED BY <1>4, <2>1, <2>2, <3>1, <3>2, <3>3 DEF Names, Known
  <2>5. Unused' /\ Left' BY <1>4, <2>2 DEF Whole, Unused, Left
  <2>6. Steers'
    <3>1. click'[c].state = "done" /\ \A d \in Click : d # c => click'[d] = click[d]
      BY <1>1, <1>4 DEF ClientTyped
    <3>2. \A d \in Click : InHand(d)' => InHand(d) /\ click'[d] = click[d]
      BY <3>1 DEF InHand
    <3>3. \A d \in Click : InHand(d) =>
            /\ click[d].kind = "steer" /\ "steer" \in Clicks /\ Known(click[d].branch)
            /\ run'.branchId = click[d].branch
            /\ click[d].state = "refused" => truth[click[d].branch] = "finished"
      BY <1>6, <2>1 DEF Whole, Steers
    <3> QED BY <2>2, <2>3, <3>2, <3>3 DEF Steers
  <2>7. ASSUME NEW s \in Stream, Asking(s)' PROVE Stage(s)'
    <3>1. Asking(s) /\ Stage(s) BY <1>4, <2>7 DEF Asking, Whole
    <3>2. Toward(branch[s]) => branch[s] = b BY <1>3, <2>1 DEF Toward, At
    <3>3. At(branch[s]) => branch[s] = b BY <2>1 DEF At
    <3>4. ~Waiting(s)
      <4> SUFFICES ASSUME Waiting(s) PROVE FALSE
        OBVIOUS
      <4>1. truth[branch[s]] = "finished" BY <1>3, <3>2 DEF Waiting
      <4>2. kind[s] \in {"run", "fork", "resume", "recover"} BY <1>1 DEF PostTyped
      <4> QED BY <4>1, <4>2 DEF Waiting
    <3>5. ~Begun(s)
      <4> SUFFICES ASSUME Begun(s) PROVE FALSE
        OBVIOUS
      <4>1. truth[branch[s]] = "finished" BY <1>3, <3>2, <3>3 DEF Begun
      <4> QED BY <1>1, <4>1 DEF Begun, Fits, PostTyped
    <3>6. ~Broken(s)
      <4> SUFFICES ASSUME Broken(s) PROVE FALSE
        OBVIOUS
      <4>1. truth[branch[s]] = "finished" BY <1>3, <3>2, <3>3 DEF Broken
      <4> QED BY <4>1 DEF Broken
    <3>7. attempt[s] \in {"closing", "done"} BY <3>1, <3>4, <3>5, <3>6 DEF Stage
    <3>8. PICK k \in Closing : Closed(s, k) BY <3>1, <3>4, <3>5, <3>6 DEF Stage
    <3>9. PICK T \in Tails(s) : Follows(s, k, T) BY <3>8 DEF Closed
    <3>10. ~Misled(s) /\ ~Draft
      <4>1. ~Draft BY <1>6 DEF Draft, createRunState
      <4> QED BY <1>6, <4>1 DEF Misled
    <3>11. ASSUME At(branch[s]) \/ Toward(branch[s]), ~undecided, remembered = b
           PROVE  Misled(s)'
      <4>1. branch[s] = b BY <3>2, <3>3, <3>11
      <4>2. At(branch[s])' BY <2>1, <2>2, <3>11, <4>1 DEF At
      <4> QED BY <1>3, <2>1, <2>2, <3>11, <4>1, <4>2 DEF Misled
    <3>12. /\ KeptOf(s)' = KeptOf(s) /\ Held(s)' = Held(s) /\ Tails(s)' = Tails(s)
           /\ \A j : frame(s, j)' = frame(s, j)
      BY <1>4, <2>2 DEF KeptOf, Held, Tails, frame
    <3>13. reader' = reader BY <1>4
    <3>14. Toward(branch[s]) => At(branch[s]) BY <1>3, <2>1 DEF Toward
    <3>15. Follows(s, k, T)'
      <4>1. CASE Live /\ Toward(branch[s])
        <5>1. Misled(s)' BY <3>2, <3>11, <3>14, <4>1 DEF Live, At
        <5>2. Follows(s, k, T) => \/ feed[s] = <<frame(s, "meta"), frame(s, k)>> \o T
                                  \/ feed[s] = <<frame(s, k)>> \o T /\ reader[s] = "reading"
                                  \/ feed[s] = T /\ reader[s] = "reading"
          BY DEF Follows
        <5> QED BY <2>2, <3>9, <3>12, <3>13, <5>1, <5>2 DEF Follows
      <4>2. CASE /\ feed[s] = <<frame(s, k)>> \o T /\ reader[s] = "reading"
                 /\ Live /\ At(branch[s])
        <5>1. Misled(s)' BY <3>3, <3>11, <4>2 DEF Live, At
        <5> QED BY <2>2, <3>12, <3>13, <4>2, <5>1 DEF Follows
      <4>3. CASE /\ feed[s] = T /\ reader[s] = "reading"
                 /\ Reached(run, undecided, s, branch[s], k) /\ remembered = branch[s]
        <5>1. branch[s] = b /\ At(branch[s]) BY <2>1, <4>3 DEF Reached, At
        <5>2. Happened(truth[b], k) BY <3>8, <5>1 DEF Closed
        <5>3. ~undecided BY <1>3, <4>3, <5>2 DEF Reached, Happened
        <5>4. Misled(s)' BY <3>11, <4>3, <5>1, <5>3
        <5> QED BY <2>2, <3>12, <3>13, <4>3, <5>4 DEF Follows
      <4> QED BY <3>9, <3>10, <4>1, <4>2, <4>3 DEF Follows
    <3>16. Closed(s, k)' BY <2>2, <3>8, <3>12, <3>15 DEF Closed
    <3> QED BY <2>2, <3>7, <3>16 DEF Stage
  <2>8. ASSUME Rest PROVE Rest'
    <3>1. ~Draft BY <1>6 DEF Draft, createRunState
    <3>2. PICK a \in Branch : Shown(a) BY <2>8, <3>1 DEF Rest
    <3> DEFINE v == Played(kept[root[a]])
    <3>3. /\ run.active /\ At(a) /\ kept[root[a]] # <<>> /\ ~v.threw /\ v.run.active
          /\ v.run.branchId = a /\ Offers(v) /\ Agree(v)
      BY <1>6, <3>2 DEF Shown
    <3>4. a = b /\ truth[a] = "finished" BY <1>3, <2>1, <3>3 DEF At
    <3>5. v' = v BY <2>2
    <3> HIDE DEF v
    <3>6. ~undecided BY <3>3, <3>4 DEF Offers, Agree
    <3>7. At(a)' /\ Offers(v)' BY <2>1, <2>2, <3>3, <3>4, <3>5 DEF At, Offers
    <3>8. Shown(a)' BY <1>3, <2>1, <2>2, <3>3, <3>5, <3>6, <3>7 DEF Shown, v
    <3> QED BY <3>8 DEF Rest
  <2>9. StreamOpen' <=> StreamOpen BY <1>4 DEF StreamOpen
  <2> QED BY <2>4, <2>5, <2>6, <2>7, <2>8, <2>9 DEF Whole
<1> QED BY <1>2, <1>5, <1>6 DEF RunOf

----------------------------------------------------------------------------
(* Drafts and reloads, and the theorems. *)

(* Back to an empty page. *)
LEMMA DraftWhole ==
  ASSUME TypeInv, Tidy, Whole, returnDraft
  PROVE  Whole'
<1>1. /\ run' = createRunState /\ ~undecided' /\ remembered' = None
      /\ reader' = reader /\ click' = click /\ breaks' = breaks
      /\ kind' = kind /\ branch' = branch /\ root' = root
      /\ attempt' = attempt /\ feed' = feed /\ kept' = kept /\ truth' = truth
  BY DEF returnDraft, posts, server
<1>2. Draft' /\ Rest' BY <1>1 DEF Draft, Rest
<1>3. run'.branchId = None /\ ~run'.active BY <1>1 DEF createRunState
<1>4. \A a : Known(a)' <=> Known(a) BY <1>1 DEF Known
<1>5. Names'
  <2>1. ASSUME NEW a \in Branch, Known(a)' PROVE Known(root[a])
    BY <1>4, <2>1 DEF Whole, Names
  <2>2. \A s \in Stream : reader[s] # "idle" => Known(branch[s])
    BY DEF Whole, Names
  <2> QED BY <1>1, <1>3, <2>1, <2>2 DEF Names, Known
<1>6. Unused' /\ Left' BY <1>1 DEF Whole, Unused, Left
<1>7. Steers' BY <1>1, <1>3, <1>4 DEF Whole, Steers, InHand
<1>8. ASSUME NEW s \in Stream, Asking(s)' PROVE Stage(s)'
  <2>1. Asking(s) /\ Stage(s) BY <1>1, <1>8 DEF Asking, Whole
  <2>2. ~Live BY DEF returnDraft, canStartRun, STARTABLE, Live
  <2>3. PICK k \in Closing : Closed(s, k) /\ attempt[s] \in {"closing", "done"}
    BY <2>1, <2>2 DEF Stage, Waiting, Begun, Broken
  <2>4. PICK T \in Tails(s) : Follows(s, k, T) BY <2>3 DEF Closed
  <2>5. /\ KeptOf(s)' = KeptOf(s) /\ Held(s)' = Held(s) /\ Tails(s)' = Tails(s)
        /\ \A j : frame(s, j)' = frame(s, j)
    BY <1>1 DEF KeptOf, Held, Tails, frame
  <2>6. Misled(s) => Misled(s)' BY <1>1, <1>2 DEF Misled
  <2>7. Follows(s, k, T)' BY <1>1, <1>2, <2>2, <2>4, <2>5, <2>6 DEF Follows
  <2>8. Closed(s, k)' BY <1>1, <2>3, <2>5, <2>7 DEF Closed
  <2> QED BY <1>1, <2>3, <2>8 DEF Stage
<1> QED BY <1>2, <1>5, <1>6, <1>7, <1>8 DEF Whole

(* What a reload of a page at rest shows. *)
LEMMA RestoredRest ==
  ASSUME TypeInv, Rest
  PROVE  \/ Draft /\ KeptFrames = <<>> /\ Restored(KeptFrames) = View(createRunState, FALSE)
         \/ \E b \in Branch : /\ Shown(b) /\ KeptFrames = kept[root[b]] /\ KeptFrames # <<>>
                              /\ Restored(KeptFrames) = Played(kept[root[b]])
<1>1. CASE Draft BY <1>1 DEF Draft, KeptFrames, Restored
<1>2. ASSUME NEW b \in Branch, Shown(b)
      PROVE  /\ KeptFrames = kept[root[b]] /\ KeptFrames # <<>>
             /\ Restored(KeptFrames) = Played(kept[root[b]])
  <2>1. remembered = b /\ b # None BY <1>2, NoneApart DEF Shown, At
  <2>2. KeptFrames = kept[root[b]] /\ kept[root[b]] # <<>>
    BY <1>2, <2>1 DEF KeptFrames, Shown
  <2>3. ~Played(kept[root[b]]).threw BY <1>2 DEF Shown
  <2> QED BY <2>2, <2>3 DEF Restored, Played, Blank
<1> QED BY <1>1, <1>2 DEF Rest

(* A reload replays the kept frames of the conversation it remembers. *)
LEMMA ReloadWhole ==
  ASSUME Patient, TypeInv, Tidy, Whole, Reload
  PROVE  Whole'
<1>1. PageTyped /\ ClientTyped /\ PostTyped /\ ServerTyped BY TypeParts
<1>2. ~InFlight BY DEF Reload, Ready
<1>3. ~StreamOpen /\ Rest /\ \A s \in Stream : ~Asking(s)
  BY <1>2 DEF InFlight, StreamOpen, Whole, Asking
<1>4. /\ run' = Restored(KeptFrames).run /\ undecided' = Restored(KeptFrames).undecided
      /\ remembered' = IF KeptFrames = <<>> THEN None ELSE remembered
      /\ breaks' = breaks /\ kind' = kind /\ branch' = branch /\ root' = root
      /\ attempt' = attempt /\ feed' = feed /\ kept' = kept /\ truth' = truth
      /\ reader' = [s \in Stream |-> IF reader[s] = "idle" THEN "idle" ELSE "gone"]
  BY DEF Reload, posts, server
<1>5. \A c \in Click : ~InHand(c)' BY <1>1 DEF Reload, InHand, ClientTyped
<1>6. \A s \in Stream : /\ ~Asking(s)' /\ (reader'[s] = "idle" <=> reader[s] = "idle")
  BY <1>4 DEF Asking
<1>7. ~StreamOpen' BY <1>6 DEF StreamOpen, Asking
<1>8. \A a : Known(a)' <=> Known(a) BY <1>4, <1>6 DEF Known, Branch
<1>9. Left'
  <2> SUFFICES ASSUME NEW s \in Stream, reader[s] # "idle"
               PROVE  attempt[s] \in {"closing", "done"}
    BY <1>4, <1>6 DEF Left
  <2>1. reader[s] \in {"ended", "unread", "gone"}
    BY <1>1, <1>3 DEF Asking, ClientTyped
  <2> QED BY <2>1 DEF Whole, Left
<1>10. Unused' BY <1>4, <1>6 DEF Whole, Unused
<1>11. Steers' BY <1>5 DEF Steers
<1>12. Rest' /\ (run'.branchId # None => Known(run'.branchId))
  <2>1. CASE Draft /\ KeptFrames = <<>> /\ Restored(KeptFrames) = View(createRunState, FALSE)
    <3>1. run' = createRunState /\ ~undecided' /\ remembered' = None
      BY <1>4, <2>1 DEF View
    <3> QED BY <3>1 DEF Rest, Draft, createRunState
  <2>2. ASSUME NEW b \in Branch, Shown(b), KeptFrames # <<>>,
               Restored(KeptFrames) = Played(kept[root[b]])
        PROVE  Rest' /\ (run'.branchId # None => Known(run'.branchId))
    <3> DEFINE v == Played(kept[root[b]])
    <3>1. /\ run' = v.run /\ undecided' = v.undecided /\ remembered' = remembered
          /\ v' = v
      BY <1>4, <2>2
    <3>2. /\ At(b) /\ kept[root[b]] # <<>> /\ ~v.threw /\ v.run.active
          /\ v.run.branchId = b /\ Offers(v)
      BY <2>2 DEF Shown
    <3> HIDE DEF v
    <3>3. At(b)' /\ Offers(v)' /\ Agree(v)'
      BY <1>4, <3>1, <3>2 DEF At, Offers, Agree
    <3>4. Shown(b)' BY <1>4, <3>1, <3>2, <3>3 DEF Shown, v
    <3>5. Known(b)
      <4>1. run.branchId = b /\ b # None BY <3>2, NoneApart DEF At
      <4> QED BY <4>1 DEF Whole, Names
    <3> QED BY <3>1, <3>2, <3>4, <3>5 DEF Rest
  <2> QED BY <1>3, <2>1, <2>2, RestoredRest
<1>13. Names'
  <2>1. ASSUME NEW a \in Branch, Known(a)' PROVE Known(root[a])
    BY <1>8, <2>1 DEF Whole, Names
  <2>2. \A s \in Stream : reader'[s] # "idle" => Known(branch[s])
    BY <1>6 DEF Whole, Names
  <2>3. \A a : Known(a) => a \in Branch /\ reader'[a] # "idle" /\ branch[a] = a
    BY <1>6 DEF Known, Branch
  <2>4. ASSUME NEW a \in Branch, Known(a)'
        PROVE  root'[a] \in Branch /\ reader'[root'[a]] # "idle" /\ branch'[root'[a]] = root'[a]
    BY <1>4, <2>1, <2>3, <2>4
  <2>5. ASSUME NEW s \in Stream, reader'[s] # "idle"
        PROVE  branch'[s] \in Branch /\ reader'[branch'[s]] # "idle" /\ branch'[branch'[s]] = branch'[s]
    BY <1>4, <2>2, <2>3, <2>5
  <2>6. run'.branchId # None =>
          /\ run'.branchId \in Branch /\ reader'[run'.branchId] # "idle"
          /\ branch'[run'.branchId] = run'.branchId
    BY <1>4, <1>12, <2>3
  <2> QED BY <2>4, <2>5, <2>6 DEF Names, Known
<1> QED BY <1>6, <1>7, <1>9, <1>10, <1>11, <1>12, <1>13 DEF Whole

(* Every step of a gentle page keeps Whole. *)
LEMMA WholeStep ==
  ASSUME Gentle PROVE TypeInv /\ Queued /\ Tidy /\ Whole /\ [Next]_vars => Whole'
<1> SUFFICES ASSUME TypeInv, Queued, Tidy, Whole, [Next]_vars PROVE Whole'
  OBVIOUS
<1>1. Patient BY DEF Gentle
<1>2. CASE UNCHANGED vars
  <2>1. UNCHANGED <<page, reader, breaks, posts, server>> /\ click' = click
    BY <1>2 DEF vars
  <2>2. run' = run /\ branch' = branch /\ truth' = truth BY <2>1 DEF page, posts, server
  <2>3. Steers' BY <2>1, <2>2 DEF Whole, Steers, InHand, Known
  <2> QED BY <2>1, <2>3, ClickOne
<1>3. ASSUME NEW c \in Click PROVE ~HearAbort(c) /\ \A s \in Stream : ~HearSettle(c, s)
  <2>1. InHand(c) => click[c].kind = "steer" BY DEF Whole, Steers
  <2> QED BY <2>1 DEF HearAbort, HearSettle, InHand
<1> QED BY <1>1, <1>2, <1>3, PagePosts, ReadsWhole, ServesWhole, ClicksWhole, RefusedWhole,
           DraftWhole, ReloadWhole DEF Next

(* On a page that asks for a stream only when nothing is in flight, where    *)
(* nobody aborts or settles, every action it offers is one the server would  *)
(* take: through every refusal of a steer, every broken connection and every *)
(* reload (OffersHold).                                                      *)
THEOREM OffersAreGood == ASSUME Gentle PROVE Spec => []OffersHold
<1>1. TypeInv /\ Whole => OffersHold
  <2> SUFFICES ASSUME TypeInv, Whole, ~InFlight
               PROVE  /\ run.phase = "suspended" => truth[run.branchId] = "parked"
                      /\ run.phase = "recoverable" => truth[run.branchId] = "interrupted"
                      /\ run.phase = "error" /\ undecided => truth[run.branchId] = "unknown"
                      /\ canFork(run) => truth[run.branchId] = "finished"
    BY DEF OffersHold
  <2>1. Rest BY DEF Whole, InFlight, StreamOpen
  <2>2. CASE Draft BY <2>2 DEF Draft, createRunState, canFork
  <2>3. ASSUME NEW b \in Branch, Shown(b)
        PROVE  /\ run.phase = "suspended" => truth[run.branchId] = "parked"
               /\ run.phase = "recoverable" => truth[run.branchId] = "interrupted"
               /\ run.phase = "error" /\ undecided => truth[run.branchId] = "unknown"
               /\ canFork(run) => truth[run.branchId] = "finished"
    <3> DEFINE v == Played(kept[root[b]])
    <3>1. /\ run.branchId = b /\ v.run.branchId = b /\ Offers(v)
          /\ run.phase # "error" \/ undecided => Agree(v)
      BY <2>3 DEF Shown, At
    <3> HIDE DEF v
    <3> QED BY <3>1 DEF Offers, Agree, canFork
  <2> QED BY <2>1, <2>2, <2>3 DEF Rest
<1>2. Init => TypeInv /\ Queued /\ Tidy /\ Whole
  BY TypesInit, QueuedInit, TidyInit, WholeInit
<1>3. Patient BY DEF Gentle
<1>4. TypeInv /\ Queued /\ Tidy /\ Whole /\ [Next]_vars =>
        TypeInv' /\ Queued' /\ Tidy' /\ Whole'
  BY <1>3, TypesStep, QueuedStep, TidyStep, WholeStep
<1> QED BY <1>1, <1>2, <1>4, PTL DEF Spec

(* Where nobody clicks at all while a stream is read, a reload lands back on *)
(* the run the page shows, as long as no connection broke (RestoreAgrees).   *)
THEOREM RestoreIsFaithful ==
  ASSUME Patient, Clicks = {} PROVE Spec => []RestoreAgrees
<1>1. TypeInv /\ Whole => RestoreAgrees
  <2> SUFFICES ASSUME TypeInv, Whole, ~InFlight, breaks = 0
               PROVE  LET v == Restored(KeptFrames)
                      IN  /\ v.undecided = undecided
                          /\ v.run.phase = run.phase /\ v.run.branchId = run.branchId
                          /\ run.phase = "suspended" => v.run.pendingId = run.pendingId
    BY DEF RestoreAgrees
  <2>1. Rest BY DEF Whole, InFlight, StreamOpen
  <2>2. undecided \in BOOLEAN BY TypeParts DEF PageTyped
  <2>3. CASE Draft /\ Restored(KeptFrames) = View(createRunState, FALSE)
    <3> DEFINE v == Restored(KeptFrames)
    <3>1. v.run = run /\ v.undecided = FALSE /\ undecided = FALSE
      BY <2>2, <2>3 DEF Draft, View
    <3>2. run.phase # "suspended" BY <2>3 DEF Draft, createRunState
    <3> HIDE DEF v
    <3>3. /\ v.undecided = undecided /\ v.run.phase = run.phase
          /\ v.run.branchId = run.branchId
      BY <3>1
    <3> QED BY <3>2, <3>3 DEF v
  <2>4. ASSUME NEW b \in Branch, Shown(b), Restored(KeptFrames) = Played(kept[root[b]])
        PROVE  LET v == Restored(KeptFrames)
               IN  /\ v.undecided = undecided
                   /\ v.run.phase = run.phase /\ v.run.branchId = run.branchId
                   /\ run.phase = "suspended" => v.run.pendingId = run.pendingId
    <3> DEFINE v == Played(kept[root[b]])
    <3>1. /\ run.branchId = b /\ v.run.branchId = b /\ Agree(v)
      BY <2>4 DEF Shown, At
    <3>2. Restored(KeptFrames) = v BY <2>4
    <3> HIDE DEF v
    <3> QED BY <3>1, <3>2 DEF Agree
  <2> QED BY <2>1, <2>3, <2>4, RestoredRest
<1>2. Init => TypeInv /\ Queued /\ Tidy /\ Whole
  BY TypesInit, QueuedInit, TidyInit, WholeInit
<1>3. Gentle BY DEF Gentle
<1>4. TypeInv /\ Queued /\ Tidy /\ Whole /\ [Next]_vars =>
        TypeInv' /\ Queued' /\ Tidy' /\ Whole'
  BY <1>3, TypesStep, QueuedStep, TidyStep, WholeStep
<1> QED BY <1>1, <1>2, <1>4, PTL DEF Spec
==============================================================================
