--------------------------- MODULE SeedPlanProofs ----------------------------
(***************************************************************************)
(* Proofs about SeedPlan, for any number of invocations, directories,      *)
(* configurations and rounds.  As in RunRecordProofs, what the runs check  *)
(* of the files is proved together with the same fact about every copy an  *)
(* invocation holds in memory (IInv).                                      *)
(***************************************************************************)
EXTENDS SeedPlan, TLAPS

\* What an invocation holds in memory at each step.
Loaded(p) ==
    /\ pc[p] \notin {"idle", "verify"} => dir[p] \in Dirs
    /\ pc[p] = "plan round" => draft[p] \in Plan
    /\ pc[p] \notin {"idle", "plan round"} => draft[p] \in Planned
    /\ pc[p] = "write seeds" => drawn[p] \in Seeds
    /\ pc[p] \in {"copy plan", "copy proof", "bind", "write run", "verify"}
          => run[p] \in Run

LoadedInv == \A p \in Procs : Loaded(p)
TypeInv == TypeOK /\ LoadedInv

\* The seeds are those of a plan a calendar took.
SeedsHeld(s) == \E h \in held : h.plan.config = s.config /\ h.plan.minRound = s.round

\* Every proof file, and every plan past its check, was stamped.
StampInv ==
    /\ \A d \in Dirs : proof[d] # NoFile => Stamped(proof[d])
    /\ \A d \in Dirs : seeds[d] # NoFile => SeedsHeld(seeds[d])
    /\ \A p \in Procs :
         /\ pc[p] \in {"write proof", "fetch"} => Stamped(draft[p])
         /\ pc[p] = "write seeds" => SeedsHeld(drawn[p])

\* A plan is dated before its round.
Dated(pl) == (\A delay \in Delays : delay > Lag) => pl.created < RoundTime(pl.minRound)

DateInv ==
    /\ \A d \in Dirs : plan[d] # NoFile => Dated(plan[d])
    /\ \A p \in Procs :
         /\ pc[p] = "plan round" => draft[p].created <= now
         /\ pc[p] = "write plan" => Dated(draft[p])

\* A record is bound to the round of its plan.
OwnRound(m) == m.beacon # None => m.beacon.round = m.plan.minRound

RoundInv ==
    /\ manifest # NoFile => OwnRound(manifest)
    /\ \A p \in Procs :
         /\ pc[p] \in {"copy plan", "copy proof", "bind"} =>
              run[p].plan = draft[p] /\ run[p].beacon = None
         /\ pc[p] = "write run" => OwnRound(run[p])

\* What verify printed L2 for; with exit code 0 the seed is the one that the
\* plan, the index and drand determine.
Justified(e) ==
    /\ Stamped(e.plan) /\ Published(e.plan.minRound)
    /\ e.exit0 => e.seed = DeriveSeed(e.plan.config, e.plan.minRound, "drand", e.seed.index)

EarnedInv == \A e \in earned : Justified(e)

IInv == TypeInv /\ StampInv /\ DateInv /\ RoundInv /\ EarnedInv
-----------------------------------------------------------------------------
(* Type correctness. *)

LEMMA TypeInit == Init => TypeInv
BY ConstantsOK DEF Init, TypeInv, TypeOK, LoadedInv, Loaded, Steps

LEMMA PlannedFile == TypeOK => \A d \in Dirs : plan[d] # NoFile => plan[d] \in Planned
BY DEF TypeOK

LEMMA StartType == ASSUME TypeOK, NEW p, Start(p) PROVE budget' \in Nat
BY DEF Start, TypeOK

LEMMA PlanRoundType ==
    ASSUME NEW pl \in Plan, NEW latest \in Rounds, NEW delay \in Delays
    PROVE  LET dated == [pl EXCEPT !.minRound = latest + delay]
           IN  /\ dated \in Planned
               /\ dated.created = pl.created
               /\ dated.minRound = latest + delay
<1>1. latest + delay \in Nat \ {0}
  BY ConstantsOK DEF Rounds
<1>. QED BY <1>1 DEF Plan, Planned

LEMMA BoundType ==
    ASSUME TypeInv, NEW p \in Procs, NEW round \in Nat, NEW randomness \in Sources,
           NEW index \in Indices, Bound(p, round, randomness, index), run[p] \in Run
    PROVE  /\ run' \in [Procs -> Run \cup {None}] /\ run'[p] \in Run
           /\ \A q \in Procs \ {p} : run'[q] = run[q]
           /\ run'[p].plan = run[p].plan
           /\ run'[p].beacon # None => run'[p].beacon.round = round
<1> DEFINE b == [round |-> round, randomness |-> randomness, index |-> index,
                 seed |-> DeriveSeed(run[p].config, round, randomness, index)]
<1>1. DeriveSeed(run[p].config, round, randomness, index) \in Seed
  BY DEF DeriveSeed, Seed, Run
<1>2. b \in Beacon /\ b.round = round
  BY <1>1 DEF Beacon
<1>3. /\ [run[p] EXCEPT !.beacon = b] \in Run
      /\ [run[p] EXCEPT !.beacon = b].plan = run[p].plan
      /\ [run[p] EXCEPT !.beacon = b].beacon = b
  BY <1>2 DEF Run
<1>4. run' = [run EXCEPT ![p] = [run[p] EXCEPT !.beacon = b]]
  BY DEF Bound
<1> HIDE DEF b
<1>. QED BY <1>2, <1>3, <1>4 DEF TypeInv, TypeOK

LEMMA TypeStep == TypeInv /\ [Next]_vars => TypeInv'
<1> SUFFICES ASSUME TypeInv, [Next]_vars PROVE TypeInv'
  OBVIOUS
<1> USE DEF TypeInv
<1>1. CASE UNCHANGED vars
  BY <1>1 DEF vars, files, memory, TypeOK, LoadedInv, Loaded
<1>2. ASSUME NEW p \in Procs, NEW d \in Dirs, NEW config \in Configs,
       Precommit(p, d, config)
      PROVE  TypeInv'
  <2>1. [config |-> config, created |-> now, minRound |-> 0] \in Plan
    BY DEF Plan, TypeOK
  <2>2. TypeOK'
    BY <1>2, <2>1, StartType DEF Precommit, Start, Goto, TypeOK, Steps, files, memory
  <2>3. ASSUME NEW q \in Procs PROVE Loaded(q)'
    BY <1>2, <2>1 DEF Precommit, Start, Goto, TypeOK, LoadedInv, Loaded, files, memory
  <2>. QED BY <2>2, <2>3 DEF LoadedInv
<1>3. ASSUME NEW p \in Procs, NEW d \in Dirs, NEW config \in Configs,
       BuildManifest(p, d, config)
      PROVE  TypeInv'
  <2>1. /\ plan[d] \in Planned /\ plan[d] \in Plan
        /\ [config |-> config, plan |-> plan[d], beacon |-> None] \in Run
    BY <1>3, PlannedFile DEF BuildManifest, Planned, Run
  <2>2. TypeOK'
    BY <1>3, <2>1, StartType DEF BuildManifest, Start, Goto, TypeOK, Steps, files, memory
  <2>3. ASSUME NEW q \in Procs PROVE Loaded(q)'
    BY <1>3, <2>1 DEF BuildManifest, Start, Goto, TypeOK, LoadedInv, Loaded, files, memory
  <2>. QED BY <2>2, <2>3 DEF LoadedInv
<1>4. ASSUME NEW p \in Procs, NEW latest \in Rounds, NEW delay \in Delays,
       PlanRound(p, latest, delay)
      PROVE  TypeInv'
  <2>1. /\ draft[p] \in Plan
        /\ [draft[p] EXCEPT !.minRound = latest + delay] \in Planned
    BY <1>4, PlanRoundType DEF PlanRound, LoadedInv, Loaded
  <2>2. TypeOK'
    BY <1>4, <2>1 DEF PlanRound, Goto, Planned, TypeOK, Steps, files, memory
  <2>3. ASSUME NEW q \in Procs PROVE Loaded(q)'
    BY <1>4, <2>1 DEF PlanRound, Goto, Planned, TypeOK, LoadedInv, Loaded, files, memory
  <2>. QED BY <2>2, <2>3 DEF LoadedInv
<1>5. ASSUME NEW p \in Procs, WritePlan(p) PROVE TypeInv'
  BY <1>5, ConstantsOK DEF WritePlan, Goto, TypeOK, LoadedInv, Loaded, Steps, files, memory
<1>6. ASSUME NEW p \in Procs, StampPlan(p) PROVE TypeInv'
  <2>1. /\ draft[p] \in Planned
        /\ [plan |-> draft[p], time |-> now] \in [plan : Planned, time : Nat]
    BY <1>6 DEF StampPlan, LoadedInv, Loaded, TypeOK
  <2>2. TypeOK'
    BY <1>6, <2>1 DEF StampPlan, Goto, TypeOK, Steps, files, memory
  <2>3. ASSUME NEW q \in Procs PROVE Loaded(q)'
    BY <1>6, <2>1 DEF StampPlan, Goto, TypeOK, LoadedInv, Loaded, files, memory
  <2>. QED BY <2>2, <2>3 DEF LoadedInv
<1>7. ASSUME NEW p \in Procs, WriteProof(p) PROVE TypeInv'
  BY <1>7, ConstantsOK DEF WriteProof, Finish, Goto, TypeOK, LoadedInv, Loaded, Steps,
         files, memory
<1>8. ASSUME NEW p \in Procs, NEW d \in Dirs, DeriveSeeds(p, d) PROVE TypeInv'
  <2>1. plan[d] \in Planned /\ plan[d] \in Plan
    BY <1>8, PlannedFile DEF DeriveSeeds, Planned
  <2>2. TypeOK'
    BY <1>8, <2>1, StartType DEF DeriveSeeds, Start, Goto, TypeOK, Steps, files, memory
  <2>3. ASSUME NEW q \in Procs PROVE Loaded(q)'
    BY <1>8, <2>1 DEF DeriveSeeds, Start, Goto, TypeOK, LoadedInv, Loaded, files, memory
  <2>. QED BY <2>2, <2>3 DEF LoadedInv
<1>9. ASSUME NEW p \in Procs, RequireProof(p) PROVE TypeInv'
  BY <1>9, ConstantsOK DEF RequireProof, Goto, TypeOK, LoadedInv, Loaded, Steps, files,
         memory
<1>10. ASSUME NEW p \in Procs, NEW source \in Sources, FetchRound(p, source) PROVE TypeInv'
  BY <1>10, ConstantsOK DEF FetchRound, Goto, Seeds, Planned, Plan, TypeOK, LoadedInv,
         Loaded, Steps, files, memory
<1>11. ASSUME NEW p \in Procs, NEW d \in Dirs, WriteSeeds(p, d) PROVE TypeInv'
  BY <1>11, ConstantsOK DEF WriteSeeds, Finish, Goto, TypeOK, LoadedInv, Loaded, Steps,
         files, memory
<1>12. ASSUME NEW p \in Procs, CopyPlan(p) PROVE TypeInv'
  BY <1>12, ConstantsOK DEF CopyPlan, Goto, TypeOK, LoadedInv, Loaded, Steps, files, memory
<1>13. ASSUME NEW p \in Procs, CopyProof(p) PROVE TypeInv'
  BY <1>13, ConstantsOK DEF CopyProof, Goto, TypeOK, LoadedInv, Loaded, Steps, files, memory
<1>14. ASSUME NEW p \in Procs, NEW d \in Dirs, NEW index \in Indices, BindSeeds(p, d, index)
      PROVE  TypeInv'
  <2>1. /\ run' \in [Procs -> Run \cup {None}] /\ run'[p] \in Run
        /\ \A q \in Procs \ {p} : run'[q] = run[q]
    BY <1>14, BoundType DEF BindSeeds, LoadedInv, Loaded, TypeOK, Seeds
  <2>2. TypeOK'
    BY <1>14, <2>1, ConstantsOK DEF BindSeeds, Goto, TypeOK, Steps, files, memory
  <2>3. ASSUME NEW q \in Procs PROVE Loaded(q)'
    BY <1>14, <2>1 DEF BindSeeds, Goto, TypeOK, LoadedInv, Loaded, files, memory
  <2>. QED BY <2>2, <2>3 DEF LoadedInv
<1>15. ASSUME NEW p \in Procs, NEW d \in Dirs, NEW source \in Sources,
       NEW index \in Indices, BindFetched(p, d, source, index)
      PROVE  TypeInv'
  <2>1. /\ run' \in [Procs -> Run \cup {None}] /\ run'[p] \in Run
        /\ \A q \in Procs \ {p} : run'[q] = run[q]
    BY <1>15, BoundType DEF BindFetched, LoadedInv, Loaded, TypeOK, Planned, Plan
  <2>2. TypeOK'
    BY <1>15, <2>1, ConstantsOK DEF BindFetched, Goto, TypeOK, Steps, files, memory
  <2>3. ASSUME NEW q \in Procs PROVE Loaded(q)'
    BY <1>15, <2>1 DEF BindFetched, Goto, TypeOK, LoadedInv, Loaded, files, memory
  <2>. QED BY <2>2, <2>3 DEF LoadedInv
<1>16. ASSUME NEW p \in Procs, BindNothing(p) PROVE TypeInv'
  BY <1>16, ConstantsOK DEF BindNothing, Goto, TypeOK, LoadedInv, Loaded, Steps, files,
         memory
<1>17. ASSUME NEW p \in Procs, WriteRun(p) PROVE TypeInv'
  BY <1>17, ConstantsOK DEF WriteRun, Finish, Goto, TypeOK, LoadedInv, Loaded, Steps,
         files, memory
<1>18. ASSUME NEW p \in Procs, Verify(p) PROVE TypeInv'
  <2>1. plan[RunDir] \in Planned /\ plan[RunDir] \in Plan
    BY <1>18, PlannedFile, ConstantsOK DEF Verify, Planned
  <2>2. TypeOK'
    BY <1>18, <2>1 DEF Verify, Goto, TypeOK, Steps, files, memory
  <2>3. ASSUME NEW q \in Procs PROVE Loaded(q)'
    BY <1>18, <2>1 DEF Verify, Goto, TypeOK, LoadedInv, Loaded, files, memory
  <2>. QED BY <2>2, <2>3 DEF LoadedInv
<1>19. ASSUME NEW p \in Procs, PrintRung(p) PROVE TypeInv'
  <2>1. earned' \subseteq Earning
    <3>1. draft[p] \in Planned /\ run[p] \in Run
      BY <1>19 DEF PrintRung, LoadedInv, Loaded
    <3>2. CASE BeaconEarned(draft[p], run[p], proof[RunDir])
      <4>1. run[p].beacon.seed \in Seed
        BY <3>1, <3>2 DEF BeaconEarned, Run, Beacon
      <4>2. PrecommitOK(run[p]) \in BOOLEAN
        BY DEF PrecommitOK
      <4>3. [plan |-> draft[p], seed |-> run[p].beacon.seed,
              exit0 |-> PrecommitOK(run[p])] \in Earning
        BY <3>1, <4>1, <4>2 DEF Earning
      <4>. QED BY <1>19, <3>2, <4>3 DEF PrintRung, TypeOK
    <3>. QED BY <1>19, <3>2 DEF PrintRung, TypeOK
  <2>2. TypeOK'
    BY <1>19, <2>1 DEF PrintRung, Finish, Goto, TypeOK, Steps, files, memory
  <2>3. ASSUME NEW q \in Procs PROVE Loaded(q)'
    BY <1>19, <2>1 DEF PrintRung, Finish, Goto, TypeOK, LoadedInv, Loaded, files, memory
  <2>. QED BY <2>2, <2>3 DEF LoadedInv
<1>20. ASSUME NEW p \in Procs, Stop(p) PROVE TypeInv'
  BY <1>20, ConstantsOK DEF Stop, Finish, Goto, TypeOK, LoadedInv, Loaded, Steps, files,
         memory
<1>21. CASE Tick
  <2>1. TypeOK'
    BY <1>21 DEF Tick, files, memory, TypeOK
  <2>2. LoadedInv'
    BY <1>21 DEF Tick, files, memory, LoadedInv, Loaded
  <2>. QED BY <2>1, <2>2
<1>. QED BY <1>1, <1>2, <1>3, <1>4, <1>5, <1>6, <1>7, <1>8, <1>9, <1>10, <1>11, <1>12,
       <1>13, <1>14, <1>15, <1>16, <1>17, <1>18, <1>19, <1>20, <1>21 DEF Next

-----------------------------------------------------------------------------
(* Stamps: a calendar never forgets a plan. *)

LEMMA CommitsStamped ==
    ASSUME NEW d \in Dirs, NEW pl \in Planned, Commits(proof[d], pl), StampInv
    PROVE  Stamped(pl)
BY Sentinels DEF Commits, StampInv, Planned

LEMMA StampStep == TypeInv /\ StampInv /\ [Next]_vars => StampInv'
<1> SUFFICES ASSUME TypeInv, StampInv, [Next]_vars PROVE StampInv'
  OBVIOUS
<1>1. CASE UNCHANGED vars
  BY <1>1 DEF vars, files, memory, StampInv, Stamped, SeedsHeld
<1>2. ASSUME NEW p \in Procs, NEW d \in Dirs, NEW config \in Configs,
       Precommit(p, d, config)
      PROVE  StampInv'
  BY <1>2 DEF Precommit, Start, Goto, StampInv, Stamped, SeedsHeld, TypeInv, TypeOK,
         LoadedInv, Loaded, files, memory
<1>3. ASSUME NEW p \in Procs, NEW d \in Dirs, NEW config \in Configs,
       BuildManifest(p, d, config)
      PROVE  StampInv'
  BY <1>3 DEF BuildManifest, Start, Goto, StampInv, Stamped, SeedsHeld, TypeInv, TypeOK,
         LoadedInv, Loaded, files, memory
<1>4. ASSUME NEW p \in Procs, NEW latest \in Rounds, NEW delay \in Delays,
       PlanRound(p, latest, delay)
      PROVE  StampInv'
  BY <1>4 DEF PlanRound, Goto, StampInv, Stamped, SeedsHeld, TypeInv, TypeOK, LoadedInv,
         Loaded, files, memory
<1>5. ASSUME NEW p \in Procs, WritePlan(p) PROVE StampInv'
  BY <1>5 DEF WritePlan, Goto, StampInv, Stamped, SeedsHeld, TypeInv, TypeOK, LoadedInv,
         Loaded, files, memory
<1>6. ASSUME NEW p \in Procs, StampPlan(p) PROVE StampInv'
  <2>1. /\ \A pl : Stamped(pl) => Stamped(pl)'
        /\ \A t : SeedsHeld(t) => SeedsHeld(t)'
    BY <1>6 DEF StampPlan, Stamped, SeedsHeld
  <2>2. Stamped(draft[p])'
    <3>1. draft'[p] = draft[p] /\ [plan |-> draft[p], time |-> now] \in held'
      BY <1>6 DEF StampPlan, memory
    <3>2. [plan |-> draft[p], time |-> now].plan = draft[p]
      OBVIOUS
    <3>. QED BY <3>1, <3>2 DEF Stamped
  <2>. QED BY <1>6, <2>1, <2>2 DEF StampPlan, Goto, StampInv, TypeInv, TypeOK, files, memory
<1>7. ASSUME NEW p \in Procs, WriteProof(p) PROVE StampInv'
  BY <1>7 DEF WriteProof, Finish, Goto, StampInv, Stamped, SeedsHeld, TypeInv, TypeOK,
         LoadedInv, Loaded, files, memory
<1>8. ASSUME NEW p \in Procs, NEW d \in Dirs, DeriveSeeds(p, d) PROVE StampInv'
  BY <1>8 DEF DeriveSeeds, Start, Goto, StampInv, Stamped, SeedsHeld, TypeInv, TypeOK,
         LoadedInv, Loaded, files, memory
<1>9. ASSUME NEW p \in Procs, RequireProof(p) PROVE StampInv'
  <2>1. Stamped(draft[p])
    BY <1>9, CommitsStamped DEF RequireProof, TypeInv, LoadedInv, Loaded
  <2>. QED BY <1>9, <2>1 DEF RequireProof, Goto, StampInv, Stamped, SeedsHeld, TypeInv,
         TypeOK, files, memory
<1>10. ASSUME NEW p \in Procs, NEW source \in Sources, FetchRound(p, source) PROVE StampInv'
  BY <1>10 DEF FetchRound, Goto, StampInv, Stamped, SeedsHeld, TypeInv, TypeOK, LoadedInv,
         Loaded, files, memory
<1>11. ASSUME NEW p \in Procs, NEW d \in Dirs, WriteSeeds(p, d) PROVE StampInv'
  BY <1>11 DEF WriteSeeds, Finish, Goto, StampInv, Stamped, SeedsHeld, TypeInv, TypeOK,
         LoadedInv, Loaded, files, memory
<1>12. ASSUME NEW p \in Procs, CopyPlan(p) PROVE StampInv'
  BY <1>12 DEF CopyPlan, Goto, StampInv, Stamped, SeedsHeld, TypeInv, TypeOK, LoadedInv,
         Loaded, files, memory
<1>13. ASSUME NEW p \in Procs, CopyProof(p) PROVE StampInv'
  BY <1>13 DEF CopyProof, Goto, StampInv, Stamped, SeedsHeld, TypeInv, TypeOK, LoadedInv,
         Loaded, files, memory
<1>14. ASSUME NEW p \in Procs, NEW d \in Dirs, NEW index \in Indices, BindSeeds(p, d, index)
      PROVE  StampInv'
  BY <1>14 DEF BindSeeds, Goto, StampInv, Stamped, SeedsHeld, TypeInv, TypeOK, LoadedInv,
         Loaded, files, memory
<1>15. ASSUME NEW p \in Procs, NEW d \in Dirs, NEW source \in Sources,
       NEW index \in Indices, BindFetched(p, d, source, index)
      PROVE  StampInv'
  BY <1>15 DEF BindFetched, Goto, StampInv, Stamped, SeedsHeld, TypeInv, TypeOK, LoadedInv,
         Loaded, files, memory
<1>16. ASSUME NEW p \in Procs, BindNothing(p) PROVE StampInv'
  BY <1>16 DEF BindNothing, Goto, StampInv, Stamped, SeedsHeld, TypeInv, TypeOK, LoadedInv,
         Loaded, files, memory
<1>17. ASSUME NEW p \in Procs, WriteRun(p) PROVE StampInv'
  BY <1>17 DEF WriteRun, Finish, Goto, StampInv, Stamped, SeedsHeld, TypeInv, TypeOK,
         LoadedInv, Loaded, files, memory
<1>18. ASSUME NEW p \in Procs, Verify(p) PROVE StampInv'
  BY <1>18 DEF Verify, Goto, StampInv, Stamped, SeedsHeld, TypeInv, TypeOK, LoadedInv,
         Loaded, files, memory
<1>19. ASSUME NEW p \in Procs, PrintRung(p) PROVE StampInv'
  BY <1>19 DEF PrintRung, Finish, Goto, StampInv, Stamped, SeedsHeld, TypeInv, TypeOK,
         LoadedInv, Loaded, files, memory
<1>20. ASSUME NEW p \in Procs, Stop(p) PROVE StampInv'
  BY <1>20 DEF Stop, Finish, Goto, StampInv, Stamped, SeedsHeld, TypeInv, TypeOK,
         LoadedInv, Loaded, files, memory
<1>21. CASE Tick
  BY <1>21 DEF Tick, files, memory, StampInv, Stamped, SeedsHeld
<1>. QED BY <1>1, <1>2, <1>3, <1>4, <1>5, <1>6, <1>7, <1>8, <1>9, <1>10, <1>11, <1>12,
       <1>13, <1>14, <1>15, <1>16, <1>17, <1>18, <1>19, <1>20, <1>21 DEF Next

-----------------------------------------------------------------------------
(* Dates: whatever `latest` answered after the clock was read, the round   *)
(* more than Lag later was still to come.                                  *)

LEMMA NotLater == ASSUME NEW a \in Nat, NEW n \in Nat, a <= n PROVE a <= n + 1
OBVIOUS

LEMMA RoundTimeType == \A r \in Nat : RoundTime(r) \in Int
BY ConstantsOK DEF RoundTime

LEMMA RoundTimeMonotone ==
    ASSUME NEW r \in Nat, NEW s \in Nat, r <= s
    PROVE  RoundTime(r) <= RoundTime(s)
<1>1. PICK k \in Nat : s = r + k
  <2>. WITNESS s - r \in Nat
  <2>. QED OBVIOUS
<1>2. (s - 1) * Period = (r - 1) * Period + k * Period
  BY <1>1, ConstantsOK
<1>3. k * Period \in Nat
  BY ConstantsOK
<1>. QED BY <1>2, <1>3, RoundTimeType, ConstantsOK DEF RoundTime

LEMMA PlanRoundDated ==
    ASSUME NEW pl \in Plan, NEW latest \in Rounds, NEW delay \in Delays,
           MayBeLatest(latest), pl.created <= now, now \in Nat
    PROVE  Dated([pl EXCEPT !.minRound = latest + delay])
<1> SUFFICES ASSUME delay > Lag
    PROVE  pl.created < RoundTime(latest + delay)
  BY PlanRoundType DEF Dated
<1>1. /\ latest + 1 + Lag \in Nat /\ latest + delay \in Nat
      /\ latest + 1 + Lag <= latest + delay
  BY ConstantsOK DEF Rounds
<1>2. now < RoundTime(latest + 1 + Lag)
  BY DEF MayBeLatest
<1>3. RoundTime(latest + 1 + Lag) <= RoundTime(latest + delay)
  BY <1>1, RoundTimeMonotone
<1>4. /\ RoundTime(latest + 1 + Lag) \in Int /\ RoundTime(latest + delay) \in Int
      /\ pl.created \in Nat
  BY <1>1, RoundTimeType DEF Plan
<1>. QED BY <1>2, <1>3, <1>4

LEMMA DateStep == TypeInv /\ DateInv /\ [Next]_vars => DateInv'
<1> SUFFICES ASSUME TypeInv, DateInv, [Next]_vars PROVE DateInv'
  OBVIOUS
<1>1. CASE UNCHANGED vars
  BY <1>1 DEF vars, files, memory, DateInv
<1>2. ASSUME NEW p \in Procs, NEW d \in Dirs, NEW config \in Configs,
       Precommit(p, d, config)
      PROVE  DateInv'
  <2>1. draft'[p] = [config |-> config, created |-> now, minRound |-> 0] /\ now' = now
    BY <1>2 DEF Precommit, TypeInv, TypeOK
  <2>2. draft'[p].created = now /\ now <= now'
    BY <2>1 DEF TypeInv, TypeOK
  <2>. QED BY <1>2, <2>2 DEF Precommit, Start, Goto, DateInv, TypeInv, TypeOK, files, memory
<1>3. ASSUME NEW p \in Procs, NEW d \in Dirs, NEW config \in Configs,
       BuildManifest(p, d, config)
      PROVE  DateInv'
  BY <1>3 DEF BuildManifest, Start, Goto, DateInv, TypeInv, TypeOK, LoadedInv, Loaded,
         files, memory
<1>4. ASSUME NEW p \in Procs, NEW latest \in Rounds, NEW delay \in Delays,
       PlanRound(p, latest, delay)
      PROVE  DateInv'
  <2>1. Dated([draft[p] EXCEPT !.minRound = latest + delay])
    BY <1>4, PlanRoundDated DEF PlanRound, DateInv, TypeInv, TypeOK, LoadedInv, Loaded
  <2>. QED BY <1>4, <2>1 DEF PlanRound, Goto, DateInv, TypeInv, TypeOK, files, memory
<1>5. ASSUME NEW p \in Procs, WritePlan(p) PROVE DateInv'
  BY <1>5 DEF WritePlan, Goto, DateInv, TypeInv, TypeOK, LoadedInv, Loaded, files, memory
<1>6. ASSUME NEW p \in Procs, StampPlan(p) PROVE DateInv'
  BY <1>6 DEF StampPlan, Goto, DateInv, TypeInv, TypeOK, LoadedInv, Loaded, files, memory
<1>7. ASSUME NEW p \in Procs, WriteProof(p) PROVE DateInv'
  BY <1>7 DEF WriteProof, Finish, Goto, DateInv, TypeInv, TypeOK, LoadedInv, Loaded, files,
         memory
<1>8. ASSUME NEW p \in Procs, NEW d \in Dirs, DeriveSeeds(p, d) PROVE DateInv'
  BY <1>8 DEF DeriveSeeds, Start, Goto, DateInv, TypeInv, TypeOK, LoadedInv, Loaded, files,
         memory
<1>9. ASSUME NEW p \in Procs, RequireProof(p) PROVE DateInv'
  BY <1>9 DEF RequireProof, Goto, DateInv, TypeInv, TypeOK, LoadedInv, Loaded, files, memory
<1>10. ASSUME NEW p \in Procs, NEW source \in Sources, FetchRound(p, source) PROVE DateInv'
  BY <1>10 DEF FetchRound, Goto, DateInv, TypeInv, TypeOK, LoadedInv, Loaded, files, memory
<1>11. ASSUME NEW p \in Procs, NEW d \in Dirs, WriteSeeds(p, d) PROVE DateInv'
  BY <1>11 DEF WriteSeeds, Finish, Goto, DateInv, TypeInv, TypeOK, LoadedInv, Loaded,
         files, memory
<1>12. ASSUME NEW p \in Procs, CopyPlan(p) PROVE DateInv'
  BY <1>12 DEF CopyPlan, Goto, DateInv, TypeInv, TypeOK, LoadedInv, Loaded, files, memory
<1>13. ASSUME NEW p \in Procs, CopyProof(p) PROVE DateInv'
  BY <1>13 DEF CopyProof, Goto, DateInv, TypeInv, TypeOK, LoadedInv, Loaded, files, memory
<1>14. ASSUME NEW p \in Procs, NEW d \in Dirs, NEW index \in Indices, BindSeeds(p, d, index)
      PROVE  DateInv'
  BY <1>14 DEF BindSeeds, Goto, DateInv, TypeInv, TypeOK, LoadedInv, Loaded, files, memory
<1>15. ASSUME NEW p \in Procs, NEW d \in Dirs, NEW source \in Sources,
       NEW index \in Indices, BindFetched(p, d, source, index)
      PROVE  DateInv'
  BY <1>15 DEF BindFetched, Goto, DateInv, TypeInv, TypeOK, LoadedInv, Loaded, files, memory
<1>16. ASSUME NEW p \in Procs, BindNothing(p) PROVE DateInv'
  BY <1>16 DEF BindNothing, Goto, DateInv, TypeInv, TypeOK, LoadedInv, Loaded, files, memory
<1>17. ASSUME NEW p \in Procs, WriteRun(p) PROVE DateInv'
  BY <1>17 DEF WriteRun, Finish, Goto, DateInv, TypeInv, TypeOK, LoadedInv, Loaded, files,
         memory
<1>18. ASSUME NEW p \in Procs, Verify(p) PROVE DateInv'
  BY <1>18 DEF Verify, Goto, DateInv, TypeInv, TypeOK, LoadedInv, Loaded, files, memory
<1>19. ASSUME NEW p \in Procs, PrintRung(p) PROVE DateInv'
  BY <1>19 DEF PrintRung, Finish, Goto, DateInv, TypeInv, TypeOK, LoadedInv, Loaded, files,
         memory
<1>20. ASSUME NEW p \in Procs, Stop(p) PROVE DateInv'
  BY <1>20 DEF Stop, Finish, Goto, DateInv, TypeInv, TypeOK, LoadedInv, Loaded, files,
         memory
<1>21. CASE Tick
  <2>1. \A p \in Procs : pc[p] = "plan round" => draft[p].created <= now + 1
    <3> SUFFICES ASSUME NEW p \in Procs, pc[p] = "plan round"
        PROVE  draft[p].created <= now + 1
      OBVIOUS
    <3>1. draft[p] \in Plan /\ now \in Nat
      BY DEF TypeInv, TypeOK, LoadedInv, Loaded
    <3>2. draft[p].created \in Nat /\ draft[p].created <= now
      BY <3>1 DEF DateInv, Plan
    <3>. QED BY <3>1, <3>2, NotLater
  <2>. QED BY <1>21, <2>1 DEF Tick, DateInv, files, memory
<1>. QED BY <1>1, <1>2, <1>3, <1>4, <1>5, <1>6, <1>7, <1>8, <1>9, <1>10, <1>11, <1>12,
       <1>13, <1>14, <1>15, <1>16, <1>17, <1>18, <1>19, <1>20, <1>21 DEF Next

-----------------------------------------------------------------------------
(* The round of a record is the one its plan named. *)

LEMMA RoundStep == TypeInv /\ RoundInv /\ [Next]_vars => RoundInv'
<1> SUFFICES ASSUME TypeInv, RoundInv, [Next]_vars PROVE RoundInv'
  OBVIOUS
<1>1. CASE UNCHANGED vars
  BY <1>1 DEF vars, files, memory, RoundInv, OwnRound
<1>2. ASSUME NEW p \in Procs, NEW d \in Dirs, NEW config \in Configs,
       Precommit(p, d, config)
      PROVE  RoundInv'
  BY <1>2 DEF Precommit, Start, Goto, RoundInv, OwnRound, TypeInv, TypeOK, LoadedInv,
         Loaded, files, memory
<1>3. ASSUME NEW p \in Procs, NEW d \in Dirs, NEW config \in Configs,
       BuildManifest(p, d, config)
      PROVE  RoundInv'
  BY <1>3 DEF BuildManifest, Start, Goto, RoundInv, OwnRound, TypeInv, TypeOK, LoadedInv,
         Loaded, files, memory
<1>4. ASSUME NEW p \in Procs, NEW latest \in Rounds, NEW delay \in Delays,
       PlanRound(p, latest, delay)
      PROVE  RoundInv'
  BY <1>4 DEF PlanRound, Goto, RoundInv, OwnRound, TypeInv, TypeOK, LoadedInv, Loaded,
         files, memory
<1>5. ASSUME NEW p \in Procs, WritePlan(p) PROVE RoundInv'
  BY <1>5 DEF WritePlan, Goto, RoundInv, OwnRound, TypeInv, TypeOK, LoadedInv, Loaded,
         files, memory
<1>6. ASSUME NEW p \in Procs, StampPlan(p) PROVE RoundInv'
  BY <1>6 DEF StampPlan, Goto, RoundInv, OwnRound, TypeInv, TypeOK, LoadedInv, Loaded,
         files, memory
<1>7. ASSUME NEW p \in Procs, WriteProof(p) PROVE RoundInv'
  BY <1>7 DEF WriteProof, Finish, Goto, RoundInv, OwnRound, TypeInv, TypeOK, LoadedInv,
         Loaded, files, memory
<1>8. ASSUME NEW p \in Procs, NEW d \in Dirs, DeriveSeeds(p, d) PROVE RoundInv'
  BY <1>8 DEF DeriveSeeds, Start, Goto, RoundInv, OwnRound, TypeInv, TypeOK, LoadedInv,
         Loaded, files, memory
<1>9. ASSUME NEW p \in Procs, RequireProof(p) PROVE RoundInv'
  BY <1>9 DEF RequireProof, Goto, RoundInv, OwnRound, TypeInv, TypeOK, LoadedInv, Loaded,
         files, memory
<1>10. ASSUME NEW p \in Procs, NEW source \in Sources, FetchRound(p, source) PROVE RoundInv'
  BY <1>10 DEF FetchRound, Goto, RoundInv, OwnRound, TypeInv, TypeOK, LoadedInv, Loaded,
         files, memory
<1>11. ASSUME NEW p \in Procs, NEW d \in Dirs, WriteSeeds(p, d) PROVE RoundInv'
  BY <1>11 DEF WriteSeeds, Finish, Goto, RoundInv, OwnRound, TypeInv, TypeOK, LoadedInv,
         Loaded, files, memory
<1>12. ASSUME NEW p \in Procs, CopyPlan(p) PROVE RoundInv'
  BY <1>12 DEF CopyPlan, Goto, RoundInv, OwnRound, TypeInv, TypeOK, LoadedInv, Loaded,
         files, memory
<1>13. ASSUME NEW p \in Procs, CopyProof(p) PROVE RoundInv'
  BY <1>13 DEF CopyProof, Goto, RoundInv, OwnRound, TypeInv, TypeOK, LoadedInv, Loaded,
         files, memory
<1>14. ASSUME NEW p \in Procs, NEW d \in Dirs, NEW index \in Indices, BindSeeds(p, d, index)
      PROVE  RoundInv'
  <2>1. run[p] \in Run /\ draft[p] \in Planned
    BY <1>14 DEF BindSeeds, TypeInv, LoadedInv, Loaded
  <2>2. OwnRound(run[p])'
    BY <1>14, <2>1, BoundType DEF BindSeeds, RoundInv, OwnRound, TypeInv, TypeOK, Seeds
  <2>. QED BY <1>14, <2>2 DEF BindSeeds, Bound, Goto, RoundInv, OwnRound, TypeInv, TypeOK
<1>15. ASSUME NEW p \in Procs, NEW d \in Dirs, NEW source \in Sources,
       NEW index \in Indices, BindFetched(p, d, source, index)
      PROVE  RoundInv'
  <2>1. run[p] \in Run /\ draft[p] \in Planned
    BY <1>15 DEF BindFetched, TypeInv, LoadedInv, Loaded
  <2>2. OwnRound(run[p])'
    BY <1>15, <2>1, BoundType DEF BindFetched, RoundInv, OwnRound, Planned, Plan
  <2>. QED BY <1>15, <2>2 DEF BindFetched, Bound, Goto, RoundInv, OwnRound, TypeInv,
         TypeOK, files
<1>16. ASSUME NEW p \in Procs, BindNothing(p) PROVE RoundInv'
  BY <1>16 DEF BindNothing, Goto, RoundInv, OwnRound, TypeInv, TypeOK, LoadedInv, Loaded,
         files, memory
<1>17. ASSUME NEW p \in Procs, WriteRun(p) PROVE RoundInv'
  BY <1>17 DEF WriteRun, Finish, Goto, RoundInv, OwnRound, TypeInv, TypeOK, LoadedInv,
         Loaded, files, memory
<1>18. ASSUME NEW p \in Procs, Verify(p) PROVE RoundInv'
  BY <1>18 DEF Verify, Goto, RoundInv, OwnRound, TypeInv, TypeOK, LoadedInv, Loaded, files,
         memory
<1>19. ASSUME NEW p \in Procs, PrintRung(p) PROVE RoundInv'
  BY <1>19 DEF PrintRung, Finish, Goto, RoundInv, OwnRound, TypeInv, TypeOK, LoadedInv,
         Loaded, files, memory
<1>20. ASSUME NEW p \in Procs, Stop(p) PROVE RoundInv'
  BY <1>20 DEF Stop, Finish, Goto, RoundInv, OwnRound, TypeInv, TypeOK, LoadedInv, Loaded,
         files, memory
<1>21. CASE Tick
  BY <1>21 DEF Tick, files, memory, RoundInv, OwnRound
<1>. QED BY <1>1, <1>2, <1>3, <1>4, <1>5, <1>6, <1>7, <1>8, <1>9, <1>10, <1>11, <1>12,
       <1>13, <1>14, <1>15, <1>16, <1>17, <1>18, <1>19, <1>20, <1>21 DEF Next

-----------------------------------------------------------------------------
(* What verify printed stays justified: stamps and rounds do not go away,  *)
(* and an L2 with exit code 0 leaves no freedom in the seed.               *)

LEMMA EarnedJustified ==
    ASSUME TypeInv, StampInv, NEW p \in Procs, pc[p] = "verify",
           BeaconEarned(draft[p], run[p], proof[RunDir])
    PROVE  Justified([plan |-> draft[p], seed |-> run[p].beacon.seed,
                      exit0 |-> PrecommitOK(run[p])])
<1>1. draft[p] \in Planned /\ run[p] \in Run
  BY DEF TypeInv, LoadedInv, Loaded
<1>2. Stamped(draft[p])
  BY <1>1, CommitsStamped, ConstantsOK DEF BeaconEarned
<1>3. /\ Published(draft[p].minRound)
      /\ run[p].beacon.seed = DeriveSeed(run[p].config, draft[p].minRound, "drand",
                                         run[p].beacon.index)
  BY DEF BeaconEarned, RandomnessOK
<1>4. run[p].beacon.seed.index = run[p].beacon.index
  BY <1>3 DEF DeriveSeed
<1>5. PrecommitOK(run[p]) => run[p].config = draft[p].config
  BY DEF PrecommitOK, BeaconEarned
<1>. QED BY <1>2, <1>3, <1>4, <1>5 DEF Justified

LEMMA EarnedStep == TypeInv /\ StampInv /\ EarnedInv /\ [Next]_vars => EarnedInv'
<1> SUFFICES ASSUME TypeInv, StampInv, EarnedInv, [Next]_vars PROVE EarnedInv'
  OBVIOUS
<1>1. ASSUME held \subseteq held', now' >= now PROVE \A e \in earned : Justified(e)'
  <2> SUFFICES ASSUME NEW e \in earned PROVE Justified(e)'
    OBVIOUS
  <2>1. Justified(e) /\ e.plan.minRound \in Nat
    BY DEF EarnedInv, TypeInv, TypeOK, Earning, Planned, Plan
  <2>2. Stamped(e.plan)'
    BY <1>1, <2>1 DEF Justified, Stamped
  <2>3. RoundTime(e.plan.minRound) <= now /\ RoundTime(e.plan.minRound) \in Int
    BY <2>1, RoundTimeType DEF Justified, Published
  <2>4. now \in Nat /\ now' \in Nat
    BY TypeStep DEF TypeInv, TypeOK
  <2>5. Published(e.plan.minRound)'
    BY <1>1, <2>1, <2>3, <2>4 DEF Justified, Published
  <2>. QED BY <2>1, <2>2, <2>5 DEF Justified
<1>2. held \subseteq held' /\ now' >= now
  <2>1. now \in Nat
    BY DEF TypeInv, TypeOK
  <2>2. CASE Tick
    BY <2>1, <2>2 DEF Tick
  <2>3. CASE \E p \in Procs : StampPlan(p)
    <3>1. held \subseteq held' /\ now' = now
      BY <2>3 DEF StampPlan
    <3>. QED BY <2>1, <3>1
  <2>4. CASE ~Tick /\ ~\E p \in Procs : StampPlan(p)
    <3>1. UNCHANGED <<held, now>>
      BY <2>4 DEF Next, vars, Precommit, BuildManifest, PlanRound, WritePlan, WriteProof,
             DeriveSeeds, RequireProof, FetchRound, WriteSeeds, CopyPlan, CopyProof,
             BindSeeds, BindFetched, BindNothing, WriteRun, Verify, PrintRung, Stop
    <3>. QED BY <2>1, <3>1
  <2>. QED BY <2>2, <2>3, <2>4
<1>3. CASE \E p \in Procs : PrintRung(p)
  <2>1. PICK p \in Procs : PrintRung(p)
    BY <1>3
  <2>2. CASE BeaconEarned(draft[p], run[p], proof[RunDir])
    <3>1. PICK e : e = [plan |-> draft[p], seed |-> run[p].beacon.seed,
                       exit0 |-> PrecommitOK(run[p])]
      OBVIOUS
    <3>2. Justified(e)
      BY <2>1, <2>2, <3>1, EarnedJustified DEF PrintRung
    <3>3. Justified(e)'
      BY <2>1, <3>2 DEF PrintRung, Justified, Stamped, Published
    <3>4. earned' = earned \cup {e}
      BY <2>1, <2>2, <3>1 DEF PrintRung
    <3>. QED BY <1>1, <1>2, <3>3, <3>4 DEF EarnedInv
  <2>3. CASE ~BeaconEarned(draft[p], run[p], proof[RunDir])
    BY <1>1, <1>2, <2>1, <2>3 DEF PrintRung, EarnedInv
  <2>. QED BY <2>2, <2>3
<1>4. CASE ~\E p \in Procs : PrintRung(p)
  <2>1. UNCHANGED earned
    BY <1>4 DEF Next, vars, Precommit, BuildManifest, PlanRound, WritePlan, StampPlan,
           WriteProof, DeriveSeeds, RequireProof, FetchRound, WriteSeeds, CopyPlan,
           CopyProof, BindSeeds, BindFetched, BindNothing, WriteRun, Verify, Stop, Tick
  <2>. QED BY <1>1, <1>2, <2>1 DEF EarnedInv
<1>. QED BY <1>3, <1>4

-----------------------------------------------------------------------------
(* The theorems. *)

(* IInv holds in every reachable state: the facts below, of the files and  *)
(* of what every invocation holds in memory.                               *)
THEOREM Inductive == Spec => []IInv
<1>1. Init => IInv
  <2> SUFFICES ASSUME Init PROVE IInv
    OBVIOUS
  <2>1. TypeInv
    BY TypeInit
  <2>. QED BY <2>1 DEF Init, IInv, StampInv, DateInv, RoundInv, EarnedInv
<1>2. IInv /\ [Next]_vars => IInv'
  BY TypeStep, StampStep, DateStep, RoundStep, EarnedStep DEF IInv
<1>. QED BY <1>1, <1>2, PTL DEF Spec

(* Every variable keeps its type, whichever commands run side by side.     *)
THEOREM TypeCorrect == Spec => []TypeOK
<1>1. IInv => TypeOK
  BY DEF IInv, TypeInv
<1>. QED BY <1>1, Inductive, PTL

(* derive-seeds never writes seeds of a plan no calendar took              *)
(* (require_precommit_proof), for any interleaving.                        *)
THEOREM SeedsStamped == Spec => []SeedsAfterStamp
<1>1. IInv => SeedsAfterStamp
  BY DEF IInv, StampInv, SeedsHeld, SeedsAfterStamp
<1>. QED BY <1>1, Inductive, PTL

(* build_precommit never dates a plan after its round, for any period,     *)
(* delay and lag with every delay above the lag.                           *)
THEOREM DatesCorrect == Spec => []DatedBeforeRound
<1>1. IInv => DatedBeforeRound
  BY DEF IInv, DateInv, Dated, DatedBeforeRound
<1>. QED BY <1>1, Inductive, PTL

(* A record is bound to the round its own plan named (bind_run_seed).      *)
THEOREM RoundCorrect == Spec => []SeedOfPlan
<1>1. IInv => SeedOfPlan
  BY DEF IInv, RoundInv, OwnRound, SeedOfPlan
<1>. QED BY <1>1, Inductive, PTL

(* L2 is printed only for a plan a calendar took, when its round is out    *)
(* (verify_beacon_binding).                                                *)
THEOREM RungStamped == Spec => []L2PlanStamped
<1>1. IInv => L2PlanStamped
  BY DEF IInv, EarnedInv, Justified, L2PlanStamped
<1>. QED BY <1>1, Inductive, PTL

(* A plan and an index earn L2 with exit code 0 for one seed only: the     *)
(* seed cannot be ground after the plan.                                   *)
THEOREM SeedNotGrindable == Spec => []OneSeedPerPlan
<1>1. IInv => OneSeedPerPlan
  BY DEF IInv, EarnedInv, Justified, OneSeedPerPlan, Shopped
<1>. QED BY <1>1, Inductive, PTL

=============================================================================
