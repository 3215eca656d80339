----------------------- MODULE BrowserSessionsProofs -----------------------
(***************************************************************************)
(* Proofs about BrowserSessions for every set of sessions, clients and     *)
(* profiles, and any bounds.                                               *)
(***************************************************************************)
EXTENDS BrowserSessions, TLAPS

-----------------------------------------------------------------------------
(* The inductive invariant.                                                *)

Over(s) == call[s].pc = "over"

(* A start between its lock and the return of that lock.                   *)
Opened == {"launch", "ready", "kill", "abandon"}
Disposals == {"terminate", "remove", "release", "forget"}

(* The sessions a call reconciles were registered before, so that their    *)
(* starts are over, and a session it drops does not come back.             *)
Reconciles(a) ==
    /\ \A s \in call[a].left : Over(s)
    /\ call[a].dead # Nobody => call[a].pc \in {"unlock", "sweep"}
    /\ call[a].pc \in {"unlock", "sweep"} =>
          call[a].dead \in Sessions \ sessions /\ Over(call[a].dead)
    /\ call[a].pc = "sweep" => lock[profile[call[a].dead]] # call[a].dead

(* What a disposal has reached stays so: browser, directory, lock.         *)
Disposes(a) ==
    /\ call[a].pc \in Disposals => call[a].target \in Sessions /\ Over(call[a].target)
    /\ call[a].pc \in Disposals \ {"terminate"} => call[a].target \notin running
    /\ call[a].pc \in {"release", "forget"} => directory[call[a].target] # "present"
    /\ call[a].pc = "forget" => lock[profile[call[a].target]] # call[a].target

(* The locks that starts and deletions hold.                               *)
Owns(a) ==
    /\ a \in Sessions /\ call[a].pc \in Opened => lock[profile[a]] = a
    /\ call[a].pc = "maintain" => call[a].target \in Profiles /\ lock[call[a].target] = a

Aims(a) ==
    /\ call[a].op = "delete" => call[a].target \in Profiles
    /\ call[a].op \in {"snapshot", "act"} => call[a].target \in Sessions

Good(a) == Reconciles(a) /\ Disposes(a) /\ Owns(a) /\ Aims(a)

(* The records, locks and directories.                                     *)
Records ==
    /\ \A s \in sessions : Over(s)
    /\ \A s \in Sessions, p \in AllProfiles :
          lock[p] = s => p = profile[s] /\ call[s].pc \in Opened \cup {"over"}
    /\ \A s \in Sessions :
          directory[s] = "present" =>
             profile[s] = s /\ call[s].pc \in Opened \cup {"lock", "clean", "over"}
    /\ RegisteredOwnsProfile
    /\ NothingOrphaned

Sound == (\A a \in Actors : Good(a)) /\ Records

(* A call that holds an observation it took out of the unused ones.        *)
Holds(a) == call[a].pc \in {"check", "act"}

(* Each observation issued is unused, held by one call, or spent.          *)
Observed ==
    /\ \A o \in observations : o.id \in 1 .. issued /\ acted[o.id] = 0
    /\ \A o, q \in observations : o.id = q.id => o = q
    /\ \A a \in Actors :
          Holds(a) =>
             /\ call[a].seen.id \in 1 .. issued /\ acted[call[a].seen.id] = 0
             /\ \A o \in observations : o.id # call[a].seen.id
    /\ \A a, b \in Actors : Holds(a) /\ Holds(b) /\ a # b => call[a].seen.id # call[b].seen.id
    /\ \A o \in Ids : acted[o] <= 1 /\ (o > issued => acted[o] = 0)

IInv == TypeOK /\ Sound /\ Observed

-----------------------------------------------------------------------------
(* How the calls change.                                                   *)

(* All calls but the one of a are left alone.                              *)
OnlyCall(a) == call' \in [Actors -> Call] /\ \A b \in Actors \ {a} : call'[b] = call[b]

LEMMA IdleCall ==
    ASSUME BrowserAssumption
    PROVE  Idle \in Call /\ NoObservation \in Seen /\ \A x \in Places : [Idle EXCEPT !.pc = x] \in Call
<1>1. NoObservation \in Seen
  BY DEF BrowserAssumption, NoObservation, Seen
<1>2. Idle \in Call
  BY <1>1 DEF Idle, Begun, Call, Places
<1>3. QED
  BY <1>1, <1>2 DEF Call

LEMMA BegunCall ==
    ASSUME BrowserAssumption, NEW op \in Chained \cup Unchained \cup {Nobody},
           NEW x \in Places, NEW left \in SUBSET Sessions,
           NEW t \in Sessions \cup Profiles \cup {Nobody}
    PROVE  Begun(op, x, left, t) \in Call
  BY IdleCall DEF Begun, Call

LEMMA StepCall ==
    ASSUME call \in [Actors -> Call], NEW a \in Actors, NEW x \in Places, Step(a, x)
    PROVE  /\ OnlyCall(a) /\ call'[a].pc = x
           /\ call'[a].op = call[a].op /\ call'[a].left = call[a].left
           /\ call'[a].target = call[a].target /\ call'[a].dead = call[a].dead
           /\ call'[a].seen = call[a].seen
  BY DEF Step, OnlyCall, Call

LEMMA ReturnCall ==
    ASSUME BrowserAssumption, call \in [Actors -> Call], NEW a \in Actors, Return(a)
    PROVE  /\ OnlyCall(a) /\ call'[a].pc = IF a \in Sessions \cup {Closer} THEN "over" ELSE "idle"
           /\ call'[a].op = Nobody /\ call'[a].left = {}
           /\ call'[a].target = Nobody /\ call'[a].dead = Nobody
           /\ chain' = IF chain = a THEN Nobody ELSE chain
<1>1. [Idle EXCEPT !.pc = "over"] \in Call
  BY IdleCall DEF Places
<1>2. QED
  BY <1>1, IdleCall DEF Return, OnlyCall, Idle, Begun

-----------------------------------------------------------------------------
(* What other calls rely on, and what stays true of the records.           *)

(* A step of a that gives nothing to a start that is over and takes no     *)
(* lock from another call.                                                 *)
Harmless(a) ==
    /\ \A s \in Sessions : Over(s) => call'[s].pc = "over" /\ profile'[s] = profile[s]
    /\ \A s \in Sessions \ {a} : profile'[s] = profile[s]
    /\ \A s \in sessions' : s \in sessions \/ ~Over(s)
    /\ \A s \in running' : s \in running \/ ~Over(s)
    /\ \A s \in Sessions, p \in AllProfiles : Over(s) /\ lock'[p] = s => lock[p] = s
    /\ \A s \in Sessions : Over(s) /\ directory'[s] = "present" => directory[s] = "present"
    /\ \A b \in Actors \ {a}, p \in AllProfiles : ~Over(b) /\ lock[p] = b => lock'[p] = b

LEMMA Bystander ==
    ASSUME BrowserAssumption, TypeOK, TypeOK', Sound, NEW a \in Actors, Harmless(a),
           NEW b \in Actors \ {a}, call'[b] = call[b]
    PROVE  Good(b)'
<1>1. Good(b)
  BY DEF Sound
<1>2. /\ call[b].left \subseteq Sessions /\ profile \in [Sessions -> AllProfiles]
      /\ running' \subseteq Sessions
  BY DEF TypeOK, Call
<1>3. Reconciles(b)'
  <2>1. \A s \in call[b].left : call'[s].pc = "over"
    BY <1>1, <1>2 DEF Good, Reconciles, Harmless, Over
  <2>2. CASE call[b].pc \in {"unlock", "sweep"}
    <3> DEFINE s == call[b].dead
    <3>1. s \in Sessions \ sessions /\ Over(s)
      BY <1>1, <2>2 DEF Good, Reconciles
    <3>2. s \notin sessions' /\ call'[s].pc = "over" /\ profile'[s] = profile[s]
      BY <3>1 DEF Harmless
    <3>3. lock'[profile[s]] = s => lock[profile[s]] = s
      BY <3>1, <1>2 DEF Harmless
    <3>4. QED
      BY <2>1, <2>2, <3>1, <3>2, <3>3, <1>1 DEF Good, Reconciles, Over
  <2>3. CASE call[b].pc \notin {"unlock", "sweep"}
    BY <2>1, <2>3, <1>1 DEF Good, Reconciles, Over
  <2>4. QED
    BY <2>2, <2>3
<1>4. Disposes(b)'
  <2>1. CASE call[b].pc \in Disposals
    <3> DEFINE s == call[b].target
    <3>1. s \in Sessions /\ Over(s)
      BY <1>1, <2>1 DEF Good, Disposes
    <3>2. call'[s].pc = "over" /\ profile'[s] = profile[s]
      BY <3>1 DEF Harmless
    <3>3. lock'[profile[s]] = s => lock[profile[s]] = s
      BY <3>1, <1>2 DEF Harmless
    <3>4. /\ s \in running' => s \in running
          /\ directory'[s] = "present" => directory[s] = "present"
      BY <3>1 DEF Harmless
    <3>5. QED
      BY <3>1, <3>2, <3>3, <3>4, <1>1 DEF Good, Disposes, Over
  <2>2. CASE call[b].pc \notin Disposals
    BY <2>2 DEF Disposes, Disposals
  <2>3. QED
    BY <2>1, <2>2
<1>5. Owns(b)'
  <2>1. ASSUME b \in Sessions, call[b].pc \in Opened PROVE lock'[profile'[b]] = b
    <3>1. lock[profile[b]] = b /\ ~Over(b)
      BY <1>1, <2>1 DEF Good, Owns, Over, Opened
    <3>2. QED
      BY <2>1, <3>1, <1>2 DEF Harmless
  <2>2. ASSUME call[b].pc = "maintain"
        PROVE  call[b].target \in Profiles /\ lock'[call[b].target] = b
    <3>1. call[b].target \in Profiles /\ lock[call[b].target] = b /\ ~Over(b)
      BY <1>1, <2>2 DEF Good, Owns, Over
    <3>2. QED
      BY <3>1 DEF Harmless, AllProfiles
  <2>3. QED
    BY <2>1, <2>2 DEF Owns
<1>6. Aims(b)'
  BY <1>1 DEF Good, Aims
<1>7. QED
  BY <1>3, <1>4, <1>5, <1>6 DEF Good

(* A step of a that leaves locks, directories and records as they are, and *)
(* is not the end of a start.                                              *)
LEMMA LocalStep ==
    ASSUME BrowserAssumption, TypeOK, TypeOK', Sound, NEW a \in Actors, OnlyCall(a),
           sessions' = sessions, profile' = profile, lock' = lock, directory' = directory,
           running' \subseteq running,
           call'[a].dead = call[a].dead,
           a \in Sessions =>
              /\ call[a].pc \notin {"over", "lock", "clean"}
              /\ call[a].pc \in Opened =>
                    call'[a].pc \in Opened /\ call'[a].op = call[a].op,
           Good(a)'
    PROVE  Sound'
<1>1. \A b \in Actors \ {a} : call'[b] = call[b]
  BY DEF OnlyCall
<1>2. \A s \in Sessions : Over(s) => call'[s].pc = "over"
  BY <1>1 DEF Over, Actors
<1>3. Harmless(a)
  BY <1>2 DEF Harmless, TypeOK
<1>4. \A b \in Actors : Good(b)'
  BY <1>1, <1>3, Bystander
<1>5. \A s \in Sessions :
         /\ call[s].pc \in Opened => call'[s].pc \in Opened /\ call'[s].op = call[s].op
         /\ call[s].pc \in Opened \cup {"over"} => call'[s].pc \in Opened \cup {"over"}
         /\ call[s].pc \in Opened \cup {"lock", "clean", "over"} =>
               call'[s].pc \in Opened \cup {"lock", "clean", "over"} /\ call'[s].op = call[s].op
  BY <1>1 DEF Actors
<1>6. Records
  BY DEF Sound
<1>7. (\A s \in sessions : Over(s))'
  BY <1>2, <1>6 DEF Records, TypeOK, Over
<1>8. /\ \A s \in Sessions, p \in AllProfiles :
            lock'[p] = s => p = profile'[s] /\ call'[s].pc \in Opened \cup {"over"}
      /\ \A s \in Sessions :
            directory'[s] = "present" =>
               profile'[s] = s /\ call'[s].pc \in Opened \cup {"lock", "clean", "over"}
  BY <1>5, <1>6 DEF Records
<1>9. RegisteredOwnsProfile'
  BY <1>6 DEF Records, RegisteredOwnsProfile
<1>10. NothingOrphaned'
  <2>1. SUFFICES ASSUME NEW s \in Sessions, lock[profile[s]] = s \/ directory[s] = "present"
                 PROVE  Attended(s)'
    BY DEF NothingOrphaned
  <2>2. Attended(s)
    BY <1>6, <2>1 DEF Records, NothingOrphaned
  <2>3. profile[s] \in AllProfiles
    BY DEF TypeOK
  <2>4. call[s].pc \in Opened \cup {"lock", "clean", "over"}
    BY <1>6, <2>1, <2>3 DEF Records
  <2>5. call'[s].op = call[s].op
    BY <1>5, <2>4
  <2>6. \A b \in Actors : call'[b].dead = call[b].dead
    BY <1>1
  <2>7. QED
    BY <2>2, <2>5, <2>6 DEF Attended
<1>11. QED
  BY <1>4, <1>7, <1>8, <1>9, <1>10 DEF Sound, Records

(* A step that changes no call, and ends browsers at most.                 *)
LEMMA FrameStep ==
    ASSUME Sound, call' = call, sessions' = sessions, profile' = profile, lock' = lock,
           directory' = directory, running' \subseteq running
    PROVE  Sound'
<1>1. \A a \in Actors : Good(a)'
  BY DEF Sound, Good, Reconciles, Disposes, Owns, Aims, Over
<1>2. Records'
  BY DEF Sound, Records, RegisteredOwnsProfile, NothingOrphaned, Attended, Over
<1>3. QED
  BY <1>1, <1>2 DEF Sound

(* A step of a that only takes locks, directories and registrations away,  *)
(* and leaves none behind that nobody answers for.                         *)
LEMMA ShrinkStep ==
    ASSUME BrowserAssumption, TypeOK, TypeOK', Sound, NEW a \in Actors, OnlyCall(a), Good(a)',
           sessions' \subseteq sessions, profile' = profile, running' = running,
           \A s \in Sessions, p \in AllProfiles : lock'[p] = s => lock[p] = s,
           \A b \in Actors \ {a}, p \in AllProfiles : ~Over(b) /\ lock[p] = b => lock'[p] = b,
           \A s \in Sessions : directory'[s] = "present" => directory[s] = "present",
           \A s \in sessions' \cap running : lock'[profile[s]] = s,
           a \in Sessions => call[a].pc \notin Opened \cup {"lock", "clean", "over"},
           \A s \in Sessions :
              lock'[profile[s]] = s \/ directory'[s] = "present" =>
                 /\ s \in sessions => s \in sessions' \/ call'[a].dead = s
                 /\ call[a].dead = s => s \in sessions' \/ call'[a].dead = s
    PROVE  Sound'
<1>1. \A b \in Actors \ {a} : call'[b] = call[b]
  BY DEF OnlyCall
<1>2. \A s \in Sessions : Over(s) => call'[s].pc = "over"
  BY <1>1 DEF Over, Actors
<1>3. Harmless(a)
  BY <1>2 DEF Harmless, TypeOK
<1>4. \A b \in Actors : Good(b)'
  BY <1>1, <1>3, Bystander
<1>5. Records
  BY DEF Sound
<1>6. (\A s \in sessions : Over(s))'
  BY <1>2, <1>5 DEF Records, TypeOK, Over
<1>7. /\ \A s \in Sessions, p \in AllProfiles :
            lock'[p] = s => p = profile'[s] /\ call'[s].pc \in Opened \cup {"over"}
      /\ \A s \in Sessions :
            directory'[s] = "present" =>
               profile'[s] = s /\ call'[s].pc \in Opened \cup {"lock", "clean", "over"}
  BY <1>1, <1>5 DEF Records, Actors
<1>8. RegisteredOwnsProfile'
  BY DEF RegisteredOwnsProfile
<1>9. NothingOrphaned'
  <2>1. SUFFICES ASSUME NEW s \in Sessions, lock'[profile[s]] = s \/ directory'[s] = "present"
                 PROVE  Attended(s)'
    BY DEF NothingOrphaned
  <2>2. profile[s] \in AllProfiles
    BY DEF TypeOK
  <2>3. lock[profile[s]] = s \/ directory[s] = "present"
    BY <2>1, <2>2
  <2>4. Attended(s) /\ s # a
    BY <2>2, <2>3, <1>5 DEF Records, NothingOrphaned
  <2>5. CASE s \in sessions
    BY <2>1, <2>5 DEF Attended
  <2>6. CASE call[s].op = "start"
    BY <2>4, <2>6, <1>1 DEF Attended, Actors
  <2>7. ASSUME NEW b \in Actors, call[b].dead = s PROVE Attended(s)'
    BY <2>1, <2>7, <1>1 DEF Attended
  <2>8. QED
    BY <2>4, <2>5, <2>6, <2>7 DEF Attended
<1>10. QED
  BY <1>4, <1>6, <1>7, <1>8, <1>9 DEF Sound, Records

-----------------------------------------------------------------------------
(* Observations.                                                           *)

(* A step that takes none, issues none and acts on none.                   *)
LEMMA QuietObserved ==
    ASSUME Observed, observations' \subseteq observations, issued' = issued, acted' = acted,
           \A a \in Actors :
              call'[a].pc \in {"check", "act"} => Holds(a) /\ call'[a].seen = call[a].seen
    PROVE  Observed'
<1>1. \A a \in Actors : Holds(a)' => Holds(a) /\ call'[a].seen = call[a].seen
  BY DEF Holds
<1>2. \A a \in Actors :
         Holds(a)' =>
            /\ call'[a].seen.id \in 1 .. issued /\ acted[call'[a].seen.id] = 0
            /\ \A o \in observations : o.id # call'[a].seen.id
  BY <1>1 DEF Observed
<1>3. \A a, b \in Actors :
         Holds(a)' /\ Holds(b)' /\ a # b => call'[a].seen.id # call'[b].seen.id
  BY <1>1 DEF Observed
<1>4. QED
  BY <1>2, <1>3 DEF Observed

(* The call of one actor changes, which holds no observation afterwards.   *)
LEMMA QuietCall ==
    ASSUME Observed, observations' \subseteq observations, issued' = issued, acted' = acted,
           NEW a \in Actors, OnlyCall(a), call'[a].pc \notin {"check", "act"}
    PROVE  Observed'
<1>1. \A b \in Actors :
         call'[b].pc \in {"check", "act"} => Holds(b) /\ call'[b].seen = call[b].seen
  BY DEF OnlyCall, Holds
<1>2. QED
  BY <1>1, QuietObserved

-----------------------------------------------------------------------------
(* Types.                                                                  *)

(* The chain belongs to the call under way on it.                          *)
LEMMA ChainStep ==
    ASSUME BrowserAssumption, TypeOK, NEW a \in Actors, OnlyCall(a),
           call'[a].op \in Chained /\ call'[a].pc # "queued" => chain' = a,
           chain' = chain \/ chain \in {a, Nobody}
    PROVE  \A b \in Actors : call'[b].op \in Chained /\ call'[b].pc # "queued" => chain' = b
<1>1. Nobody \notin Actors
  BY DEF BrowserAssumption
<1>2. QED
  BY <1>1 DEF TypeOK, OnlyCall

(* A step of a that leaves the records, locks and directories as they are. *)
LEMMA PlainStep ==
    ASSUME BrowserAssumption, IInv, NEW a \in Actors, OnlyCall(a),
           sessions' = sessions, profile' = profile, lock' = lock, directory' = directory,
           running' \subseteq running, profilesInUse' \subseteq profilesInUse,
           page' \in [Sessions -> 0 .. MaxVersion], faults' \in 0 .. MaxFaults,
           chain' \in Actors \cup {Nobody}, chain' = chain \/ chain \in {a, Nobody},
           call'[a].op \in Chained /\ call'[a].pc # "queued" => chain' = a,
           call'[a].dead = call[a].dead,
           a \in Sessions =>
              /\ call[a].pc \notin {"over", "lock", "clean"}
              /\ call[a].pc \in Opened =>
                    call'[a].pc \in Opened /\ call'[a].op = call[a].op,
           Good(a)',
           observations' \subseteq Observation, issued' \in 0 .. MaxObservations,
           acted' \in [Ids -> Nat], Observed'
    PROVE  IInv'
<1>1. TypeOK /\ Sound
  BY DEF IInv
<1>2. TypeOK'
  <2>1. \A b \in Actors : call'[b].op \in Chained /\ call'[b].pc # "queued" => chain' = b
    BY <1>1, ChainStep
  <2>2. QED
    BY <2>1, <1>1 DEF TypeOK, OnlyCall
<1>3. Sound'
  BY <1>1, <1>2, LocalStep
<1>4. QED
  BY <1>2, <1>3 DEF IInv

(* And after which a holds no observation.                                 *)
LEMMA QuietStep ==
    ASSUME BrowserAssumption, IInv, NEW a \in Actors, OnlyCall(a),
           sessions' = sessions, profile' = profile, lock' = lock, directory' = directory,
           running' \subseteq running, profilesInUse' \subseteq profilesInUse,
           page' \in [Sessions -> 0 .. MaxVersion], faults' \in 0 .. MaxFaults,
           chain' \in Actors \cup {Nobody}, chain' = chain \/ chain \in {a, Nobody},
           call'[a].op \in Chained /\ call'[a].pc # "queued" => chain' = a,
           call'[a].dead = call[a].dead,
           a \in Sessions =>
              /\ call[a].pc \notin {"over", "lock", "clean"}
              /\ call[a].pc \in Opened =>
                    call'[a].pc \in Opened /\ call'[a].op = call[a].op,
           Good(a)',
           observations' \subseteq observations, issued' = issued, acted' = acted,
           call'[a].pc \notin {"check", "act"}
    PROVE  IInv'
<1>1. Observed'
  BY QuietCall DEF IInv
<1>2. /\ observations' \subseteq Observation /\ issued' \in 0 .. MaxObservations
      /\ acted' \in [Ids -> Nat]
  BY DEF IInv, TypeOK
<1>3. QED
  BY <1>1, <1>2, PlainStep

(* A call that returns without having changed the records.                 *)
LEMMA QuietReturn ==
    ASSUME BrowserAssumption, IInv, NEW a \in Actors, Return(a),
           sessions' = sessions, profile' = profile, lock' = lock, directory' = directory,
           issued' = issued, acted' = acted,
           running' \subseteq running, observations' \subseteq observations,
           profilesInUse' \subseteq profilesInUse,
           page' \in [Sessions -> 0 .. MaxVersion], faults' \in 0 .. MaxFaults,
           call[a].pc \notin {"unlock", "sweep"},
           a \in Sessions => call[a].pc \notin Opened \cup {"lock", "clean", "over"}
    PROVE  IInv'
<1>1. TypeOK /\ Sound /\ Observed /\ Good(a)
  BY DEF IInv, Sound
<1>2. call \in [Actors -> Call] /\ chain \in Actors \cup {Nobody}
  BY <1>1 DEF TypeOK
<1>3. /\ OnlyCall(a) /\ call'[a].pc \in {"over", "idle"}
      /\ call'[a].op = Nobody /\ call'[a].left = {}
      /\ call'[a].target = Nobody /\ call'[a].dead = Nobody
      /\ chain' = IF chain = a THEN Nobody ELSE chain
  BY <1>2, ReturnCall
<1>4. Nobody \notin Chained \cup Unchained
  BY DEF BrowserAssumption
<1>5. call[a].dead = Nobody
  BY <1>1 DEF Good, Reconciles
<1>6. Good(a)'
  BY <1>3, <1>4 DEF Good, Reconciles, Disposes, Owns, Aims, Disposals, Opened, Chained, Unchained
<1>7. QED
  BY <1>2, <1>3, <1>4, <1>5, <1>6, QuietStep

(* A call that goes on without having changed the records.                 *)
LEMMA QuietMove ==
    ASSUME BrowserAssumption, IInv, NEW a \in Actors, NEW x \in Places \ {"check", "act"},
           Step(a, x), call[a].pc # "queued", Good(a)',
           sessions' = sessions, profile' = profile, lock' = lock, directory' = directory,
           chain' = chain, observations' = observations, issued' = issued, acted' = acted,
           page' = page, running' \subseteq running, profilesInUse' \subseteq profilesInUse,
           faults' \in 0 .. MaxFaults,
           a \in Sessions =>
              /\ call[a].pc \notin {"over", "lock", "clean"}
              /\ call[a].pc \in Opened => x \in Opened
    PROVE  IInv'
<1>1. /\ call \in [Actors -> Call] /\ page \in [Sessions -> 0 .. MaxVersion]
      /\ chain \in Actors \cup {Nobody}
      /\ call[a].op \in Chained => chain = a
  BY DEF IInv, TypeOK
<1>2. /\ OnlyCall(a) /\ call'[a].pc = x
      /\ call'[a].op = call[a].op /\ call'[a].dead = call[a].dead
  BY <1>1, StepCall
<1>3. QED
  BY <1>1, <1>2, QuietStep

-----------------------------------------------------------------------------
(* Calls that begin, enter the chain, or read.                             *)

LEMMA InvokeStep ==
    ASSUME BrowserAssumption, IInv, NEW a \in Actors \ Sessions, NEW op \in Chained \cup Unchained,
           NEW t \in Sessions \cup Profiles \cup {Nobody},
           op = "delete" => t \in Profiles, op \in {"snapshot", "act"} => t \in Sessions,
           Invoke(a, op, t)
    PROVE  IInv'
<1>1. TypeOK /\ Records /\ Good(a)
  BY DEF IInv, Sound
<1>2. call \in [Actors -> Call] /\ sessions \in SUBSET Sessions
  BY <1>1 DEF TypeOK
<1>3. call[a].pc = "idle"
  BY DEF Invoke
<1>4. /\ OnlyCall(a) /\ call'[a].op = op /\ call'[a].target = t /\ call'[a].dead = Nobody
      /\ call'[a].pc \in {"queued", "reconcile"}
      /\ op \in Chained => call'[a].pc = "queued"
      /\ call'[a].left \in {{}, sessions}
  <2>1. CASE op \in Chained
    <3>1. call' = [call EXCEPT ![a] = Begun(op, "queued", {}, t)]
      BY <2>1 DEF Invoke
    <3>2. "queued" \in Places /\ {} \in SUBSET Sessions
      BY DEF Places
    <3>3. /\ OnlyCall(a) /\ call'[a].op = op /\ call'[a].pc = "queued" /\ call'[a].left = {}
          /\ call'[a].target = t /\ call'[a].dead = Nobody
      <4>1. Begun(op, "queued", {}, t) \in Call
        BY <3>2, BegunCall
      <4>2. QED
        BY <4>1, <3>1, <1>2 DEF OnlyCall, Begun
    <3>4. QED
      BY <3>3
  <2>2. CASE op \notin Chained
    <3>1. call' = [call EXCEPT ![a] = Begun(op, "reconcile", sessions, t)]
      BY <2>2 DEF Invoke
    <3>2. "reconcile" \in Places
      BY DEF Places
    <3>3. /\ OnlyCall(a) /\ call'[a].op = op /\ call'[a].pc = "reconcile"
          /\ call'[a].left = sessions /\ call'[a].target = t /\ call'[a].dead = Nobody
      <4>1. Begun(op, "reconcile", sessions, t) \in Call
        BY <3>2, <1>2, BegunCall
      <4>2. QED
        BY <4>1, <3>1, <1>2 DEF OnlyCall, Begun
    <3>4. QED
      BY <2>2, <3>3
  <2>3. QED
    BY <2>1, <2>2
<1>5. \A s \in call'[a].left : call'[s].pc = "over"
  BY <1>1, <1>2, <1>3, <1>4 DEF Records, Over, OnlyCall, Actors
<1>6. Good(a)'
  BY <1>4, <1>5
  DEF Good, Reconciles, Disposes, Owns, Aims, Disposals, Opened, Over
<1>7. call[a].dead = Nobody
  BY <1>1, <1>3 DEF Good, Reconciles
<1>8. QED
  <2>1. /\ sessions' = sessions /\ profile' = profile /\ lock' = lock
        /\ directory' = directory /\ running' = running /\ profilesInUse' = profilesInUse
        /\ page' = page /\ faults' = faults /\ chain' = chain
        /\ observations' = observations /\ issued' = issued /\ acted' = acted
    BY DEF Invoke, records, pages
  <2>2. /\ page \in [Sessions -> 0 .. MaxVersion] /\ faults \in 0 .. MaxFaults
        /\ chain \in Actors \cup {Nobody}
    BY <1>1 DEF TypeOK
  <2>3. QED
    BY <2>1, <2>2, <1>4, <1>6, <1>7, QuietStep

LEMMA EnterStep ==
    ASSUME BrowserAssumption, IInv, NEW a \in Actors, Enter(a)
    PROVE  IInv'
<1>1. TypeOK /\ Records /\ Good(a)
  BY DEF IInv, Sound
<1>2. PICK left \in SUBSET sessions :
         call' = [call EXCEPT ![a].left = left,
                    ![a].pc = IF a \in {Reaper, Closer} THEN "next" ELSE "reconcile"]
  BY DEF Enter
<1>3. /\ OnlyCall(a) /\ call'[a].pc \in {"next", "reconcile"} /\ call'[a].left = left
      /\ call'[a].op = call[a].op /\ call'[a].target = call[a].target
      /\ call'[a].dead = call[a].dead
  <2> DEFINE x == IF a \in {Reaper, Closer} THEN "next" ELSE "reconcile"
  <2>1. /\ x \in {"next", "reconcile"} /\ x \in Places
        /\ left \in SUBSET Sessions /\ call \in [Actors -> Call]
    BY <1>1 DEF TypeOK, Places
  <2>2. call' = [call EXCEPT ![a].left = left, ![a].pc = x]
    BY <1>2
  <2> HIDE DEF x
  <2>3. QED
    BY <2>1, <2>2 DEF OnlyCall, Call
<1>4. call[a].pc = "queued" /\ chain = Nobody /\ chain' = a
  BY DEF Enter
<1>5. \A s \in left : call'[s].pc = "over"
  BY <1>1, <1>3, <1>4 DEF Records, Over, OnlyCall, Actors, TypeOK
<1>6. Good(a)'
  BY <1>1, <1>3, <1>4, <1>5
  DEF Good, Reconciles, Disposes, Owns, Aims, Disposals, Opened, Over
<1>7. QED
  <2>1. /\ sessions' = sessions /\ profile' = profile /\ lock' = lock
        /\ directory' = directory /\ running' = running /\ profilesInUse' = profilesInUse
        /\ page' = page /\ faults' = faults
        /\ observations' = observations /\ issued' = issued /\ acted' = acted
    BY DEF Enter, records, pages
  <2>2. page \in [Sessions -> 0 .. MaxVersion] /\ faults \in 0 .. MaxFaults
    BY <1>1 DEF TypeOK
  <2>3. QED
    BY <2>1, <2>2, <1>3, <1>4, <1>6, QuietStep DEF Opened

LEMMA CloseStep ==
    ASSUME BrowserAssumption, IInv, NEW c \in Clients, Close(c)
    PROVE  IInv'
<1>1. TypeOK /\ Records /\ Good(c) /\ c \in Actors /\ c \notin Sessions
  BY DEF IInv, Sound, Actors, BrowserAssumption
<1>2. call[c].pc = "reconcile" /\ call[c].op = "close"
  BY DEF Close, Reconciled, At
<1>3. /\ sessions' = sessions /\ profile' = profile /\ lock' = lock
      /\ directory' = directory /\ running' = running /\ profilesInUse' = profilesInUse
      /\ page' = page /\ faults' = faults
      /\ observations' = observations /\ issued' = issued /\ acted' = acted
  BY DEF Close, records, pages
<1>4. /\ page \in [Sessions -> 0 .. MaxVersion] /\ faults \in 0 .. MaxFaults
      /\ call \in [Actors -> Call]
  BY <1>1 DEF TypeOK
<1>5. CASE call[c].target \in sessions
  <2>1. Step(c, "terminate") /\ chain' = chain /\ "terminate" \in Places \ {"check", "act"}
    BY <1>5 DEF Close, Places
  <2>2. /\ OnlyCall(c) /\ call'[c].pc = "terminate"
        /\ call'[c].op = call[c].op /\ call'[c].left = call[c].left
        /\ call'[c].target = call[c].target /\ call'[c].dead = call[c].dead
    BY <2>1, <1>1, <1>4, StepCall
  <2>3. call'[c].target \in Sessions /\ call'[call'[c].target].pc = "over"
    BY <1>1, <1>5, <2>2 DEF Records, Over, OnlyCall, Actors, TypeOK
  <2>4. call'[c].left = {} /\ call'[c].dead = Nobody
    BY <1>1, <1>2, <2>2 DEF Close, Reconciled, Good, Reconciles
  <2>5. Good(c)'
    BY <1>2, <2>2, <2>3, <2>4
    DEF Good, Reconciles, Disposes, Owns, Aims, Disposals, Opened, Over
  <2>6. QED
    BY <2>1, <2>5, <1>1, <1>2, <1>3, <1>4, QuietMove
<1>6. CASE call[c].target \notin sessions
  <2>1. Return(c)
    BY <1>6 DEF Close
  <2>2. QED
    BY <2>1, <1>1, <1>2, <1>3, <1>4, QuietReturn
<1>7. QED
  BY <1>5, <1>6

(* Calls that end having changed nothing but pages and observations.       *)
LEMMA ReturnSteps ==
    ASSUME BrowserAssumption, IInv, NEW c \in Clients,
           PageOperation(c) \/ List(c) \/ ActRefused(c)
    PROVE  IInv'
<1>1. TypeOK /\ c \in Actors /\ c \notin Sessions
  BY DEF IInv, Actors, BrowserAssumption
<1>2. call[c].pc = "reconcile" /\ Return(c)
  BY DEF PageOperation, List, ActRefused, Reconciled, At
<1>3. /\ sessions' = sessions /\ profile' = profile /\ lock' = lock
      /\ directory' = directory /\ running' = running /\ profilesInUse' = profilesInUse
      /\ faults' = faults /\ issued' = issued /\ acted' = acted
  BY DEF PageOperation, List, ActRefused, records, pages
<1>4. faults \in 0 .. MaxFaults /\ page \in [Sessions -> 0 .. MaxVersion] /\ MaxVersion \in Nat
  BY <1>1 DEF TypeOK, BrowserAssumption
<1>5. page' \in [Sessions -> 0 .. MaxVersion] /\ observations' \subseteq observations
  <2>1. CASE page' = page /\ observations' = observations
    BY <2>1, <1>4
  <2>2. CASE /\ page[call[c].target] < MaxVersion /\ call[c].target \in sessions
             /\ page' = [page EXCEPT ![call[c].target] = @ + 1]
             /\ observations' = OfOthers(call[c].target)
    <3>1. page[call[c].target] + 1 \in 0 .. MaxVersion
      BY <2>2, <1>1, <1>4 DEF TypeOK
    <3>2. QED
      BY <2>2, <3>1, <1>4 DEF OfOthers
  <2>3. QED
    BY <2>1, <2>2 DEF PageOperation, List, ActRefused, records, pages
<1>6. QED
  BY <1>1, <1>2, <1>3, <1>4, <1>5, QuietReturn

-----------------------------------------------------------------------------
(* Disposals.                                                              *)

LEMMA Disposer ==
    ASSUME BrowserAssumption, IInv, NEW a \in Clients \cup {Reaper, Closer},
           call[a].op \in {"close", "reap", "closeAll"}, call[a].pc \in {"next"} \cup Disposals
    PROVE  /\ a \in Actors \ Sessions /\ chain = a /\ call[a].dead = Nobody
           /\ call[a].pc \in Disposals =>
                 /\ call[a].target \in Sessions /\ Over(call[a].target)
                 /\ profile[call[a].target] \in AllProfiles
                 /\ call[a].target \in Actors \ {a} /\ call[a].target \notin Clients
<1>1. TypeOK /\ Good(a) /\ a \in Actors
  BY DEF IInv, Sound, Actors
<1>2. a \notin Sessions /\ chain = a
  BY <1>1 DEF BrowserAssumption, TypeOK, Disposals, Chained
<1>3. call[a].dead = Nobody
  BY <1>1 DEF Good, Reconciles, Disposals
<1>4. QED
  BY <1>1, <1>2, <1>3 DEF Good, Disposes, TypeOK, BrowserAssumption, Actors

LEMMA NextRecordStep ==
    ASSUME BrowserAssumption, IInv, NEW a \in Clients \cup {Reaper, Closer}, NextRecord(a)
    PROVE  IInv'
<1>1. TypeOK /\ Good(a)
  BY DEF IInv, Sound, Actors
<1>2. call[a].pc = "next" /\ call[a].op \in {"close", "reap", "closeAll"}
  BY DEF NextRecord, Disposing
<1>3. a \in Actors \ Sessions /\ chain = a /\ call[a].dead = Nobody
  BY <1>2, Disposer
<1>4. /\ sessions' = sessions /\ profile' = profile /\ lock' = lock
      /\ directory' = directory /\ running' = running /\ profilesInUse' = profilesInUse
      /\ page' = page /\ faults' = faults
      /\ observations' = observations /\ issued' = issued /\ acted' = acted
  BY DEF NextRecord, records, pages
<1>5. /\ page \in [Sessions -> 0 .. MaxVersion] /\ faults \in 0 .. MaxFaults
      /\ call \in [Actors -> Call]
  BY <1>1 DEF TypeOK
<1>6. ASSUME NEW s \in call[a].left, chain' = chain,
             call' = [call EXCEPT ![a] =
                         Begun(call[a].op, "terminate", call[a].left \ {s}, s)]
      PROVE  IInv'
  <2>1. s \in Sessions /\ "terminate" \in Places
    BY <1>3, <1>5 DEF Call, Places
  <2>2. /\ OnlyCall(a) /\ call'[a].pc = "terminate" /\ call'[a].left = call[a].left \ {s}
        /\ call'[a].op = call[a].op /\ call'[a].target = s /\ call'[a].dead = call[a].dead
    <3>1. call[a].left \ {s} \in SUBSET Sessions /\ call[a].op \in Chained \cup Unchained
      BY <1>2, <1>3, <1>5 DEF Call, Chained
    <3>2. Begun(call[a].op, "terminate", call[a].left \ {s}, s) \in Call
      BY <2>1, <3>1, BegunCall
    <3>3. QED
      BY <3>2, <1>3, <1>5, <1>6 DEF OnlyCall, Begun
  <2>3. \A t \in call[a].left : call'[t].pc = "over"
    BY <1>1, <1>3, <1>5, <2>2 DEF Good, Reconciles, Over, OnlyCall, Actors, Call
  <2>4. Good(a)'
    BY <1>2, <1>3, <2>1, <2>2, <2>3
    DEF Good, Reconciles, Disposes, Owns, Aims, Disposals, Opened, Over
  <2>5. QED
    BY <1>3, <1>4, <1>5, <1>6, <2>2, <2>4, QuietStep
<1>7. CASE Return(a)
  BY <1>2, <1>3, <1>4, <1>5, <1>7, QuietReturn
<1>8. QED
  BY <1>6, <1>7 DEF NextRecord

LEMMA DisposeFailsStep ==
    ASSUME BrowserAssumption, IInv, NEW a \in Clients \cup {Reaper, Closer}, DisposeFails(a),
           call[a].op \in {"close", "reap", "closeAll"}, call[a].pc \in {"terminate", "remove"},
           running' = running, UNCHANGED <<records, pages, profile, lock, directory>>
    PROVE  IInv'
<1>1. TypeOK /\ Good(a)
  BY DEF IInv, Sound, Actors
<1>2. a \in Actors \ Sessions /\ chain = a /\ call[a].dead = Nobody
  BY Disposer DEF Disposals
<1>3. /\ sessions' = sessions /\ profile' = profile /\ lock' = lock
      /\ directory' = directory /\ running' = running /\ profilesInUse' = profilesInUse
      /\ page' = page /\ observations' = observations /\ issued' = issued /\ acted' = acted
  BY DEF records, pages
<1>4. /\ page \in [Sessions -> 0 .. MaxVersion] /\ call \in [Actors -> Call]
      /\ faults' \in 0 .. MaxFaults
  BY <1>1 DEF TypeOK, DisposeFails, Fault, BrowserAssumption
<1>5. CASE Return(a)
  BY <1>2, <1>3, <1>4, <1>5, QuietReturn
<1>6. CASE Step(a, "next") /\ chain' = chain
  <2>1. "next" \in Places \ {"check", "act"}
    BY DEF Places
  <2>2. /\ OnlyCall(a) /\ call'[a].pc = "next" /\ call'[a].left = call[a].left
        /\ call'[a].op = call[a].op /\ call'[a].dead = call[a].dead
    BY <1>2, <1>4, <1>6, <2>1, StepCall
  <2>3. \A t \in call[a].left : call'[t].pc = "over"
    BY <1>1, <1>2, <1>4, <2>2 DEF Good, Reconciles, Over, OnlyCall, Actors, Call
  <2>4. Good(a)'
    BY <1>2, <2>2, <2>3
    DEF Good, Reconciles, Disposes, Owns, Aims, Disposals, Opened, Over
  <2>5. QED
    BY <1>2, <1>3, <1>4, <1>6, <2>1, <2>4, QuietMove
<1>7. QED
  BY <1>5, <1>6 DEF DisposeFails

LEMMA TerminateStep ==
    ASSUME BrowserAssumption, IInv, NEW a \in Clients \cup {Reaper, Closer}, Terminate(a)
    PROVE  IInv'
<1>1. TypeOK /\ Good(a)
  BY DEF IInv, Sound, Actors
<1>2. call[a].pc = "terminate" /\ call[a].op \in {"close", "reap", "closeAll"}
  BY DEF Terminate, Disposing
<1>3. /\ a \in Actors \ Sessions /\ call[a].dead = Nobody
      /\ call[a].target \in Sessions /\ Over(call[a].target)
  BY <1>2, Disposer DEF Disposals
<1>4. /\ sessions' = sessions /\ profile' = profile /\ lock' = lock
      /\ directory' = directory /\ profilesInUse' = profilesInUse /\ page' = page
      /\ observations' = observations /\ issued' = issued /\ acted' = acted
  BY DEF Terminate, records, pages
<1>5. faults \in 0 .. MaxFaults /\ call \in [Actors -> Call]
  BY <1>1 DEF TypeOK
<1>6. CASE /\ running' = running \ {call[a].target} /\ Step(a, "remove")
           /\ chain' = chain /\ faults' = faults
  <2>1. "remove" \in Places \ {"check", "act"}
    BY DEF Places
  <2>2. /\ OnlyCall(a) /\ call'[a].pc = "remove" /\ call'[a].left = call[a].left
        /\ call'[a].op = call[a].op /\ call'[a].target = call[a].target
        /\ call'[a].dead = call[a].dead
    BY <1>3, <1>5, <1>6, <2>1, StepCall
  <2>3. /\ \A t \in call[a].left : call'[t].pc = "over"
        /\ call'[call[a].target].pc = "over"
    BY <1>1, <1>3, <1>5, <2>2 DEF Good, Reconciles, Over, OnlyCall, Actors, Call
  <2>4. Good(a)'
    BY <1>2, <1>3, <1>6, <2>2, <2>3
    DEF Good, Reconciles, Disposes, Owns, Aims, Disposals, Opened, Over
  <2>5. QED
    BY <1>2, <1>3, <1>4, <1>5, <1>6, <2>1, <2>4, QuietMove
<1>7. CASE DisposeFails(a) /\ running' = running
  BY <1>2, <1>7, DisposeFailsStep DEF Terminate
<1>8. QED
  BY <1>6, <1>7 DEF Terminate

LEMMA RemoveStep ==
    ASSUME BrowserAssumption, IInv, NEW a \in Clients \cup {Reaper, Closer}, Remove(a)
    PROVE  IInv'
<1> DEFINE t == call[a].target
<1>1. TypeOK /\ Sound /\ Observed /\ Good(a) /\ Records
  BY DEF IInv, Sound, Actors
<1>2. call[a].pc = "remove" /\ call[a].op \in {"close", "reap", "closeAll"}
  BY DEF Remove, Disposing
<1>3. /\ a \in Actors \ Sessions /\ call[a].dead = Nobody /\ chain = a
      /\ t \in Sessions /\ Over(t)
  BY <1>2, Disposer DEF Disposals
<1>4. CASE DisposeFails(a) /\ directory' = directory
  BY <1>2, <1>4, DisposeFailsStep DEF Remove
<1>5. CASE /\ directory' = [directory EXCEPT ![t] = IF Ephemeral(t) THEN "none" ELSE @]
           /\ Step(a, "release") /\ chain' = chain /\ faults' = faults
  <2>1. /\ sessions' = sessions /\ profile' = profile /\ lock' = lock /\ running' = running
        /\ profilesInUse' = profilesInUse /\ page' = page
        /\ observations' = observations /\ issued' = issued /\ acted' = acted
    BY DEF Remove, records, pages
  <2>2. "release" \in Places /\ call \in [Actors -> Call]
    BY <1>1 DEF Places, TypeOK
  <2>3. /\ OnlyCall(a) /\ call'[a].pc = "release" /\ call'[a].left = call[a].left
        /\ call'[a].op = call[a].op /\ call'[a].target = t /\ call'[a].dead = call[a].dead
    BY <1>3, <1>5, <2>2, StepCall
  <2>4. /\ directory' \in [Sessions -> {"none", "present", "left"}]
        /\ \A s \in Sessions : directory'[s] = "present" => directory[s] = "present"
        /\ directory'[t] # "present"
    BY <1>1, <1>3, <1>5 DEF TypeOK, Records, Ephemeral
  <2>5. TypeOK'
    <3>1. \A b \in Actors : call'[b].op \in Chained /\ call'[b].pc # "queued" => chain' = b
      BY <1>1, <1>3, <1>5, <2>3, ChainStep
    <3>2. QED
      BY <3>1, <1>1, <1>5, <2>1, <2>3, <2>4 DEF TypeOK, OnlyCall
  <2>6. Good(a)'
    <3>1. /\ \A u \in call[a].left : call'[u].pc = "over"
          /\ call'[t].pc = "over"
      BY <1>1, <1>3, <2>2, <2>3 DEF Good, Reconciles, Over, OnlyCall, Actors, Call
    <3>2. t \notin running
      BY <1>1, <1>2 DEF Good, Disposes, Disposals
    <3>3. QED
      BY <1>2, <1>3, <2>1, <2>3, <2>4, <3>1, <3>2
      DEF Good, Reconciles, Disposes, Owns, Aims, Disposals, Opened, Over
  <2>7. Sound'
    <3>1. \A s \in sessions \cap running : lock[profile[s]] = s
      BY <1>1 DEF Records, RegisteredOwnsProfile
    <3>2. QED
      BY <1>1, <1>3, <2>1, <2>3, <2>4, <2>5, <2>6, <3>1, ShrinkStep
  <2>8. Observed'
    BY <1>1, <1>3, <2>1, <2>3, QuietCall
  <2>9. QED
    BY <2>5, <2>7, <2>8 DEF IInv
<1>6. QED
  BY <1>4, <1>5 DEF Remove

LEMMA ReleaseStep ==
    ASSUME BrowserAssumption, IInv, NEW a \in Clients \cup {Reaper, Closer}, Release(a)
    PROVE  IInv'
<1> DEFINE t == call[a].target
<1>1. TypeOK /\ Sound /\ Observed /\ Good(a) /\ Records
  BY DEF IInv, Sound, Actors
<1>2. call[a].pc = "release" /\ call[a].op \in {"close", "reap", "closeAll"}
  BY DEF Release, Disposing
<1>3. /\ a \in Actors \ Sessions /\ call[a].dead = Nobody /\ chain = a
      /\ t \in Sessions /\ Over(t) /\ profile[t] \in AllProfiles /\ t \in Actors
  BY <1>2, Disposer DEF Disposals
<1>4. /\ sessions' = sessions /\ profile' = profile /\ directory' = directory
      /\ running' = running /\ profilesInUse' = profilesInUse /\ page' = page
      /\ chain' = chain /\ faults' = faults
      /\ observations' = observations /\ issued' = issued /\ acted' = acted
  BY DEF Release, records, pages
<1>5. lock' = [lock EXCEPT ![profile[t]] = IF @ = t THEN Nobody ELSE @] /\ Step(a, "forget")
  BY DEF Release, Released
<1>6. "forget" \in Places /\ call \in [Actors -> Call]
  BY <1>1 DEF Places, TypeOK
<1>7. /\ OnlyCall(a) /\ call'[a].pc = "forget" /\ call'[a].left = call[a].left
      /\ call'[a].op = call[a].op /\ call'[a].target = t /\ call'[a].dead = call[a].dead
  BY <1>3, <1>5, <1>6, StepCall
<1>8. /\ lock' \in [AllProfiles -> Actors \cup {OtherGateway, Nobody}]
      /\ \A p \in AllProfiles : lock'[p] = lock[p] \/ (lock[p] = t /\ lock'[p] = Nobody)
      /\ lock'[profile[t]] # t /\ Nobody \notin Actors
  BY <1>1, <1>3, <1>5 DEF TypeOK, BrowserAssumption
<1>9. TypeOK'
  <2>1. \A b \in Actors : call'[b].op \in Chained /\ call'[b].pc # "queued" => chain' = b
    BY <1>1, <1>3, <1>4, <1>7, ChainStep
  <2>2. QED
    BY <2>1, <1>1, <1>4, <1>7, <1>8 DEF TypeOK, OnlyCall
<1>10. t \notin running /\ directory[t] # "present"
  BY <1>1, <1>2 DEF Good, Disposes, Disposals
<1>11. Good(a)'
  <2>1. /\ \A u \in call[a].left : call'[u].pc = "over"
        /\ call'[t].pc = "over"
    BY <1>1, <1>3, <1>6, <1>7 DEF Good, Reconciles, Over, OnlyCall, Actors, Call
  <2>2. QED
    BY <1>2, <1>3, <1>4, <1>7, <1>8, <1>10, <2>1
    DEF Good, Reconciles, Disposes, Owns, Aims, Disposals, Opened, Over
<1>12. Sound'
  <2>1. \A s \in sessions \cap running : lock'[profile[s]] = s
    <3>1. \A s \in sessions \cap running : lock[profile[s]] = s /\ profile[s] \in AllProfiles
      BY <1>1 DEF Records, RegisteredOwnsProfile, TypeOK
    <3>2. QED
      BY <3>1, <1>8, <1>10
  <2>2. \A s \in Sessions, p \in AllProfiles : lock'[p] = s => lock[p] = s
    BY <1>8 DEF Actors
  <2>3. \A b \in Actors \ {a}, p \in AllProfiles : ~Over(b) /\ lock[p] = b => lock'[p] = b
    BY <1>3, <1>8
  <2>4. QED
    BY <1>1, <1>3, <1>4, <1>7, <1>9, <1>11, <2>1, <2>2, <2>3, ShrinkStep
<1>13. Observed'
  BY <1>1, <1>3, <1>4, <1>7, QuietCall
<1>14. QED
  BY <1>9, <1>12, <1>13 DEF IInv

LEMMA ForgetStep ==
    ASSUME BrowserAssumption, IInv, NEW a \in Clients \cup {Reaper, Closer}, Forget(a)
    PROVE  IInv'
<1> DEFINE t == call[a].target
<1>1. TypeOK /\ Sound /\ Observed /\ Good(a) /\ Records
  BY DEF IInv, Sound, Actors
<1>2. call[a].pc = "forget" /\ call[a].op \in {"close", "reap", "closeAll"}
  BY DEF Forget, Disposing
<1>3. /\ a \in Actors \ Sessions /\ call[a].dead = Nobody /\ chain = a
      /\ t \in Sessions /\ Over(t)
  BY <1>2, Disposer DEF Disposals
<1>4. /\ profile' = profile /\ directory' = directory /\ lock' = lock /\ running' = running
      /\ page' = page /\ faults' = faults /\ issued' = issued /\ acted' = acted
      /\ sessions' = sessions \ {t} /\ profilesInUse' \subseteq profilesInUse
      /\ observations' \subseteq observations
  BY DEF Forget, pages, OfOthers
<1>5. "next" \in Places /\ call \in [Actors -> Call] /\ Nobody \notin Chained \cup Unchained \cup Sessions
  BY <1>1 DEF Places, TypeOK, BrowserAssumption, Actors
<1>6. /\ OnlyCall(a) /\ call'[a].pc \in {"next", "idle", "over"}
      /\ call'[a].left \subseteq call[a].left
      /\ call'[a].op \in {call[a].op, Nobody} /\ call'[a].dead = Nobody
      /\ call'[a].op \in Chained => chain' = a
      /\ chain' \in {a, Nobody}
  <2>1. CASE Return(a)
    BY <2>1, <1>3, <1>5, ReturnCall
  <2>2. CASE Step(a, "next") /\ chain' = chain
    BY <2>2, <1>3, <1>5, StepCall
  <2>3. QED
    BY <2>1, <2>2 DEF Forget
<1>7. TypeOK'
  <2>1. \A b \in Actors : call'[b].op \in Chained /\ call'[b].pc # "queued" => chain' = b
    BY <1>1, <1>3, <1>6, ChainStep
  <2>2. QED
    BY <2>1, <1>1, <1>3, <1>4, <1>6 DEF TypeOK, OnlyCall
<1>8. Good(a)'
  <2>1. \A u \in call[a].left : call'[u].pc = "over"
    BY <1>1, <1>3, <1>5, <1>6 DEF Good, Reconciles, Over, OnlyCall, Actors, Call
  <2>2. QED
    BY <1>2, <1>3, <1>5, <1>6, <2>1
    DEF Good, Reconciles, Disposes, Owns, Aims, Disposals, Opened, Over, Chained, Unchained
<1>9. Sound'
  <2>1. \A s \in sessions' \cap running : lock[profile[s]] = s
    BY <1>1, <1>4 DEF Records, RegisteredOwnsProfile
  <2>2. lock[profile[t]] # t /\ directory[t] # "present"
    BY <1>1, <1>2 DEF Good, Disposes, Disposals
  <2>3. \A s \in Sessions :
           lock'[profile[s]] = s \/ directory'[s] = "present" =>
              /\ s \in sessions => s \in sessions' \/ call'[a].dead = s
              /\ call[a].dead = s => s \in sessions' \/ call'[a].dead = s
    BY <1>3, <1>4, <1>5, <2>2
  <2>4. QED
    BY <1>1, <1>3, <1>4, <1>6, <1>7, <1>8, <2>1, <2>3, ShrinkStep
<1>10. Observed'
  BY <1>1, <1>3, <1>4, <1>6, QuietCall
<1>11. QED
  BY <1>7, <1>9, <1>10 DEF IInv

-----------------------------------------------------------------------------
(* Reconciliation.                                                         *)

LEMMA ProbeStep ==
    ASSUME BrowserAssumption, IInv, NEW a \in Actors, NEW t \in Sessions, Probe(a, t)
    PROVE  IInv'
<1>1. TypeOK /\ Sound /\ Observed /\ Good(a) /\ Records
  BY DEF IInv, Sound
<1>2. call[a].pc = "reconcile" /\ t \in call[a].left
  BY DEF Probe
<1>3. Over(t) /\ call[a].dead = Nobody
  BY <1>1, <1>2 DEF Good, Reconciles
<1>4. /\ profile' = profile /\ directory' = directory /\ lock' = lock /\ running' = running
      /\ page' = page /\ issued' = issued /\ acted' = acted /\ chain' = chain
  BY DEF Probe, pages
<1>5. /\ call \in [Actors -> Call] /\ page \in [Sessions -> 0 .. MaxVersion]
      /\ chain \in Actors \cup {Nobody} /\ faults \in 0 .. MaxFaults
      /\ call[a].op \in Chained => chain = a
      /\ Nobody \notin Sessions /\ MaxFaults \in Nat
  BY <1>1, <1>2 DEF TypeOK, BrowserAssumption, Actors
<1>6. CASE /\ call' = [call EXCEPT ![a].left = @ \ {t}]
           /\ UNCHANGED <<records, faults>>
  <2>1. /\ OnlyCall(a) /\ call'[a].pc = "reconcile" /\ call'[a].left \subseteq call[a].left
        /\ call'[a].op = call[a].op /\ call'[a].target = call[a].target
        /\ call'[a].dead = call[a].dead
    BY <1>2, <1>5, <1>6 DEF OnlyCall, Call
  <2>2. \A u \in call[a].left : call'[u].pc = "over"
    BY <1>1, <1>2, <1>5, <2>1 DEF Good, Reconciles, Over, OnlyCall, Actors, Call
  <2>3. Good(a)'
    BY <1>1, <1>3, <2>1, <2>2
    DEF Good, Reconciles, Disposes, Owns, Aims, Disposals, Opened, Over
  <2>4. sessions' = sessions /\ profilesInUse' = profilesInUse /\ observations' = observations
    BY <1>6 DEF records
  <2>5. QED
    BY <1>2, <1>4, <1>5, <1>6, <2>1, <2>3, <2>4, QuietStep DEF Opened
<1>7. CASE /\ faults' \in 0 .. MaxFaults
           /\ call' = [call EXCEPT ![a] =
                   [Begun(call[a].op, "unlock", call[a].left \ {t}, call[a].target)
                       EXCEPT !.dead = t]]
           /\ sessions' = sessions \ {t}
           /\ profilesInUse' = profilesInUse \ {profile[t]}
           /\ observations' = OfOthers(t)
  <2>1. /\ call' \in [Actors -> Call] /\ call'[a].left \subseteq call[a].left
        /\ call'[a].pc = "unlock" /\ call'[a].dead = t
        /\ call'[a].op = call[a].op /\ call'[a].target = call[a].target
        /\ \A b \in Actors \ {a} : call'[b] = call[b]
    <3> DEFINE old == Begun(call[a].op, "unlock", call[a].left \ {t}, call[a].target)
               new == [old EXCEPT !.dead = t]
    <3>1. /\ new \in Call /\ new.left \subseteq call[a].left
          /\ new.pc = "unlock" /\ new.dead = t
          /\ new.op = call[a].op /\ new.target = call[a].target
      <4>1. /\ call[a].op \in Chained \cup Unchained \cup {Nobody}
            /\ call[a].left \ {t} \in SUBSET Sessions
            /\ call[a].target \in Sessions \cup Profiles \cup {Nobody}
            /\ "unlock" \in Places
        BY <1>5 DEF Call, Places
      <4>2. /\ old \in Call /\ old.left \subseteq call[a].left /\ old.pc = "unlock"
            /\ old.op = call[a].op /\ old.target = call[a].target
        BY <4>1, BegunCall DEF Begun
      <4> HIDE DEF old
      <4>3. QED
        BY <4>2 DEF Call
    <3>2. call' = [call EXCEPT ![a] = new]
      BY <1>7
    <3> HIDE DEF new
    <3>3. QED
      BY <1>5, <3>1, <3>2
  <2>2. OnlyCall(a)
    BY <2>1 DEF OnlyCall
  <2>3. TypeOK'
    <3>1. \A b \in Actors : call'[b].op \in Chained /\ call'[b].pc # "queued" => chain' = b
      BY <1>1, <1>4, <1>5, <2>1, <2>2, ChainStep
    <3>2. QED
      BY <3>1, <1>1, <1>4, <1>7, <2>1 DEF TypeOK, OfOthers
  <2>4. Good(a)'
    <3>1. \A u \in call[a].left : call'[u].pc = "over"
      BY <1>1, <1>2, <1>5, <2>1 DEF Good, Reconciles, Over, Actors, Call
    <3>2. call'[t].pc = "over"
      BY <1>2, <3>1
    <3>3. sessions' = sessions \ {t}
      BY <1>7
    <3>4. QED
      BY <1>1, <2>1, <3>1, <3>2, <3>3
      DEF Good, Reconciles, Disposes, Owns, Aims, Disposals, Opened, Over
  <2>5. Sound'
    <3>1. \A s \in sessions' \cap running : lock[profile[s]] = s
      BY <1>1, <1>7 DEF Records, RegisteredOwnsProfile
    <3>2. \A s \in Sessions :
             lock'[profile[s]] = s \/ directory'[s] = "present" =>
                /\ s \in sessions => s \in sessions' \/ call'[a].dead = s
                /\ call[a].dead = s => s \in sessions' \/ call'[a].dead = s
      BY <1>3, <1>5, <1>7, <2>1
    <3>3. QED
      BY <1>1, <1>2, <1>4, <1>7, <2>2, <2>3, <2>4, <3>1, <3>2, ShrinkStep DEF Opened
  <2>6. Observed'
    BY <1>1, <1>4, <1>7, <2>1, <2>2, QuietCall DEF OfOthers
  <2>7. QED
    BY <2>3, <2>5, <2>6 DEF IInv
<1>8. Fault \/ UNCHANGED faults => faults' \in 0 .. MaxFaults
  BY <1>5 DEF Fault
<1>9. QED
  BY <1>6, <1>7, <1>8 DEF Probe

(* The removal of a directory, of whose failure nobody hears.              *)
LEMMA SweptDirectory ==
    ASSUME BrowserAssumption, TypeOK, Records, NEW d \in Sessions, Swept(d)
    PROVE  /\ directory' \in [Sessions -> {"none", "present", "left"}]
           /\ \A s \in Sessions : directory'[s] = "present" => directory[s] = "present"
           /\ \A s \in Sessions \ {d} : directory'[s] = directory[s]
           /\ directory'[d] # "present"
           /\ faults' \in 0 .. MaxFaults
<1>1. directory \in [Sessions -> {"none", "present", "left"}] /\ faults \in 0 .. MaxFaults
  BY DEF TypeOK
<1>2. directory[d] = "present" => Ephemeral(d)
  BY DEF Records, Ephemeral
<1>3. CASE /\ directory' = [directory EXCEPT ![d] = IF Ephemeral(d) THEN "none" ELSE @]
           /\ faults' = faults
  BY <1>1, <1>2, <1>3
<1>4. CASE /\ Ephemeral(d) /\ Fault
           /\ directory' = [directory EXCEPT ![d] = IF @ = "none" THEN @ ELSE "left"]
  BY <1>1, <1>4 DEF Fault, BrowserAssumption
<1>5. QED
  BY <1>3, <1>4 DEF Swept

LEMMA UnlockStep ==
    ASSUME BrowserAssumption, IInv, NEW a \in Actors, Unlock(a)
    PROVE  IInv'
<1> DEFINE d == call[a].dead
<1>1. TypeOK /\ Sound /\ Observed /\ Good(a) /\ Records
  BY DEF IInv, Sound
<1>2. call[a].pc = "unlock"
  BY DEF Unlock
<1>3. d \in Sessions /\ d \notin sessions /\ Over(d) /\ profile[d] \in AllProfiles
  BY <1>1, <1>2 DEF Good, Reconciles, TypeOK
<1>4. /\ sessions' = sessions /\ profile' = profile /\ directory' = directory
      /\ running' = running /\ profilesInUse' = profilesInUse /\ page' = page
      /\ chain' = chain /\ faults' = faults
      /\ observations' = observations /\ issued' = issued /\ acted' = acted
  BY DEF Unlock, records, pages
<1>5. lock' = [lock EXCEPT ![profile[d]] = IF @ = d THEN Nobody ELSE @] /\ Step(a, "sweep")
  BY DEF Unlock, Released
<1>6. "sweep" \in Places /\ call \in [Actors -> Call] /\ Nobody \notin Actors
  BY <1>1 DEF Places, TypeOK, BrowserAssumption
<1>7. /\ OnlyCall(a) /\ call'[a].pc = "sweep" /\ call'[a].left = call[a].left
      /\ call'[a].op = call[a].op /\ call'[a].target = call[a].target /\ call'[a].dead = d
  BY <1>5, <1>6, StepCall
<1>8. /\ lock' \in [AllProfiles -> Actors \cup {OtherGateway, Nobody}]
      /\ \A p \in AllProfiles : lock'[p] = lock[p] \/ (lock[p] = d /\ lock'[p] = Nobody)
      /\ lock'[profile[d]] # d
  BY <1>1, <1>3, <1>5, <1>6 DEF TypeOK, Actors
<1>9. TypeOK'
  <2>1. call[a].op \in Chained => chain = a
    BY <1>1, <1>2 DEF TypeOK
  <2>2. \A b \in Actors : call'[b].op \in Chained /\ call'[b].pc # "queued" => chain' = b
    BY <1>1, <1>4, <1>7, <2>1, ChainStep
  <2>3. QED
    BY <2>2, <1>1, <1>4, <1>7, <1>8 DEF TypeOK, OnlyCall
<1>10. Good(a)'
  <2>1. (\A u \in call[a].left : call'[u].pc = "over") /\ call'[d].pc = "over"
    BY <1>1, <1>2, <1>3, <1>6, <1>7 DEF Good, Reconciles, Over, OnlyCall, Actors, Call
  <2>2. QED
    BY <1>1, <1>3, <1>4, <1>7, <1>8, <2>1
    DEF Good, Reconciles, Disposes, Owns, Aims, Disposals, Opened, Over
<1>11. Sound'
  <2>1. \A s \in sessions' \cap running : lock'[profile[s]] = s
    <3>1. \A s \in sessions \cap running : lock[profile[s]] = s /\ profile[s] \in AllProfiles
      BY <1>1 DEF Records, RegisteredOwnsProfile, TypeOK
    <3>2. QED
      BY <3>1, <1>3, <1>4, <1>8
  <2>2. \A s \in Sessions, p \in AllProfiles : lock'[p] = s => lock[p] = s
    BY <1>6, <1>8 DEF Actors
  <2>3. \A b \in Actors \ {a}, p \in AllProfiles : ~Over(b) /\ lock[p] = b => lock'[p] = b
    BY <1>3, <1>8
  <2>4. a \in Sessions => call[a].pc \notin Opened \cup {"lock", "clean", "over"}
    BY <1>2 DEF Opened
  <2>5. QED
    BY <1>1, <1>4, <1>7, <1>9, <1>10, <2>1, <2>2, <2>3, <2>4, ShrinkStep
<1>12. Observed'
  BY <1>1, <1>4, <1>7, QuietCall
<1>13. QED
  BY <1>9, <1>11, <1>12 DEF IInv

LEMMA SweepStep ==
    ASSUME BrowserAssumption, IInv, NEW a \in Actors, Sweep(a)
    PROVE  IInv'
<1> DEFINE d == call[a].dead
<1>1. TypeOK /\ Sound /\ Observed /\ Good(a) /\ Records
  BY DEF IInv, Sound
<1>2. call[a].pc = "sweep"
  BY DEF Sweep
<1>3. d \in Sessions /\ d \notin sessions /\ Over(d) /\ lock[profile[d]] # d
  BY <1>1, <1>2 DEF Good, Reconciles
<1>4. /\ sessions' = sessions /\ profile' = profile /\ lock' = lock /\ chain' = chain
      /\ running' = running /\ profilesInUse' = profilesInUse /\ page' = page
      /\ observations' = observations /\ issued' = issued /\ acted' = acted
  BY DEF Sweep, records, pages
<1>5. /\ directory' \in [Sessions -> {"none", "present", "left"}]
      /\ \A s \in Sessions : directory'[s] = "present" => directory[s] = "present"
      /\ directory'[d] # "present" /\ faults' \in 0 .. MaxFaults
  BY <1>1, <1>3, SweptDirectory DEF Sweep
<1>6. call \in [Actors -> Call] /\ "reconcile" \in Places
  BY <1>1 DEF TypeOK, Places
<1>7. /\ OnlyCall(a) /\ call'[a].pc = "reconcile" /\ call'[a].left = call[a].left
      /\ call'[a].op = call[a].op /\ call'[a].target = call[a].target
      /\ call'[a].dead = Nobody
  BY <1>6 DEF Sweep, OnlyCall, Call
<1>8. TypeOK'
  <2>1. call[a].op \in Chained => chain = a
    BY <1>1, <1>2 DEF TypeOK
  <2>2. \A b \in Actors : call'[b].op \in Chained /\ call'[b].pc # "queued" => chain' = b
    BY <1>1, <1>4, <1>7, <2>1, ChainStep
  <2>3. QED
    BY <2>2, <1>1, <1>4, <1>5, <1>7 DEF TypeOK, OnlyCall
<1>9. Good(a)'
  <2>1. \A u \in call[a].left : call'[u].pc = "over"
    BY <1>1, <1>2, <1>6, <1>7 DEF Good, Reconciles, Over, OnlyCall, Actors, Call
  <2>2. QED
    BY <1>1, <1>7, <2>1
    DEF Good, Reconciles, Disposes, Owns, Aims, Disposals, Opened, Over
<1>10. Sound'
  <2>1. \A s \in sessions' \cap running : lock'[profile[s]] = s
    BY <1>1, <1>4 DEF Records, RegisteredOwnsProfile
  <2>2. \A s \in Sessions :
           lock'[profile[s]] = s \/ directory'[s] = "present" =>
              /\ s \in sessions => s \in sessions' \/ call'[a].dead = s
              /\ call[a].dead = s => s \in sessions' \/ call'[a].dead = s
    BY <1>3, <1>4, <1>5
  <2>3. a \in Sessions => call[a].pc \notin Opened \cup {"lock", "clean", "over"}
    BY <1>2 DEF Opened
  <2>4. QED
    BY <1>1, <1>4, <1>5, <1>7, <1>8, <1>9, <2>1, <2>2, <2>3, ShrinkStep
<1>11. Observed'
  BY <1>1, <1>4, <1>7, QuietCall
<1>12. QED
  BY <1>8, <1>10, <1>11 DEF IInv

-----------------------------------------------------------------------------
(* Deletions of profiles.                                                  *)

LEMMA LockForDeletionStep ==
    ASSUME BrowserAssumption, IInv, NEW c \in Clients, LockForDeletion(c)
    PROVE  IInv'
<1> DEFINE t == call[c].target
<1>1. TypeOK /\ Sound /\ Observed /\ Good(c) /\ Records /\ c \in Actors /\ c \notin Sessions
  BY DEF IInv, Sound, Actors, BrowserAssumption
<1>2. call[c].pc = "reconcile" /\ call[c].op = "delete" /\ call[c].dead = Nobody
  BY <1>1 DEF LockForDeletion, Reconciled, At, Good, Reconciles
<1>3. /\ sessions' = sessions /\ profile' = profile /\ directory' = directory
      /\ running' = running /\ profilesInUse' = profilesInUse
      /\ page' = page /\ faults' = faults
      /\ observations' = observations /\ issued' = issued /\ acted' = acted
  BY DEF LockForDeletion, records, pages
<1>4. /\ page \in [Sessions -> 0 .. MaxVersion] /\ faults \in 0 .. MaxFaults
      /\ call \in [Actors -> Call] /\ "maintain" \in Places
      /\ t \in Profiles /\ t \in AllProfiles /\ Nobody \notin Actors
      /\ lock \in [AllProfiles -> Actors \cup {OtherGateway, Nobody}]
      /\ chain = c
  BY <1>1, <1>2 DEF TypeOK, Places, AllProfiles, BrowserAssumption, Good, Aims, Chained
<1>5. CASE lock[t] = Nobody
  <2>1. lock' = [lock EXCEPT ![t] = c] /\ Step(c, "maintain") /\ chain' = chain
    BY <1>5 DEF LockForDeletion
  <2>2. /\ OnlyCall(c) /\ call'[c].pc = "maintain" /\ call'[c].left = call[c].left
        /\ call'[c].op = call[c].op /\ call'[c].target = t /\ call'[c].dead = call[c].dead
    BY <2>1, <1>1, <1>4, StepCall
  <2>3. /\ lock' \in [AllProfiles -> Actors \cup {OtherGateway, Nobody}] /\ lock'[t] = c
        /\ \A p \in AllProfiles :
              lock'[p] = lock[p] \/ (lock[p] = Nobody /\ lock'[p] = c)
    BY <1>1, <1>4, <1>5, <2>1
  <2>4. TypeOK'
    <3>1. \A b \in Actors : call'[b].op \in Chained /\ call'[b].pc # "queued" => chain' = b
      BY <1>1, <1>4, <2>1, <2>2, ChainStep
    <3>2. QED
      BY <3>1, <1>1, <1>3, <2>1, <2>2, <2>3 DEF TypeOK, OnlyCall
  <2>5. Good(c)'
    <3>1. call[c].left = {}
      BY DEF LockForDeletion, Reconciled
    <3>2. QED
      BY <1>1, <1>2, <1>4, <2>2, <2>3, <3>1
      DEF Good, Reconciles, Disposes, Owns, Aims, Disposals, Opened, Over
  <2>6. Sound'
    <3>1. \A s \in sessions' \cap running : lock'[profile[s]] = s
      <4>1. \A s \in sessions \cap running :
               lock[profile[s]] = s /\ profile[s] \in AllProfiles /\ s \in Actors
        BY <1>1 DEF Records, RegisteredOwnsProfile, TypeOK, Actors
      <4>2. QED
        BY <4>1, <1>3, <1>4, <2>3
    <3>2. \A s \in Sessions, p \in AllProfiles : lock'[p] = s => lock[p] = s
      BY <1>1, <2>3
    <3>3. \A b \in Actors \ {c}, p \in AllProfiles : ~Over(b) /\ lock[p] = b => lock'[p] = b
      BY <1>4, <2>3
    <3>4. QED
      BY <1>1, <1>3, <2>2, <2>4, <2>5, <3>1, <3>2, <3>3, ShrinkStep
  <2>7. Observed'
    BY <1>1, <1>3, <2>2, QuietCall
  <2>8. QED
    BY <2>4, <2>6, <2>7 DEF IInv
<1>6. CASE lock[t] # Nobody
  <2>1. Return(c) /\ lock' = lock
    BY <1>6 DEF LockForDeletion
  <2>2. QED
    BY <2>1, <1>1, <1>2, <1>3, <1>4, QuietReturn
<1>7. QED
  BY <1>5, <1>6

LEMMA DeleteProfileStep ==
    ASSUME BrowserAssumption, IInv, NEW c \in Clients, DeleteProfile(c)
    PROVE  IInv'
<1> DEFINE t == call[c].target
<1>1. TypeOK /\ Sound /\ Observed /\ Good(c) /\ Records /\ c \in Actors /\ c \notin Sessions
  BY DEF IInv, Sound, Actors, BrowserAssumption
<1>2. call[c].pc = "maintain" /\ call[c].dead = Nobody /\ Return(c)
  BY <1>1 DEF DeleteProfile, At, Good, Reconciles
<1>3. /\ sessions' = sessions /\ profile' = profile /\ directory' = directory
      /\ running' = running /\ profilesInUse' = profilesInUse
      /\ page' = page /\ faults' = faults
      /\ observations' = observations /\ issued' = issued /\ acted' = acted
      /\ lock' = [lock EXCEPT ![t] = Nobody]
  BY DEF DeleteProfile, records, pages
<1>4. /\ call \in [Actors -> Call] /\ chain \in Actors \cup {Nobody}
      /\ t \in AllProfiles /\ lock[t] = c /\ Nobody \notin Actors
      /\ Nobody \notin Chained \cup Unchained
  BY <1>1, <1>2 DEF TypeOK, AllProfiles, BrowserAssumption, Good, Owns
<1>5. /\ OnlyCall(c) /\ call'[c].pc \in {"idle", "over"} /\ call'[c].left = {}
      /\ call'[c].op = Nobody /\ call'[c].dead = Nobody
      /\ chain' = IF chain = c THEN Nobody ELSE chain
  BY <1>1, <1>2, <1>4, ReturnCall
<1>6. /\ lock' \in [AllProfiles -> Actors \cup {OtherGateway, Nobody}]
      /\ \A p \in AllProfiles : lock'[p] = lock[p] \/ (lock[p] = c /\ lock'[p] = Nobody)
  BY <1>1, <1>3, <1>4 DEF TypeOK
<1>7. TypeOK'
  <2>1. \A b \in Actors : call'[b].op \in Chained /\ call'[b].pc # "queued" => chain' = b
    BY <1>1, <1>4, <1>5, ChainStep
  <2>2. QED
    BY <2>1, <1>1, <1>3, <1>4, <1>5, <1>6 DEF TypeOK, OnlyCall
<1>8. Good(c)'
  BY <1>4, <1>5
  DEF Good, Reconciles, Disposes, Owns, Aims, Disposals, Opened, Chained, Unchained
<1>9. Sound'
  <2>1. \A s \in sessions' \cap running : lock'[profile[s]] = s
    <3>1. \A s \in sessions \cap running :
             lock[profile[s]] = s /\ profile[s] \in AllProfiles /\ s # c
      BY <1>1 DEF Records, RegisteredOwnsProfile, TypeOK, Actors
    <3>2. QED
      BY <3>1, <1>3, <1>6
  <2>2. \A s \in Sessions, p \in AllProfiles : lock'[p] = s => lock[p] = s
    BY <1>4, <1>6 DEF Actors
  <2>3. \A b \in Actors \ {c}, p \in AllProfiles : ~Over(b) /\ lock[p] = b => lock'[p] = b
    BY <1>6
  <2>4. QED
    BY <1>1, <1>2, <1>3, <1>5, <1>7, <1>8, <2>1, <2>2, <2>3, ShrinkStep
<1>10. Observed'
  BY <1>1, <1>3, <1>5, QuietCall
<1>11. QED
  BY <1>7, <1>9, <1>10 DEF IInv

-----------------------------------------------------------------------------
(* Observations: issued, taken and spent.                                  *)

LEMMA ReadPageStep ==
    ASSUME BrowserAssumption, IInv, NEW c \in Clients, ReadPage(c)
    PROVE  IInv'
<1>1. TypeOK /\ Good(c) /\ c \in Actors /\ c \notin Sessions
  BY DEF IInv, Sound, Actors, BrowserAssumption
<1>2. call[c].pc = "reconcile" /\ call[c].op = "snapshot" /\ call[c].left = {}
  BY DEF ReadPage, Reconciled, At
<1>3. /\ sessions' = sessions /\ profile' = profile /\ lock' = lock
      /\ directory' = directory /\ running' = running /\ profilesInUse' = profilesInUse
      /\ page' = page /\ faults' = faults
      /\ observations' = observations /\ issued' = issued /\ acted' = acted
  BY DEF ReadPage, records, pages
<1>4. /\ page \in [Sessions -> 0 .. MaxVersion] /\ faults \in 0 .. MaxFaults
      /\ call \in [Actors -> Call] /\ chain \in Actors \cup {Nobody}
      /\ call[c].target \in Sessions
  BY <1>1, <1>2 DEF TypeOK, Good, Aims
<1>5. ASSUME call' = [call EXCEPT ![c].pc = "issue",
                         ![c].seen = [NoObservation EXCEPT !.version = page[call[c].target]]],
             chain' = chain
      PROVE  IInv'
  <2> DEFINE saw == [NoObservation EXCEPT !.version = page[call[c].target]]
  <2>1. saw \in Seen /\ "issue" \in Places
    BY <1>4, IdleCall DEF Seen, Places
  <2>2. call' = [call EXCEPT ![c].pc = "issue", ![c].seen = saw]
    BY <1>5
  <2> HIDE DEF saw
  <2>3. /\ OnlyCall(c) /\ call'[c].pc = "issue" /\ call'[c].left = call[c].left
        /\ call'[c].op = call[c].op /\ call'[c].target = call[c].target
        /\ call'[c].dead = call[c].dead
    BY <1>1, <1>4, <2>1, <2>2 DEF OnlyCall, Call
  <2>4. Good(c)'
    BY <1>1, <1>2, <1>4, <2>3
    DEF Good, Reconciles, Disposes, Owns, Aims, Disposals, Opened, Over
  <2>5. "snapshot" \notin Chained
    BY DEF Chained
  <2>6. chain' = chain
    BY <1>5
  <2>7. QED
    BY <1>1, <1>2, <1>3, <1>4, <2>3, <2>4, <2>5, <2>6, QuietStep
<1>6. CASE Return(c)
  BY <1>1, <1>2, <1>3, <1>4, <1>6, QuietReturn
<1>7. QED
  BY <1>5, <1>6 DEF ReadPage

LEMMA IssueObservationStep ==
    ASSUME BrowserAssumption, IInv, NEW c \in Clients, IssueObservation(c)
    PROVE  IInv'
<1>1. TypeOK /\ Observed /\ Good(c) /\ c \in Actors /\ c \notin Sessions
  BY DEF IInv, Sound, Actors, BrowserAssumption
<1>2. call[c].pc = "issue" /\ call[c].op = "snapshot" /\ Return(c) /\ call[c].dead = Nobody
  BY <1>1 DEF IssueObservation, At, Good, Reconciles
<1>3. /\ sessions' = sessions /\ profile' = profile /\ lock' = lock
      /\ directory' = directory /\ running' = running /\ profilesInUse' = profilesInUse
      /\ page' = page /\ faults' = faults /\ acted' = acted
  BY DEF IssueObservation
<1>4. /\ page \in [Sessions -> 0 .. MaxVersion] /\ faults \in 0 .. MaxFaults
      /\ call \in [Actors -> Call] /\ chain \in Actors \cup {Nobody}
      /\ acted \in [Ids -> Nat]
      /\ call[c].target \in Sessions /\ call[c].seen.version \in 0 .. MaxVersion
      /\ Nobody \notin Chained \cup Unchained
  BY <1>1, <1>2 DEF TypeOK, Good, Aims, Call, Seen, BrowserAssumption
<1>5. /\ OnlyCall(c) /\ call'[c].pc \in {"idle", "over"} /\ call'[c].left = {}
      /\ call'[c].op = Nobody /\ call'[c].dead = Nobody
      /\ chain' = IF chain = c THEN Nobody ELSE chain
  BY <1>1, <1>2, <1>4, ReturnCall
<1>6. Good(c)'
  BY <1>4, <1>5
  DEF Good, Reconciles, Disposes, Owns, Aims, Disposals, Opened, Chained, Unchained
<1>7. PICK new \in Observation :
         /\ new.id = issued + 1 /\ observations' = observations \cup {new}
         /\ issued' = issued + 1 /\ issued' \in Ids
  <2>1. issued \in 0 .. MaxObservations /\ issued < MaxObservations /\ MaxObservations \in Nat
    BY <1>1 DEF TypeOK, IssueObservation, BrowserAssumption
  <2> DEFINE new == [id |-> issued + 1, session |-> call[c].target,
                     version |-> call[c].seen.version]
  <2>2. new \in Observation
    BY <2>1, <1>4 DEF Observation, Ids
  <2>3. /\ new.id = issued + 1 /\ observations' = observations \cup {new}
        /\ issued' = issued + 1 /\ issued' \in Ids
    BY <2>1 DEF IssueObservation, Ids
  <2>4. QED
    BY <2>2, <2>3
<1>8. Observed'
  <2>1. issued \in Nat /\ observations \subseteq Observation
    BY <1>1 DEF TypeOK
  <2>2. /\ \A o \in observations : o.id \in 1 .. issued
        /\ \A b \in Actors : Holds(b) => call[b].seen.id \in 1 .. issued
        /\ acted[issued + 1] = 0
    BY <1>1, <1>7, <2>1 DEF Observed
  <2>3. \A b \in Actors : call'[b].pc \in {"check", "act"} => Holds(b) /\ call'[b].seen = call[b].seen
    BY <1>5 DEF OnlyCall, Holds
  <2>4. (\A o \in observations : o.id \in 1 .. issued /\ acted[o.id] = 0)'
    BY <1>1, <1>3, <1>7, <2>1, <2>2 DEF Observed
  <2>5. (\A o, q \in observations : o.id = q.id => o = q)'
    BY <1>1, <1>7, <2>1, <2>2 DEF Observed
  <2>6. (\A b \in Actors :
           Holds(b) =>
              /\ call[b].seen.id \in 1 .. issued /\ acted[call[b].seen.id] = 0
              /\ \A o \in observations : o.id # call[b].seen.id)'
    BY <1>1, <1>3, <1>7, <2>1, <2>2, <2>3 DEF Observed, Holds
  <2>7. (\A a, b \in Actors :
           Holds(a) /\ Holds(b) /\ a # b => call[a].seen.id # call[b].seen.id)'
    BY <1>1, <2>3 DEF Observed, Holds
  <2>8. (\A o \in Ids : acted[o] <= 1 /\ (o > issued => acted[o] = 0))'
    BY <1>1, <1>3, <1>7, <2>1 DEF Observed, Ids
  <2>9. QED
    BY <2>4, <2>5, <2>6, <2>7, <2>8 DEF Observed
<1>9. observations' \subseteq Observation /\ issued' \in 0 .. MaxObservations
  BY <1>1, <1>7 DEF TypeOK, Ids
<1>10. QED
  BY <1>1, <1>2, <1>3, <1>4, <1>5, <1>6, <1>8, <1>9, PlainStep

LEMMA ConsumeObservationStep ==
    ASSUME BrowserAssumption, IInv, NEW c \in Clients, NEW o \in observations,
           ConsumeObservation(c, o)
    PROVE  IInv'
<1>1. TypeOK /\ Observed /\ Good(c) /\ c \in Actors /\ c \notin Sessions
  BY DEF IInv, Sound, Actors, BrowserAssumption
<1>2. call[c].pc = "reconcile" /\ call[c].op = "act" /\ call[c].left = {}
  BY DEF ConsumeObservation, Reconciled, At
<1>3. /\ sessions' = sessions /\ profile' = profile /\ lock' = lock
      /\ directory' = directory /\ running' = running /\ profilesInUse' = profilesInUse
      /\ page' = page /\ faults' = faults /\ issued' = issued /\ acted' = acted
  BY DEF ConsumeObservation, pages
<1>4. /\ page \in [Sessions -> 0 .. MaxVersion] /\ faults \in 0 .. MaxFaults
      /\ call \in [Actors -> Call] /\ chain \in Actors \cup {Nobody}
      /\ call[c].target \in Sessions /\ o \in Seen /\ "check" \in Places
      /\ observations \subseteq Observation /\ issued \in 0 .. MaxObservations
      /\ acted \in [Ids -> Nat]
  BY <1>1, <1>2 DEF TypeOK, Good, Aims, Observation, Seen, Places
<1>5. CASE o.session = call[c].target
  <2>1. /\ call' = [call EXCEPT ![c].pc = "check", ![c].seen = o] /\ chain' = chain
        /\ observations' = OfOthers(o.session)
    BY <1>5 DEF ConsumeObservation
  <2>2. /\ OnlyCall(c) /\ call'[c].pc = "check" /\ call'[c].left = call[c].left
        /\ call'[c].op = call[c].op /\ call'[c].target = call[c].target
        /\ call'[c].dead = call[c].dead /\ call'[c].seen = o
    BY <1>1, <1>4, <2>1 DEF OnlyCall, Call
  <2>3. Good(c)'
    BY <1>1, <1>2, <1>4, <2>2
    DEF Good, Reconciles, Disposes, Owns, Aims, Disposals, Opened, Over
  <2>4. Observed'
    <3>1. observations' \subseteq observations /\ \A q \in observations' : q.id # o.id
      BY <1>1, <2>1 DEF Observed, OfOthers
    <3>2. \A b \in Actors \ {c} :
             call'[b].pc \in {"check", "act"} =>
                Holds(b) /\ call'[b].seen = call[b].seen /\ call[b].seen.id # o.id
      BY <1>1, <2>2 DEF Observed, OnlyCall, Holds
    <3>3. o.id \in 1 .. issued /\ acted[o.id] = 0
      BY <1>1 DEF Observed
    <3>4. (\A q \in observations : q.id \in 1 .. issued /\ acted[q.id] = 0)'
      BY <1>1, <1>3, <3>1 DEF Observed
    <3>5. (\A q, r \in observations : q.id = r.id => q = r)'
      BY <1>1, <3>1 DEF Observed
    <3>6. (\A b \in Actors :
             Holds(b) =>
                /\ call[b].seen.id \in 1 .. issued /\ acted[call[b].seen.id] = 0
                /\ \A q \in observations : q.id # call[b].seen.id)'
      BY <1>1, <1>3, <2>2, <3>1, <3>2, <3>3 DEF Observed, Holds
    <3>7. (\A a, b \in Actors :
             Holds(a) /\ Holds(b) /\ a # b => call[a].seen.id # call[b].seen.id)'
      BY <1>1, <2>2, <3>2 DEF Observed, Holds
    <3>8. (\A q \in Ids : acted[q] <= 1 /\ (q > issued => acted[q] = 0))'
      BY <1>1, <1>3 DEF Observed
    <3>9. QED
      BY <3>4, <3>5, <3>6, <3>7, <3>8 DEF Observed
  <2>5. "act" \notin Chained /\ observations' \subseteq Observation
    BY <1>4, <2>1 DEF Chained, OfOthers
  <2>6. QED
    BY <1>1, <1>2, <1>3, <1>4, <2>1, <2>2, <2>3, <2>4, <2>5, PlainStep
<1>6. CASE o.session # call[c].target
  <2>1. Return(c) /\ observations' \subseteq observations
    BY <1>6 DEF ConsumeObservation
  <2>2. QED
    BY <2>1, <1>1, <1>2, <1>3, <1>4, QuietReturn
<1>7. QED
  BY <1>5, <1>6

LEMMA CheckStateStep ==
    ASSUME BrowserAssumption, IInv, NEW c \in Clients, CheckState(c)
    PROVE  IInv'
<1>1. TypeOK /\ Observed /\ Good(c) /\ c \in Actors /\ c \notin Sessions
  BY DEF IInv, Sound, Actors, BrowserAssumption
<1>2. call[c].pc = "check" /\ call[c].op = "act"
  BY DEF CheckState, At
<1>3. /\ sessions' = sessions /\ profile' = profile /\ lock' = lock
      /\ directory' = directory /\ running' = running /\ profilesInUse' = profilesInUse
      /\ page' = page /\ faults' = faults
      /\ observations' = observations /\ issued' = issued /\ acted' = acted
  BY DEF CheckState, records, pages
<1>4. /\ page \in [Sessions -> 0 .. MaxVersion] /\ faults \in 0 .. MaxFaults
      /\ call \in [Actors -> Call] /\ chain \in Actors \cup {Nobody}
      /\ observations \subseteq Observation /\ issued \in 0 .. MaxObservations
      /\ acted \in [Ids -> Nat] /\ "act" \in Places
  BY <1>1 DEF TypeOK, Places
<1>5. CASE Step(c, "act") /\ chain' = chain
  <2>1. /\ OnlyCall(c) /\ call'[c].pc = "act" /\ call'[c].left = call[c].left
        /\ call'[c].op = call[c].op /\ call'[c].target = call[c].target
        /\ call'[c].dead = call[c].dead /\ call'[c].seen = call[c].seen
    BY <1>1, <1>4, <1>5, StepCall
  <2>2. \A u \in call[c].left : call'[u].pc = "over"
    BY <1>1, <1>2, <1>4, <2>1 DEF Good, Reconciles, Over, OnlyCall, Actors, Call
  <2>3. Good(c)'
    BY <1>1, <1>2, <2>1, <2>2
    DEF Good, Reconciles, Disposes, Owns, Aims, Disposals, Opened, Over
  <2>4. Observed'
    <3>1. \A b \in Actors :
             call'[b].pc \in {"check", "act"} => Holds(b) /\ call'[b].seen = call[b].seen
      BY <1>2, <2>1 DEF OnlyCall, Holds
    <3>2. QED
      BY <1>1, <1>3, <3>1, QuietObserved
  <2>5. "act" \notin Chained
    BY DEF Chained
  <2>6. QED
    BY <1>1, <1>2, <1>3, <1>4, <1>5, <2>1, <2>3, <2>4, <2>5, PlainStep
<1>6. CASE Return(c)
  BY <1>1, <1>2, <1>3, <1>4, <1>6, QuietReturn
<1>7. QED
  BY <1>5, <1>6 DEF CheckState

LEMMA ActStep ==
    ASSUME BrowserAssumption, IInv, NEW c \in Clients, Act(c)
    PROVE  IInv'
<1> DEFINE n == call[c].seen.id
<1>1. TypeOK /\ Observed /\ Good(c) /\ Records /\ c \in Actors /\ c \notin Sessions
  BY DEF IInv, Sound, Actors, BrowserAssumption
<1>2. call[c].pc = "act" /\ call[c].op = "act" /\ call[c].dead = Nobody
  BY <1>1 DEF Act, At, Good, Reconciles
<1>3. /\ sessions' = sessions /\ profile' = profile /\ lock' = lock
      /\ directory' = directory /\ running' = running /\ profilesInUse' = profilesInUse
      /\ faults' = faults /\ observations' = observations /\ issued' = issued
  BY DEF Act, records
<1>4. /\ page \in [Sessions -> 0 .. MaxVersion] /\ faults \in 0 .. MaxFaults
      /\ call \in [Actors -> Call] /\ chain \in Actors \cup {Nobody}
      /\ observations \subseteq Observation /\ issued \in 0 .. MaxObservations
      /\ acted \in [Ids -> Nat] /\ MaxVersion \in Nat /\ sessions \in SUBSET Sessions
      /\ call[c].target \in Sessions /\ MaxObservations \in Nat
  BY <1>1, <1>2 DEF TypeOK, BrowserAssumption, Good, Aims
<1>5. CASE Return(c) /\ page' = page /\ acted' = acted
  BY <1>1, <1>2, <1>3, <1>4, <1>5, QuietReturn
<1>6. ASSUME page' = page \/ (/\ page[call[c].target] < MaxVersion
                              /\ page' = [page EXCEPT ![call[c].target] = @ + 1]),
             acted' = [acted EXCEPT ![n] = @ + 1],
             call' = [call EXCEPT ![c] =
                         Begun("snapshot", "reconcile", sessions, call[c].target)],
             chain' = chain
      PROVE  IInv'
  <2>1. /\ OnlyCall(c) /\ call'[c].pc = "reconcile" /\ call'[c].left = sessions
        /\ call'[c].op = "snapshot" /\ call'[c].target = call[c].target
        /\ call'[c].dead = Nobody
    <3>1. "reconcile" \in Places /\ "snapshot" \in Chained \cup Unchained
      BY DEF Places, Unchained
    <3>2. Begun("snapshot", "reconcile", sessions, call[c].target) \in Call
      BY <3>1, <1>4, BegunCall
    <3>3. QED
      BY <3>2, <1>1, <1>4, <1>6 DEF OnlyCall, Begun
  <2>2. \A u \in sessions : call'[u].pc = "over"
    BY <1>1, <1>4, <2>1 DEF Records, Over, OnlyCall, Actors
  <2>3. Good(c)'
    BY <1>4, <2>1, <2>2
    DEF Good, Reconciles, Disposes, Owns, Aims, Disposals, Opened, Over
  <2>4. page' \in [Sessions -> 0 .. MaxVersion]
    <3>1. ASSUME page[call[c].target] < MaxVersion
          PROVE  page[call[c].target] + 1 \in 0 .. MaxVersion
      BY <1>4, <3>1
    <3>2. QED
      BY <1>4, <1>6, <3>1
  <2>5. /\ n \in 1 .. issued /\ n \in Ids /\ acted[n] = 0
        /\ \A o \in observations : o.id # n
        /\ \A b \in Actors \ {c} : Holds(b) => call[b].seen.id # n
    BY <1>1, <1>2, <1>4 DEF Observed, Holds, Ids
  <2>6. /\ acted' \in [Ids -> Nat] /\ acted'[n] = 1
        /\ \A i \in Ids \ {n} : acted'[i] = acted[i]
    BY <1>4, <1>6, <2>5
  <2>7. Observed'
    <3>1. \A i \in 1 .. issued : i \in Ids
      BY <1>4 DEF Ids
    <3>2. \A b \in Actors :
             call'[b].pc \in {"check", "act"} =>
                Holds(b) /\ b # c /\ call'[b].seen = call[b].seen
      BY <2>1 DEF OnlyCall, Holds
    <3>3. (\A o \in observations : o.id \in 1 .. issued /\ acted[o.id] = 0)'
      BY <1>1, <1>3, <2>5, <2>6, <3>1 DEF Observed
    <3>4. (\A o, q \in observations : o.id = q.id => o = q)'
      BY <1>1, <1>3 DEF Observed
    <3>5. (\A b \in Actors :
             Holds(b) =>
                /\ call[b].seen.id \in 1 .. issued /\ acted[call[b].seen.id] = 0
                /\ \A o \in observations : o.id # call[b].seen.id)'
      BY <1>1, <1>3, <2>5, <2>6, <3>1, <3>2 DEF Observed, Holds
    <3>6. (\A a, b \in Actors :
             Holds(a) /\ Holds(b) /\ a # b => call[a].seen.id # call[b].seen.id)'
      BY <1>1, <3>2 DEF Observed, Holds
    <3>7. (\A o \in Ids : acted[o] <= 1 /\ (o > issued => acted[o] = 0))'
      <4>1. \A o \in Ids : acted[o] <= 1 /\ (o > issued => acted[o] = 0)
        BY <1>1 DEF Observed
      <4>2. SUFFICES ASSUME NEW o \in Ids PROVE acted'[o] <= 1 /\ (o > issued => acted'[o] = 0)
        BY <1>3
      <4>3. CASE o = n
        <5>1. o <= issued /\ o \in Nat
          BY <1>4, <2>5, <4>3 DEF Ids
        <5>2. ~(o > issued)
          BY <5>1, <1>4
        <5>3. QED
          BY <2>6, <4>3, <5>2
      <4>4. CASE o # n
        BY <2>6, <4>1, <4>4
      <4>5. QED
        BY <4>3, <4>4
    <3>8. QED
      BY <3>3, <3>4, <3>5, <3>6, <3>7 DEF Observed
  <2>8. "snapshot" \notin Chained
    BY DEF Chained
  <2>9. chain' = chain
    BY <1>6
  <2>10. QED
    BY <1>1, <1>2, <1>3, <1>4, <2>1, <2>3, <2>4, <2>6, <2>7, <2>8, <2>9, PlainStep
<1>7. QED
  BY <1>5, <1>6 DEF Act

-----------------------------------------------------------------------------
(* What happens around the calls.                                          *)

LEMMA OutsideSteps ==
    ASSUME BrowserAssumption, IInv,
           \/ \E o \in observations : Expire(o)
           \/ \E s \in running : Exit(s) \/ PageChanges(s)
    PROVE  IInv'
<1>1. TypeOK /\ Sound /\ Observed
  BY DEF IInv
<1>2. /\ sessions' = sessions /\ profile' = profile /\ lock' = lock /\ call' = call
      /\ directory' = directory /\ profilesInUse' = profilesInUse
      /\ faults' = faults /\ issued' = issued /\ acted' = acted /\ chain' = chain
      /\ running' \subseteq running /\ observations' \subseteq observations
  BY DEF Expire, Exit, PageChanges, records, pages
<1>3. page' \in [Sessions -> 0 .. MaxVersion]
  <2>1. page \in [Sessions -> 0 .. MaxVersion] /\ MaxVersion \in Nat /\ running \subseteq Sessions
    BY <1>1 DEF TypeOK, BrowserAssumption
  <2>2. ASSUME NEW s \in running, PageChanges(s)
        PROVE  page' \in [Sessions -> 0 .. MaxVersion]
    <3>1. page[s] + 1 \in 0 .. MaxVersion /\ page' = [page EXCEPT ![s] = @ + 1]
      BY <2>1, <2>2 DEF PageChanges
    <3>2. QED
      BY <2>1, <3>1
  <2>3. QED
    BY <2>1, <2>2 DEF Expire, Exit, pages
<1>4. TypeOK'
  BY <1>1, <1>2, <1>3 DEF TypeOK
<1>5. Sound'
  BY <1>1, <1>2, FrameStep
<1>6. Observed'
  BY <1>1, <1>2, QuietObserved DEF Holds
<1>7. QED
  BY <1>4, <1>5, <1>6 DEF IInv

(* The other Gateway takes what nobody holds, and returns what it took.    *)
LEMMA OtherStep ==
    ASSUME BrowserAssumption, IInv, NEW p \in Profiles, OtherTakes(p) \/ OtherReleases(p)
    PROVE  IInv'
<1>1. TypeOK /\ Sound /\ Observed /\ Records
  BY DEF IInv, Sound
<1>2. /\ sessions' = sessions /\ profile' = profile /\ call' = call /\ running' = running
      /\ directory' = directory /\ profilesInUse' = profilesInUse /\ page' = page
      /\ faults' = faults /\ issued' = issued /\ acted' = acted /\ chain' = chain
      /\ observations' = observations
  BY DEF OtherTakes, OtherReleases, records, pages
<1>3. /\ lock' \in [AllProfiles -> Actors \cup {OtherGateway, Nobody}]
      /\ \A q \in AllProfiles :
            lock'[q] = lock[q] \/ {lock[q], lock'[q]} \subseteq {OtherGateway, Nobody}
      /\ OtherGateway \notin Actors /\ Nobody \notin Actors
  BY <1>1 DEF TypeOK, OtherTakes, OtherReleases, BrowserAssumption
<1>4. \A b \in Actors, q \in AllProfiles : lock'[q] = b <=> lock[q] = b
  BY <1>3
<1>5. profile \in [Sessions -> AllProfiles] /\ sessions \subseteq Sessions /\ call \in [Actors -> Call]
  BY <1>1 DEF TypeOK
<1>6. TypeOK'
  BY <1>1, <1>2, <1>3 DEF TypeOK
<1>7. ASSUME NEW a \in Actors PROVE Good(a)'
  <2>1. Good(a)
    BY <1>1 DEF Sound
  <2>2. Reconciles(a)'
    BY <2>1, <1>2, <1>4, <1>5 DEF Good, Reconciles, Over, Actors
  <2>3. Disposes(a)'
    BY <2>1, <1>2, <1>4, <1>5 DEF Good, Disposes, Disposals, Over, Actors
  <2>4. Owns(a)'
    BY <2>1, <1>2, <1>4, <1>5 DEF Good, Owns, AllProfiles
  <2>5. QED
    BY <2>1, <2>2, <2>3, <2>4, <1>2 DEF Good, Aims
<1>8. Records'
  <2>1. RegisteredOwnsProfile'
    BY <1>1, <1>2, <1>4, <1>5 DEF Records, RegisteredOwnsProfile, Actors
  <2>2. NothingOrphaned'
    BY <1>1, <1>2, <1>4, <1>5 DEF Records, NothingOrphaned, Attended, Actors
  <2>3. QED
    BY <1>1, <1>2, <1>4, <1>5, <2>1, <2>2 DEF Records, Over, Actors
<1>9. Observed'
  BY <1>1, <1>2, QuietObserved DEF Holds
<1>10. QED
  BY <1>6, <1>7, <1>8, <1>9 DEF IInv, Sound

-----------------------------------------------------------------------------
(* Starts.                                                                 *)

(* A step of a start, which changes what is named by its session only.     *)
LEMMA OwnStep ==
    ASSUME BrowserAssumption, TypeOK, TypeOK', Sound, NEW s \in Sessions, ~Over(s),
           \A b \in Actors \ {s} :
              /\ call'[b].dead = call[b].dead
              /\ call'[b] = call[b] \/ (b \notin Sessions /\ Good(b)'),
           call'[s].dead = call[s].dead,
           Good(s)',
           \A t \in Sessions \ {s} :
              /\ profile'[t] = profile[t] /\ directory'[t] = directory[t]
              /\ (t \in sessions' <=> t \in sessions) /\ (t \in running' <=> t \in running),
           \A b \in Actors \ {s}, p \in AllProfiles : lock'[p] = b <=> lock[p] = b,
           \A p \in AllProfiles :
              lock'[p] = s => p = profile'[s] /\ call'[s].pc \in Opened \cup {"over"},
           directory'[s] = "present" =>
              profile'[s] = s /\ call'[s].pc \in Opened \cup {"lock", "clean", "over"},
           s \in sessions' =>
              /\ call'[s].pc = "over"
              /\ s \in running' => lock'[profile'[s]] = s,
           lock'[profile'[s]] = s \/ directory'[s] = "present" =>
              s \in sessions' \/ call'[s].op = "start"
    PROVE  Sound'
<1>1. Records /\ s \in Actors /\ sessions \subseteq Sessions
  BY DEF Sound, Actors, TypeOK
<1>2. \A t \in Sessions \ {s} : call'[t] = call[t]
  BY DEF Actors
<1>3. /\ profile \in [Sessions -> AllProfiles] /\ profile' \in [Sessions -> AllProfiles]
      /\ sessions' \subseteq Sessions /\ running' \subseteq Sessions /\ running \subseteq Sessions
  BY DEF TypeOK
<1>4. Harmless(s)
  <2>1. \A t \in Sessions : Over(t) => t # s
    OBVIOUS
  <2>2. \A t \in Sessions : Over(t) => call'[t].pc = "over" /\ profile'[t] = profile[t]
    BY <1>2, <2>1 DEF Over
  <2>3. /\ \A t \in sessions' : t \in sessions \/ ~Over(t)
        /\ \A t \in running' : t \in running \/ ~Over(t)
    BY <1>3, <2>1
  <2>4. \A t \in Sessions, p \in AllProfiles : Over(t) /\ lock'[p] = t => lock[p] = t
    BY <2>1 DEF Actors
  <2>5. \A t \in Sessions : Over(t) /\ directory'[t] = "present" => directory[t] = "present"
    BY <2>1
  <2>6. QED
    BY <2>2, <2>3, <2>4, <2>5 DEF Harmless
<1>5. \A b \in Actors : Good(b)'
  <2>1. ASSUME NEW b \in Actors \ {s}, call'[b] = call[b] PROVE Good(b)'
    BY <1>1, <1>4, <2>1, Bystander
  <2>2. QED
    BY <2>1
<1>6. Records'
  <2>1. (\A t \in sessions : Over(t))'
    BY <1>1, <1>2, <1>3 DEF Records, Over
  <2>2. (\A t \in Sessions, p \in AllProfiles :
           lock[p] = t => p = profile[t] /\ call[t].pc \in Opened \cup {"over"})'
    BY <1>1, <1>2 DEF Records, Actors
  <2>3. (\A t \in Sessions :
           directory[t] = "present" =>
              profile[t] = t /\ call[t].pc \in Opened \cup {"lock", "clean", "over"})'
    BY <1>1, <1>2 DEF Records
  <2>4. RegisteredOwnsProfile'
    BY <1>1, <1>3 DEF Records, RegisteredOwnsProfile, Actors
  <2>5. NothingOrphaned'
    <3>1. SUFFICES ASSUME NEW t \in Sessions,
                          lock'[profile'[t]] = t \/ directory'[t] = "present"
                   PROVE  Attended(t)'
      BY DEF NothingOrphaned
    <3>2. CASE t = s
      BY <3>1, <3>2 DEF Attended
    <3>3. CASE t # s
      <4>1. lock[profile[t]] = t \/ directory[t] = "present"
        BY <3>1, <3>3, <1>3 DEF Actors
      <4>2. Attended(t)
        BY <4>1, <1>1 DEF Records, NothingOrphaned
      <4>3. QED
        BY <4>2, <3>3, <1>2 DEF Attended
    <3>4. QED
      BY <3>2, <3>3
  <2>6. QED
    BY <2>1, <2>2, <2>3, <2>4, <2>5 DEF Records
<1>7. QED
  BY <1>5, <1>6 DEF Sound

(* What holds of a start before it has opened its profile.                 *)
LEMMA Unopened ==
    ASSUME BrowserAssumption, IInv, NEW s \in Sessions, call[s].pc \notin Opened \cup {"over"}
    PROVE  /\ s \in Actors /\ s \notin sessions /\ profile[s] \in AllProfiles
           /\ \A p \in AllProfiles : lock[p] # s
           /\ call[s].pc \notin {"lock", "clean"} => directory[s] # "present"
<1>1. TypeOK /\ Records
  BY DEF IInv, Sound
<1>2. QED
  BY <1>1 DEF Records, TypeOK, Actors, Over

LEMMA StartStep ==
    ASSUME BrowserAssumption, IInv, NEW s \in Sessions, NEW p \in Profiles \cup {s}, Start(s, p)
    PROVE  IInv'
<1>1. TypeOK /\ Sound /\ Observed /\ Good(s) /\ call[s].pc = "idle"
  BY DEF IInv, Sound, Start, Actors
<1>2. /\ s \in Actors /\ s \notin sessions
      /\ (\A q \in AllProfiles : lock[q] # s) /\ directory[s] # "present"
  BY <1>1, Unopened DEF Opened
<1>3. /\ sessions' = sessions /\ lock' = lock /\ directory' = directory
      /\ running' = running /\ profilesInUse' = profilesInUse /\ page' = page
      /\ chain' = chain /\ faults' = faults
      /\ observations' = observations /\ issued' = issued /\ acted' = acted
      /\ profile' = [profile EXCEPT ![s] = p]
      /\ call' = [call EXCEPT ![s] = Begun("start", "queued", {}, s)]
  BY DEF Start, records, pages
<1>4. /\ call \in [Actors -> Call] /\ profile \in [Sessions -> AllProfiles]
      /\ p \in AllProfiles
  BY <1>1 DEF TypeOK, AllProfiles
<1>5. /\ OnlyCall(s) /\ call'[s].pc = "queued" /\ call'[s].op = "start"
      /\ call'[s].left = {} /\ call'[s].dead = Nobody
  <2>1. "queued" \in Places /\ "start" \in Chained
    BY DEF Places, Chained
  <2>2. Begun("start", "queued", {}, s) \in Call
    BY <2>1, BegunCall
  <2>3. QED
    BY <2>2, <1>2, <1>3, <1>4 DEF OnlyCall, Begun
<1>6. call[s].dead = Nobody
  BY <1>1 DEF Good, Reconciles
<1>7. Good(s)'
  BY <1>5 DEF Good, Reconciles, Disposes, Owns, Aims, Disposals, Opened
<1>8. profile' \in [Sessions -> AllProfiles] /\ \A t \in Sessions \ {s} : profile'[t] = profile[t]
  BY <1>3, <1>4
<1>9. TypeOK'
  <2>1. \A b \in Actors : call'[b].op \in Chained /\ call'[b].pc # "queued" => chain' = b
    BY <1>1, <1>2, <1>3, <1>5, ChainStep
  <2>2. QED
    BY <2>1, <1>1, <1>3, <1>5, <1>8 DEF TypeOK, OnlyCall
<1>10. Sound'
  <2>1. \A b \in Actors \ {s} : call'[b] = call[b]
    BY <1>5 DEF OnlyCall
  <2>2. ~Over(s) /\ call'[s].dead = call[s].dead
    BY <1>1, <1>5, <1>6 DEF Over
  <2>3. lock'[profile'[s]] # s
    BY <1>2, <1>3, <1>8
  <2>4. QED
    BY <1>1, <1>2, <1>3, <1>7, <1>8, <1>9, <2>1, <2>2, <2>3, OwnStep
<1>11. Observed'
  BY <1>1, <1>2, <1>3, <1>5, QuietCall
<1>12. QED
  BY <1>9, <1>10, <1>11 DEF IInv

LEMMA MakeDirectoryStep ==
    ASSUME BrowserAssumption, IInv, NEW s \in Sessions, MakeDirectory(s)
    PROVE  IInv'
<1>1. TypeOK /\ Sound /\ Observed /\ Good(s) /\ call[s].pc = "reconcile" /\ call[s].op = "start"
  BY DEF IInv, Sound, MakeDirectory, Reconciled, At, Actors
<1>2. /\ s \in Actors /\ s \notin sessions /\ profile[s] \in AllProfiles
      /\ (\A q \in AllProfiles : lock[q] # s) /\ directory[s] # "present"
  BY <1>1, Unopened DEF Opened
<1>3. /\ sessions' = sessions /\ profile' = profile /\ running' = running
      /\ page' = page /\ chain' = chain /\ faults' = faults
      /\ observations' = observations /\ issued' = issued /\ acted' = acted
      /\ profilesInUse' = profilesInUse /\ lock' = lock
      /\ directory' = [directory EXCEPT ![s] = IF Ephemeral(s) THEN "present" ELSE @]
      /\ Step(s, "lock") /\ call[s].left = {}
  BY DEF MakeDirectory, records, pages, Reconciled
<1>4. /\ call \in [Actors -> Call] /\ "lock" \in Places /\ Nobody \notin Actors
      /\ directory \in [Sessions -> {"none", "present", "left"}]
      /\ lock \in [AllProfiles -> Actors \cup {OtherGateway, Nobody}]
  BY <1>1 DEF TypeOK, Places, BrowserAssumption
<1>5. /\ OnlyCall(s) /\ call'[s].pc = "lock" /\ call'[s].op = "start"
      /\ call'[s].left = {} /\ call'[s].dead = call[s].dead
  BY <1>1, <1>2, <1>3, <1>4, StepCall
<1>6. /\ directory' \in [Sessions -> {"none", "present", "left"}]
      /\ \A t \in Sessions \ {s} : directory'[t] = directory[t]
      /\ directory'[s] = "present" => profile[s] = s
  BY <1>2, <1>3, <1>4 DEF Ephemeral
<1>7. Good(s)'
  <2>1. call[s].dead = Nobody
    BY <1>1 DEF Good, Reconciles
  <2>2. QED
    BY <1>3, <1>5, <1>6, <2>1 DEF Good, Reconciles, Disposes, Owns, Aims, Disposals, Opened
<1>8. TypeOK'
  <2>1. call[s].op \in Chained => chain = s
    BY <1>1, <1>2 DEF TypeOK
  <2>2. \A b \in Actors : call'[b].op \in Chained /\ call'[b].pc # "queued" => chain' = b
    BY <1>1, <1>2, <1>3, <1>5, <2>1, ChainStep DEF Chained
  <2>3. QED
    BY <2>2, <1>1, <1>2, <1>3, <1>5, <1>6 DEF TypeOK, OnlyCall
<1>9. Sound'
  <2>1. \A b \in Actors \ {s} : call'[b] = call[b]
    BY <1>5 DEF OnlyCall
  <2>2. ~Over(s)
    BY <1>1 DEF Over
  <2>3. \A b \in Actors \ {s}, p \in AllProfiles : lock'[p] = b <=> lock[p] = b
    BY <1>3
  <2>4. \A p \in AllProfiles : lock'[p] = s => p = profile'[s]
    BY <1>2, <1>3
  <2>5. QED
    BY <1>1, <1>2, <1>3, <1>5, <1>6, <1>7, <1>8, <2>1, <2>2, <2>3, <2>4, OwnStep DEF Opened
<1>10. Observed'
  BY <1>1, <1>2, <1>3, <1>5, QuietCall
<1>11. QED
  BY <1>8, <1>9, <1>10 DEF IInv

LEMMA OpenFailsStep ==
    ASSUME BrowserAssumption, IInv, NEW s \in Sessions, OpenFails(s)
    PROVE  IInv'
<1>1. /\ s \in Actors /\ call[s].pc = "reconcile" /\ Return(s)
      /\ page \in [Sessions -> 0 .. MaxVersion] /\ faults \in 0 .. MaxFaults
  BY DEF OpenFails, Reconciled, At, Actors, IInv, TypeOK
<1>2. /\ sessions' = sessions /\ profile' = profile /\ lock' = lock
      /\ directory' = directory /\ running' = running /\ profilesInUse' = profilesInUse
      /\ page' = page /\ faults' = faults
      /\ observations' = observations /\ issued' = issued /\ acted' = acted
  BY DEF OpenFails, records, pages
<1>3. QED
  BY <1>1, <1>2, QuietReturn DEF Opened

LEMMA OpenStep ==
    ASSUME BrowserAssumption, IInv, NEW s \in Sessions, Open(s)
    PROVE  IInv'
<1>1. TypeOK /\ Sound /\ Observed /\ Good(s) /\ call[s].pc = "lock" /\ call[s].op = "start"
  BY DEF IInv, Sound, Open, At, Actors
<1>2. /\ s \in Actors /\ s \notin sessions /\ profile[s] \in AllProfiles
      /\ \A q \in AllProfiles : lock[q] # s
  BY <1>1, Unopened DEF Opened
<1>3. /\ sessions' = sessions /\ profile' = profile /\ running' = running
      /\ page' = page /\ chain' = chain /\ faults' = faults
      /\ observations' = observations /\ issued' = issued /\ acted' = acted
      /\ profilesInUse' = profilesInUse \cup {profile[s]}
      /\ lock[profile[s]] = Nobody /\ lock' = [lock EXCEPT ![profile[s]] = s]
      /\ directory' = directory /\ Step(s, "launch")
  BY DEF Open, pages
<1>4. /\ call \in [Actors -> Call] /\ "launch" \in Places /\ Nobody \notin Actors
      /\ lock \in [AllProfiles -> Actors \cup {OtherGateway, Nobody}]
  BY <1>1 DEF TypeOK, Places, BrowserAssumption
<1>5. /\ OnlyCall(s) /\ call'[s].pc = "launch" /\ call'[s].op = "start"
      /\ call'[s].left = call[s].left /\ call'[s].dead = call[s].dead
  BY <1>1, <1>2, <1>3, <1>4, StepCall
<1>6. /\ lock' \in [AllProfiles -> Actors \cup {OtherGateway, Nobody}]
      /\ lock'[profile[s]] = s
      /\ \A p \in AllProfiles \ {profile[s]} : lock'[p] = lock[p]
  BY <1>2, <1>3, <1>4
<1>7. directory[s] = "present" => profile[s] = s
  BY <1>1 DEF Sound, Records
<1>8. Good(s)'
  <2>1. \A u \in call[s].left : call'[u].pc = "over"
    BY <1>1, <1>4, <1>5 DEF Good, Reconciles, Over, OnlyCall, Actors, Call
  <2>2. QED
    BY <1>1, <1>3, <1>5, <1>6, <2>1
    DEF Good, Reconciles, Disposes, Owns, Aims, Disposals, Opened, Over
<1>9. TypeOK'
  <2>1. call[s].op \in Chained => chain = s
    BY <1>1, <1>2 DEF TypeOK
  <2>2. \A b \in Actors : call'[b].op \in Chained /\ call'[b].pc # "queued" => chain' = b
    BY <1>1, <1>2, <1>3, <1>5, <2>1, ChainStep DEF Chained
  <2>3. QED
    BY <2>2, <1>1, <1>2, <1>3, <1>5, <1>6 DEF TypeOK, OnlyCall
<1>10. Sound'
  <2>1. \A b \in Actors \ {s} : call'[b] = call[b]
    BY <1>5 DEF OnlyCall
  <2>2. ~Over(s)
    BY <1>1 DEF Over
  <2>3. \A b \in Actors \ {s}, p \in AllProfiles : lock'[p] = b <=> lock[p] = b
    BY <1>3, <1>4, <1>6
  <2>4. \A p \in AllProfiles : lock'[p] = s => p = profile'[s]
    BY <1>2, <1>3, <1>6
  <2>5. QED
    BY <1>1, <1>2, <1>3, <1>5, <1>7, <1>8, <1>9, <2>1, <2>2, <2>3, <2>4, OwnStep DEF Opened
<1>11. Observed'
  BY <1>1, <1>2, <1>3, <1>5, QuietCall
<1>12. QED
  BY <1>9, <1>10, <1>11 DEF IInv

LEMMA LockFailsStep ==
    ASSUME BrowserAssumption, IInv, NEW s \in Sessions, LockFails(s)
    PROVE  IInv'
<1>1. TypeOK /\ Sound /\ Observed /\ Good(s) /\ Records
  BY DEF IInv, Sound, Actors
<1>2. /\ call[s].pc = "lock" /\ call[s].op = "start" /\ Return(s)
      /\ directory' = [directory EXCEPT ![s] = IF Ephemeral(s) THEN "left" ELSE @]
      /\ faults' = faults \/ Fault
      /\ sessions' = sessions /\ profile' = profile /\ running' = running /\ lock' = lock
      /\ profilesInUse' = profilesInUse /\ page' = page
      /\ observations' = observations /\ issued' = issued /\ acted' = acted
  BY DEF LockFails, At, records, pages
<1>3. /\ s \in Actors /\ s \notin sessions /\ profile[s] \in AllProfiles
      /\ \A p \in AllProfiles : lock[p] # s
  BY <1>2, Unopened DEF Opened
<1>4. /\ directory' \in [Sessions -> {"none", "present", "left"}]
      /\ \A t \in Sessions \ {s} : directory'[t] = directory[t]
      /\ directory'[s] # "present" /\ faults' \in 0 .. MaxFaults
  <2>1. /\ directory \in [Sessions -> {"none", "present", "left"}] /\ faults \in 0 .. MaxFaults
        /\ directory[s] = "present" => Ephemeral(s)
    BY <1>1 DEF TypeOK, Records, Ephemeral
  <2>2. faults' \in 0 .. MaxFaults
    BY <1>2, <2>1 DEF Fault, BrowserAssumption
  <2>3. QED
    BY <1>2, <2>1, <2>2
<1>5. /\ call \in [Actors -> Call] /\ chain \in Actors \cup {Nobody}
      /\ Nobody \notin Chained \cup Unchained
  BY <1>1 DEF TypeOK, BrowserAssumption
<1>6. /\ OnlyCall(s) /\ call'[s].pc = "over" /\ call'[s].op = Nobody
      /\ call'[s].left = {} /\ call'[s].dead = Nobody
      /\ chain' = IF chain = s THEN Nobody ELSE chain
  BY <1>2, <1>3, <1>5, ReturnCall
<1>7. Good(s)'
  BY <1>5, <1>6
  DEF Good, Reconciles, Disposes, Owns, Aims, Disposals, Opened, Chained, Unchained
<1>8. TypeOK'
  <2>1. \A b \in Actors : call'[b].op \in Chained /\ call'[b].pc # "queued" => chain' = b
    BY <1>1, <1>3, <1>5, <1>6, ChainStep
  <2>2. QED
    BY <2>1, <1>1, <1>2, <1>4, <1>5, <1>6 DEF TypeOK, OnlyCall
<1>9. Sound'
  <2>1. \A b \in Actors \ {s} : call'[b] = call[b]
    BY <1>6 DEF OnlyCall
  <2>2. ~Over(s) /\ call[s].dead = Nobody
    BY <1>1, <1>2 DEF Over, Good, Reconciles
  <2>3. QED
    BY <1>1, <1>2, <1>3, <1>4, <1>6, <1>7, <1>8, <2>1, <2>2, OwnStep
<1>10. Observed'
  BY <1>1, <1>2, <1>3, <1>6, QuietCall
<1>11. QED
  BY <1>8, <1>9, <1>10 DEF IInv

LEMMA LaunchStep ==
    ASSUME BrowserAssumption, IInv, NEW s \in Sessions, Launch(s)
    PROVE  IInv'
<1>1. TypeOK /\ Sound /\ Observed /\ Good(s) /\ Records /\ s \in Actors
  BY DEF IInv, Sound, Actors
<1>2. /\ call[s].pc = "launch" /\ call[s].op = "start" /\ Step(s, "ready")
      /\ running' = running \cup {s}
      /\ sessions' = sessions /\ profile' = profile /\ lock' = lock /\ directory' = directory
      /\ profilesInUse' = profilesInUse /\ page' = page /\ chain' = chain /\ faults' = faults
      /\ observations' = observations /\ issued' = issued /\ acted' = acted
  BY DEF Launch, At, records, pages
<1>3. call \in [Actors -> Call] /\ "ready" \in Places
  BY <1>1 DEF TypeOK, Places
<1>4. /\ OnlyCall(s) /\ call'[s].pc = "ready" /\ call'[s].op = "start"
      /\ call'[s].left = call[s].left /\ call'[s].dead = call[s].dead
  BY <1>1, <1>2, <1>3, StepCall
<1>5. Good(s)'
  <2>1. \A u \in call[s].left : call'[u].pc = "over"
    BY <1>1, <1>2, <1>3, <1>4 DEF Good, Reconciles, Over, OnlyCall, Actors, Call
  <2>2. QED
    BY <1>1, <1>2, <1>4, <2>1
    DEF Good, Reconciles, Disposes, Owns, Aims, Disposals, Opened, Over
<1>6. TypeOK'
  <2>1. call[s].op \in Chained => chain = s
    BY <1>1, <1>2 DEF TypeOK
  <2>2. \A b \in Actors : call'[b].op \in Chained /\ call'[b].pc # "queued" => chain' = b
    BY <1>1, <1>2, <1>4, <2>1, ChainStep
  <2>3. QED
    BY <2>2, <1>1, <1>2, <1>4 DEF TypeOK, OnlyCall
<1>7. Sound'
  <2>1. \A b \in Actors \ {s} : call'[b] = call[b]
    BY <1>4 DEF OnlyCall
  <2>2. ~Over(s) /\ s \notin sessions
    BY <1>1, <1>2 DEF Over, Records
  <2>3. \A p \in AllProfiles : lock[p] = s => p = profile[s]
    BY <1>1 DEF Records
  <2>4. directory[s] = "present" => profile[s] = s
    BY <1>1 DEF Records
  <2>5. QED
    BY <1>1, <1>2, <1>4, <1>5, <1>6, <2>1, <2>2, <2>3, <2>4, OwnStep DEF Opened
<1>8. Observed'
  BY <1>1, <1>2, <1>4, QuietCall
<1>9. QED
  BY <1>6, <1>7, <1>8 DEF IInv

(* A start that failed goes on, or terminates its browser.                 *)
LEMMA FailingSteps ==
    ASSUME BrowserAssumption, IInv, NEW s \in Sessions, StartFails(s) \/ Kill(s)
    PROVE  IInv'
<1>1. TypeOK /\ Good(s) /\ s \in Actors
  BY DEF IInv, Sound, Actors
<1>2. /\ call[s].op = "start" /\ call[s].pc \in Opened
      /\ Step(s, "abandon") \/ Step(s, "kill")
  BY DEF StartFails, Kill, At, Opened
<1>3. /\ sessions' = sessions /\ profile' = profile /\ lock' = lock /\ directory' = directory
      /\ page' = page /\ chain' = chain /\ observations' = observations
      /\ issued' = issued /\ acted' = acted
      /\ running' \subseteq running /\ profilesInUse' \subseteq profilesInUse
      /\ faults' = faults \/ Fault
  BY DEF StartFails, Kill, records, pages
<1>4. faults' \in 0 .. MaxFaults /\ call \in [Actors -> Call]
  BY <1>1, <1>3 DEF TypeOK, Fault, BrowserAssumption
<1>5. ASSUME NEW x \in {"abandon", "kill"}, Step(s, x) PROVE IInv'
  <2>1. x \in Places \ {"check", "act"} /\ x \in Opened
    BY DEF Places, Opened
  <2>2. /\ OnlyCall(s) /\ call'[s].pc = x /\ call'[s].op = call[s].op
        /\ call'[s].left = call[s].left /\ call'[s].dead = call[s].dead
    BY <1>1, <1>4, <1>5, <2>1, StepCall
  <2>3. \A u \in call[s].left : call'[u].pc = "over"
    BY <1>1, <1>2, <1>4, <2>2 DEF Good, Reconciles, Over, OnlyCall, Actors, Call, Opened
  <2>4. Good(s)'
    BY <1>1, <1>2, <1>3, <2>1, <2>2, <2>3
    DEF Good, Reconciles, Disposes, Owns, Aims, Disposals, Opened, Over
  <2>5. QED
    BY <1>1, <1>2, <1>3, <1>4, <1>5, <2>1, <2>4, QuietMove DEF Opened
<1>6. QED
  BY <1>2, <1>5

LEMMA AbandonStep ==
    ASSUME BrowserAssumption, IInv, NEW s \in Sessions, Abandon(s)
    PROVE  IInv'
<1>1. TypeOK /\ Sound /\ Observed /\ Good(s) /\ Records /\ s \in Actors
  BY DEF IInv, Sound, Actors
<1>2. /\ call[s].pc = "abandon" /\ call[s].op = "start" /\ Step(s, "clean")
      /\ lock' = [lock EXCEPT ![profile[s]] = IF @ = s THEN Nobody ELSE @]
      /\ sessions' = sessions /\ profile' = profile /\ running' = running
      /\ directory' = directory
      /\ profilesInUse' = profilesInUse /\ page' = page /\ chain' = chain /\ faults' = faults
      /\ observations' = observations /\ issued' = issued /\ acted' = acted
  BY DEF Abandon, At, Released, records, pages
<1>3. /\ call \in [Actors -> Call] /\ "clean" \in Places /\ Nobody \notin Actors
      /\ profile[s] \in AllProfiles /\ lock \in [AllProfiles -> Actors \cup {OtherGateway, Nobody}]
  BY <1>1 DEF TypeOK, Places, BrowserAssumption
<1>4. /\ OnlyCall(s) /\ call'[s].pc = "clean" /\ call'[s].op = "start"
      /\ call'[s].left = call[s].left /\ call'[s].dead = call[s].dead
  BY <1>1, <1>2, <1>3, StepCall
<1>5. /\ lock' \in [AllProfiles -> Actors \cup {OtherGateway, Nobody}]
      /\ \A p \in AllProfiles : lock'[p] # s
      /\ \A b \in Actors \ {s}, p \in AllProfiles : lock'[p] = b <=> lock[p] = b
  <2>1. \A p \in AllProfiles : lock[p] = s => p = profile[s]
    BY <1>1 DEF Records
  <2>2. QED
    BY <1>1, <1>2, <1>3, <2>1
<1>6. Good(s)'
  <2>1. \A u \in call[s].left : call'[u].pc = "over"
    BY <1>1, <1>2, <1>3, <1>4 DEF Good, Reconciles, Over, OnlyCall, Actors, Call
  <2>2. QED
    BY <1>1, <1>2, <1>4, <2>1
    DEF Good, Reconciles, Disposes, Owns, Aims, Disposals, Opened, Over
<1>7. TypeOK'
  <2>1. call[s].op \in Chained => chain = s
    BY <1>1, <1>2 DEF TypeOK
  <2>2. \A b \in Actors : call'[b].op \in Chained /\ call'[b].pc # "queued" => chain' = b
    BY <1>1, <1>2, <1>4, <2>1, ChainStep
  <2>3. QED
    BY <2>2, <1>1, <1>2, <1>4, <1>5 DEF TypeOK, OnlyCall
<1>8. Sound'
  <2>1. \A b \in Actors \ {s} : call'[b] = call[b]
    BY <1>4 DEF OnlyCall
  <2>2. ~Over(s) /\ s \notin sessions
    BY <1>1, <1>2 DEF Over, Records
  <2>3. directory[s] = "present" => profile[s] = s
    BY <1>1 DEF Records
  <2>4. QED
    BY <1>1, <1>2, <1>4, <1>5, <1>6, <1>7, <2>1, <2>2, <2>3, OwnStep
<1>9. Observed'
  BY <1>1, <1>2, <1>4, QuietCall
<1>10. QED
  BY <1>7, <1>8, <1>9 DEF IInv

LEMMA CleanStep ==
    ASSUME BrowserAssumption, IInv, NEW s \in Sessions, Clean(s)
    PROVE  IInv'
<1>1. TypeOK /\ Sound /\ Observed /\ Good(s) /\ Records
  BY DEF IInv, Sound, Actors
<1>2. /\ call[s].pc = "clean" /\ call[s].op = "start" /\ Return(s) /\ Swept(s)
      /\ sessions' = sessions /\ profile' = profile /\ running' = running /\ lock' = lock
      /\ profilesInUse' = profilesInUse /\ page' = page
      /\ observations' = observations /\ issued' = issued /\ acted' = acted
  BY DEF Clean, At, records, pages
<1>3. /\ s \in Actors /\ s \notin sessions /\ profile[s] \in AllProfiles
      /\ \A p \in AllProfiles : lock[p] # s
  BY <1>2, Unopened DEF Opened
<1>4. /\ directory' \in [Sessions -> {"none", "present", "left"}]
      /\ \A t \in Sessions \ {s} : directory'[t] = directory[t]
      /\ directory'[s] # "present" /\ faults' \in 0 .. MaxFaults
  BY <1>1, <1>2, SweptDirectory
<1>5. /\ call \in [Actors -> Call] /\ chain \in Actors \cup {Nobody}
      /\ Nobody \notin Chained \cup Unchained
  BY <1>1 DEF TypeOK, BrowserAssumption
<1>6. /\ OnlyCall(s) /\ call'[s].pc = "over" /\ call'[s].op = Nobody
      /\ call'[s].left = {} /\ call'[s].dead = Nobody
      /\ chain' = IF chain = s THEN Nobody ELSE chain
  BY <1>2, <1>3, <1>5, ReturnCall
<1>7. Good(s)'
  BY <1>5, <1>6
  DEF Good, Reconciles, Disposes, Owns, Aims, Disposals, Opened, Chained, Unchained
<1>8. TypeOK'
  <2>1. \A b \in Actors : call'[b].op \in Chained /\ call'[b].pc # "queued" => chain' = b
    BY <1>1, <1>3, <1>5, <1>6, ChainStep
  <2>2. QED
    BY <2>1, <1>1, <1>2, <1>4, <1>5, <1>6 DEF TypeOK, OnlyCall
<1>9. Sound'
  <2>1. \A b \in Actors \ {s} : call'[b] = call[b]
    BY <1>6 DEF OnlyCall
  <2>2. ~Over(s) /\ call[s].dead = Nobody
    BY <1>1, <1>2 DEF Over, Good, Reconciles
  <2>3. QED
    BY <1>1, <1>2, <1>3, <1>4, <1>6, <1>7, <1>8, <2>1, <2>2, OwnStep
<1>10. Observed'
  BY <1>1, <1>2, <1>3, <1>6, QuietCall
<1>11. QED
  BY <1>8, <1>9, <1>10 DEF IInv

(* The interval of the reaper begins and ends while no pass is under way.  *)
LEMMA ReaperGood ==
    ASSUME TypeOK, Good(Reaper), Reaper \in Actors \ Sessions,
           call'[Reaper].op = call[Reaper].op, call'[Reaper].left = call[Reaper].left,
           call'[Reaper].target = call[Reaper].target,
           call'[Reaper].dead = call[Reaper].dead,
           \/ call'[Reaper].pc = call[Reaper].pc
           \/ call'[Reaper].pc \in {"off", "idle"} /\ call[Reaper].pc \in {"off", "idle"},
           \A t \in Sessions : Over(t) => call'[t].pc = "over",
           \A t \in sessions' : t \in sessions \/ ~Over(t),
           profile' = profile, lock' = lock, running' = running, directory' = directory
    PROVE  Good(Reaper)'
<1>1. call[Reaper].left \subseteq Sessions
  BY DEF TypeOK, Call
<1>2. \A u \in call[Reaper].left : call'[u].pc = "over"
  BY <1>1 DEF Good, Reconciles
<1>3. CASE call'[Reaper].pc \in {"off", "idle"} /\ call[Reaper].pc \in {"off", "idle"}
  <2>1. call[Reaper].dead = Nobody
    BY <1>3 DEF Good, Reconciles
  <2>2. QED
    BY <1>2, <1>3, <2>1 DEF Good, Reconciles, Disposes, Owns, Aims, Disposals, Over
<1>4. CASE call'[Reaper].pc = call[Reaper].pc
  <2> DEFINE d == call[Reaper].dead
             t == call[Reaper].target
  <2>1. Reconciles(Reaper)'
    <3>1. CASE call[Reaper].pc \in {"unlock", "sweep"}
      <4>1. d \in Sessions \ sessions /\ Over(d)
        BY <3>1 DEF Good, Reconciles
      <4>2. d \notin sessions' /\ call'[d].pc = "over"
        BY <4>1
      <4>3. QED
        BY <1>2, <1>4, <3>1, <4>1, <4>2 DEF Good, Reconciles, Over
    <3>2. CASE call[Reaper].pc \notin {"unlock", "sweep"}
      BY <1>2, <1>4, <3>2 DEF Good, Reconciles, Over
    <3>3. QED
      BY <3>1, <3>2
  <2>2. Disposes(Reaper)'
    <3>1. CASE call[Reaper].pc \in Disposals
      <4>1. t \in Sessions /\ Over(t)
        BY <3>1 DEF Good, Disposes
      <4>2. call'[t].pc = "over"
        BY <4>1
      <4>3. QED
        BY <1>4, <3>1, <4>1, <4>2 DEF Good, Disposes, Over
    <3>2. CASE call[Reaper].pc \notin Disposals
      BY <1>4, <3>2 DEF Disposes, Disposals
    <3>3. QED
      BY <3>1, <3>2
  <2>3. Owns(Reaper)'
    BY <1>4 DEF Good, Owns
  <2>4. Aims(Reaper)'
    BY <1>4 DEF Good, Aims
  <2>5. QED
    BY <2>1, <2>2, <2>3, <2>4 DEF Good
<1>5. QED
  BY <1>3, <1>4

LEMMA RegisterStep ==
    ASSUME BrowserAssumption, IInv, NEW s \in Sessions, Register(s)
    PROVE  IInv'
<1>1. TypeOK /\ Sound /\ Observed /\ Good(s) /\ Records /\ s \in Actors
      /\ Reaper \in Actors \ Sessions /\ Good(Reaper)
  BY DEF IInv, Sound, Actors, BrowserAssumption
<1>2. /\ call[s].pc = "ready" /\ call[s].op = "start"
      /\ call' = [call EXCEPT ![s] = [Idle EXCEPT !.pc = "over"],
                              ![Reaper].pc = IF @ = "off" THEN "idle" ELSE @]
      /\ sessions' = sessions \cup {s} /\ chain' = Nobody
      /\ profile' = profile /\ running' = running /\ lock' = lock /\ directory' = directory
      /\ profilesInUse' = profilesInUse /\ page' = page /\ faults' = faults
      /\ observations' = observations /\ issued' = issued /\ acted' = acted
  BY DEF Register, At, pages
<1>3. /\ call \in [Actors -> Call] /\ {"idle", "over"} \subseteq Places
      /\ Nobody \notin Chained \cup Unchained /\ Nobody \notin Actors
      /\ profile[s] \in AllProfiles /\ chain = s
  BY <1>1, <1>2 DEF TypeOK, Places, BrowserAssumption, Chained
<1>4. /\ call' \in [Actors -> Call]
      /\ call'[s].pc = "over" /\ call'[s].op = Nobody
      /\ call'[s].left = {} /\ call'[s].dead = Nobody
      /\ \A b \in Actors \ {s, Reaper} : call'[b] = call[b]
      /\ call'[Reaper].pc = IF call[Reaper].pc = "off" THEN "idle" ELSE call[Reaper].pc
      /\ call'[Reaper].op = call[Reaper].op /\ call'[Reaper].left = call[Reaper].left
      /\ call'[Reaper].target = call[Reaper].target
      /\ call'[Reaper].dead = call[Reaper].dead
  <2> DEFINE done == [Idle EXCEPT !.pc = "over"]
             x == IF call[Reaper].pc = "off" THEN "idle" ELSE call[Reaper].pc
  <2>1. /\ done \in Call /\ done.pc = "over" /\ done.op = Nobody
        /\ done.left = {} /\ done.dead = Nobody
    BY <1>3, IdleCall DEF Idle, Begun
  <2>2. x \in Places
    BY <1>1, <1>3 DEF Call
  <2>3. call' = [call EXCEPT ![s] = done, ![Reaper].pc = x]
    BY <1>1, <1>2, <1>3
  <2> HIDE DEF done, x
  <2>4. /\ call' \in [Actors -> Call] /\ call'[s] = done
        /\ \A b \in Actors \ {s, Reaper} : call'[b] = call[b]
        /\ call'[Reaper].pc = x
        /\ call'[Reaper].op = call[Reaper].op /\ call'[Reaper].left = call[Reaper].left
        /\ call'[Reaper].target = call[Reaper].target
        /\ call'[Reaper].dead = call[Reaper].dead
    BY <1>1, <1>3, <2>1, <2>2, <2>3 DEF Call
  <2>5. QED
    BY <2>1, <2>4 DEF x
<1>5. Good(s)'
  BY <1>3, <1>4
  DEF Good, Reconciles, Disposes, Owns, Aims, Disposals, Opened, Chained, Unchained
<1>6. Good(Reaper)'
  <2>1. \/ call'[Reaper].pc = call[Reaper].pc
        \/ call'[Reaper].pc = "idle" /\ call[Reaper].pc = "off"
    BY <1>4
  <2>2. \A t \in Sessions : Over(t) => call'[t].pc = "over" /\ t # s
    BY <1>1, <1>2, <1>4 DEF Over, Actors
  <2>3. \A t \in sessions' : t \in sessions \/ ~Over(t)
    BY <1>2, <2>2
  <2>4. profile' = profile /\ lock' = lock /\ running' = running /\ directory' = directory
    BY <1>2
  <2>5. QED
    BY <1>1, <1>4, <2>1, <2>2, <2>3, <2>4, ReaperGood
<1>7. TypeOK'
  <2>1. \A b \in Actors : call'[b].op \in Chained /\ call'[b].pc # "queued" => chain' = b
    <3>1. \A b \in Actors \ {s} :
             /\ call[b].op \in Chained => call[b].pc = "queued"
             /\ call'[b].op = call[b].op
             /\ call[b].pc = "queued" => call'[b].pc = "queued"
      BY <1>1, <1>3, <1>4 DEF TypeOK
    <3>2. QED
      BY <1>3, <1>4, <3>1
  <2>2. QED
    BY <2>1, <1>1, <1>2, <1>4 DEF TypeOK
<1>8. Sound'
  <2>1. \A b \in Actors \ {s} :
           /\ call'[b].dead = call[b].dead
           /\ call'[b] = call[b] \/ (b \notin Sessions /\ Good(b)')
    BY <1>1, <1>4, <1>6
  <2>2. ~Over(s) /\ call[s].dead = Nobody
    BY <1>1, <1>2 DEF Over, Good, Reconciles
  <2>3. \A p \in AllProfiles : lock[p] = s => p = profile[s]
    BY <1>1 DEF Records
  <2>4. (directory[s] = "present" => profile[s] = s) /\ lock[profile[s]] = s
    BY <1>1, <1>2 DEF Records, Good, Owns, Opened
  <2>5. QED
    BY <1>1, <1>2, <1>4, <1>5, <1>7, <2>1, <2>2, <2>3, <2>4, OwnStep
<1>9. Observed'
  <2>1. \A b \in Actors :
           call'[b].pc \in {"check", "act"} => Holds(b) /\ (b # Reaper => call'[b].seen = call[b].seen)
    BY <1>4 DEF Holds
  <2>2. call'[Reaper].seen = call[Reaper].seen
    BY <1>1, <1>2, <1>3 DEF Call
  <2>3. QED
    BY <1>1, <1>2, <2>1, <2>2, QuietObserved
<1>10. QED
  BY <1>7, <1>8, <1>9 DEF IInv

-----------------------------------------------------------------------------
(* The reaper and the shutdown.                                            *)

LEMMA ReapStep ==
    ASSUME BrowserAssumption, IInv, Reap
    PROVE  IInv'
<1>1. /\ Reaper \in Actors \ Sessions /\ "reap" \in Chained \cup Unchained
      /\ Invoke(Reaper, "reap", Nobody)
  BY DEF Reap, Actors, BrowserAssumption, Chained
<1>2. QED
  BY <1>1, InvokeStep

(* The shutdown ends the interval of the reaper in the step that begins it. *)
LEMMA CloseAllStep ==
    ASSUME BrowserAssumption, IInv, CloseAll
    PROVE  IInv'
<1>1. /\ TypeOK /\ Sound /\ Observed /\ Records /\ Good(Closer) /\ Good(Reaper)
      /\ Closer \in Actors \ Sessions /\ Reaper \in Actors \ Sessions /\ Closer # Reaper
  BY DEF IInv, Sound, Actors, BrowserAssumption
<1>2. /\ call[Closer].pc = "idle"
      /\ call' = [call EXCEPT ![Closer] = Begun("closeAll", "queued", {}, Nobody),
                              ![Reaper].pc = IF @ = "idle" THEN "off" ELSE @]
      /\ sessions' = sessions /\ profile' = profile /\ lock' = lock /\ directory' = directory
      /\ running' = running /\ profilesInUse' = profilesInUse /\ page' = page
      /\ chain' = chain /\ faults' = faults
      /\ observations' = observations /\ issued' = issued /\ acted' = acted
  BY DEF CloseAll, records, pages
<1>3. call \in [Actors -> Call] /\ {"off", "queued"} \subseteq Places
  BY <1>1 DEF TypeOK, Places
<1>4. /\ call' \in [Actors -> Call]
      /\ call'[Closer].pc = "queued" /\ call'[Closer].op = "closeAll"
      /\ call'[Closer].left = {} /\ call'[Closer].dead = Nobody
      /\ \A b \in Actors \ {Closer, Reaper} : call'[b] = call[b]
      /\ \/ call'[Reaper].pc = call[Reaper].pc
         \/ call'[Reaper].pc = "off" /\ call[Reaper].pc = "idle"
      /\ call'[Reaper].op = call[Reaper].op /\ call'[Reaper].left = call[Reaper].left
      /\ call'[Reaper].target = call[Reaper].target
      /\ call'[Reaper].dead = call[Reaper].dead
      /\ call'[Reaper].seen = call[Reaper].seen
  <2> DEFINE new == Begun("closeAll", "queued", {}, Nobody)
             x == IF call[Reaper].pc = "idle" THEN "off" ELSE call[Reaper].pc
  <2>1. /\ new \in Call /\ new.pc = "queued" /\ new.op = "closeAll"
        /\ new.left = {} /\ new.dead = Nobody
    <3>1. "closeAll" \in Chained \cup Unchained \cup {Nobody}
      BY DEF Chained
    <3>2. new \in Call
      BY <1>3, <3>1, BegunCall
    <3>3. QED
      BY <3>2 DEF Begun
  <2>2. x \in Places
    BY <1>1, <1>3 DEF Call
  <2>3. call' = [call EXCEPT ![Closer] = new, ![Reaper].pc = x]
    BY <1>1, <1>2, <1>3
  <2> HIDE DEF new, x
  <2>4. /\ call' \in [Actors -> Call] /\ call'[Closer] = new
        /\ \A b \in Actors \ {Closer, Reaper} : call'[b] = call[b]
        /\ call'[Reaper].pc = x
        /\ call'[Reaper].op = call[Reaper].op /\ call'[Reaper].left = call[Reaper].left
        /\ call'[Reaper].target = call[Reaper].target
        /\ call'[Reaper].dead = call[Reaper].dead
        /\ call'[Reaper].seen = call[Reaper].seen
    BY <1>1, <1>3, <2>1, <2>2, <2>3 DEF Call
  <2>5. QED
    BY <2>1, <2>4 DEF x
<1>5. \A t \in Sessions : call'[t] = call[t]
  BY <1>1, <1>4 DEF Actors
<1>6. TypeOK'
  <2>1. \A b \in Actors : call'[b].op \in Chained /\ call'[b].pc # "queued" => chain' = b
    <3>1. \A b \in Actors \ {Closer} :
             call'[b].op = call[b].op /\ (call[b].pc = "queued" => call'[b].pc = "queued")
      BY <1>1, <1>4
    <3>2. QED
      BY <1>1, <1>2, <1>4, <3>1 DEF TypeOK
  <2>2. QED
    BY <2>1, <1>1, <1>2, <1>4 DEF TypeOK
<1>7. Harmless(Closer)
  BY <1>1, <1>2, <1>5 DEF Harmless, Over
<1>8. ASSUME NEW b \in Actors PROVE Good(b)'
  <2>1. CASE b = Closer
    BY <2>1, <1>4 DEF Good, Reconciles, Disposes, Owns, Aims, Disposals, Opened
  <2>2. CASE b = Reaper
    <3>1. \A t \in Sessions : Over(t) => call'[t].pc = "over"
      BY <1>5 DEF Over
    <3>2. \A t \in sessions' : t \in sessions \/ ~Over(t)
      BY <1>2
    <3>3. Good(Reaper)'
      BY <1>1, <1>2, <1>4, <3>1, <3>2, ReaperGood
    <3>4. QED
      BY <2>2, <3>3
  <2>3. CASE b \notin {Closer, Reaper}
    BY <2>3, <1>1, <1>4, <1>6, <1>7, Bystander
  <2>4. QED
    BY <2>1, <2>2, <2>3
<1>9. Records'
  <2>1. RegisteredOwnsProfile'
    BY <1>1, <1>2 DEF Records, RegisteredOwnsProfile
  <2>2. NothingOrphaned'
    <3>1. SUFFICES ASSUME NEW s \in Sessions, lock[profile[s]] = s \/ directory[s] = "present"
                   PROVE  Attended(s)'
      BY <1>2 DEF NothingOrphaned
    <3>2. Attended(s)
      BY <1>1, <3>1 DEF Records, NothingOrphaned
    <3>3. \A b \in Actors : call[b].dead = s => call'[b].dead = s
      <4>1. call[Closer].dead = Nobody /\ s # Nobody
        BY <1>1, <1>2 DEF Good, Reconciles, BrowserAssumption, Actors
      <4>2. QED
        BY <4>1, <1>4
    <3>4. QED
      BY <1>2, <1>5, <3>2, <3>3 DEF Attended
  <2>3. sessions \subseteq Sessions
    BY <1>1 DEF TypeOK
  <2>4. (\A s \in sessions : Over(s))'
    BY <1>1, <1>2, <1>5, <2>3 DEF Records, Over
  <2>5. QED
    BY <1>1, <1>2, <1>5, <2>1, <2>2, <2>4 DEF Records
<1>10. Observed'
  <2>1. \A b \in Actors :
           call'[b].pc \in {"check", "act"} => Holds(b) /\ call'[b].seen = call[b].seen
    BY <1>1, <1>4 DEF Holds
  <2>2. QED
    BY <1>1, <1>2, <2>1, QuietObserved
<1>11. QED
  BY <1>6, <1>8, <1>9, <1>10 DEF IInv, Sound

-----------------------------------------------------------------------------
(* The invariant holds at first, and every step preserves it.              *)

LEMMA InitInvariant == ASSUME BrowserAssumption, Init PROVE IInv
<1>1. /\ {"idle", "off"} \subseteq Places /\ Nobody \notin Actors \cup AllProfiles
      /\ Nobody \notin Chained \cup Unchained /\ {MaxFaults, MaxVersion, MaxObservations} \subseteq Nat
  BY DEF BrowserAssumption, Places
<1>2. /\ call \in [Actors -> Call]
      /\ \A a \in Actors :
            /\ call[a].pc \in {"idle", "off"} /\ call[a].op = Nobody
            /\ call[a].left = {} /\ call[a].dead = Nobody
  <2>1. /\ [Idle EXCEPT !.pc = "off"] \in Call /\ Idle \in Call
        /\ [Idle EXCEPT !.pc = "off"].pc = "off" /\ [Idle EXCEPT !.pc = "off"].op = Nobody
        /\ [Idle EXCEPT !.pc = "off"].left = {} /\ [Idle EXCEPT !.pc = "off"].dead = Nobody
        /\ Idle.pc = "idle" /\ Idle.op = Nobody /\ Idle.left = {} /\ Idle.dead = Nobody
    BY <1>1, IdleCall DEF Idle, Begun
  <2> DEFINE off == [Idle EXCEPT !.pc = "off"]
  <2>2. call = [a \in Actors |-> IF a = Reaper THEN off ELSE Idle]
    BY DEF Init
  <2>3. /\ off \in Call /\ off.pc = "off" /\ off.op = Nobody /\ off.left = {} /\ off.dead = Nobody
    BY <2>1
  <2> HIDE DEF off
  <2>4. QED
    BY <2>1, <2>2, <2>3
<1>3. TypeOK
  BY <1>1, <1>2 DEF Init, TypeOK, AllProfiles
<1>4. ASSUME NEW a \in Actors PROVE Good(a)
  BY <1>1, <1>2
  DEF Good, Reconciles, Disposes, Owns, Aims, Disposals, Opened, Chained, Unchained
<1>5. Records
  BY <1>1 DEF Init, Records, RegisteredOwnsProfile, NothingOrphaned, AllProfiles, Actors
<1>6. Observed
  BY <1>1, <1>2 DEF Init, Observed, Holds, Ids
<1>7. QED
  BY <1>3, <1>4, <1>5, <1>6 DEF IInv, Sound

LEMMA StartingInvariant ==
    ASSUME BrowserAssumption, IInv, NEW s \in Sessions, Starting(s)
    PROVE  IInv'
<1>1. ASSUME NEW p \in Profiles \cup {s}, Start(s, p) PROVE IInv'
  BY <1>1, StartStep
<1>2. CASE MakeDirectory(s) \/ Open(s)
  BY <1>2, MakeDirectoryStep, OpenStep
<1>3. CASE OpenFails(s) \/ LockFails(s)
  BY <1>3, OpenFailsStep, LockFailsStep
<1>4. CASE Launch(s)
  BY <1>4, LaunchStep
<1>5. CASE Register(s)
  BY <1>5, RegisterStep
<1>6. CASE StartFails(s) \/ Kill(s)
  BY <1>6, FailingSteps
<1>7. CASE Abandon(s)
  BY <1>7, AbandonStep
<1>8. CASE Clean(s)
  BY <1>8, CleanStep
<1>9. QED
  BY <1>1, <1>2, <1>3, <1>4, <1>5, <1>6, <1>7, <1>8 DEF Starting

LEMMA ClientInvariant ==
    ASSUME BrowserAssumption, IInv, NEW c \in Clients, Client(c)
    PROVE  IInv'
<1>1. c \in Actors \ Sessions /\ Operations \subseteq Chained \cup Unchained
  BY DEF Actors, BrowserAssumption
<1>2. ASSUME NEW op \in Operations \cap {"list"}, Invoke(c, op, Nobody) PROVE IInv'
  BY <1>1, <1>2, InvokeStep
<1>3. ASSUME NEW op \in Operations \cap {"delete"}, NEW p \in Profiles, Invoke(c, op, p)
      PROVE  IInv'
  BY <1>1, <1>3, InvokeStep
<1>4. ASSUME NEW op \in Operations \ {"list", "delete"}, NEW s \in Sessions, Invoke(c, op, s)
      PROVE  IInv'
  BY <1>1, <1>4, InvokeStep
<1>5. CASE Close(c)
  BY <1>5, CloseStep
<1>6. CASE LockForDeletion(c)
  BY <1>6, LockForDeletionStep
<1>7. CASE DeleteProfile(c)
  BY <1>7, DeleteProfileStep
<1>8. CASE PageOperation(c) \/ List(c) \/ ActRefused(c)
  BY <1>8, ReturnSteps
<1>9. CASE ReadPage(c)
  BY <1>9, ReadPageStep
<1>10. CASE IssueObservation(c)
  BY <1>10, IssueObservationStep
<1>11. CASE CheckState(c)
  BY <1>11, CheckStateStep
<1>12. CASE Act(c)
  BY <1>12, ActStep
<1>13. ASSUME NEW o \in observations, ConsumeObservation(c, o) PROVE IInv'
  BY <1>13, ConsumeObservationStep
<1>14. QED
  BY <1>2, <1>3, <1>4, <1>5, <1>6, <1>7, <1>8, <1>9, <1>10, <1>11, <1>12, <1>13 DEF Client

LEMMA DisposeInvariant ==
    ASSUME BrowserAssumption, IInv, NEW a \in Clients \cup {Reaper, Closer}, Dispose(a)
    PROVE  IInv'
  BY NextRecordStep, TerminateStep, RemoveStep, ReleaseStep, ForgetStep DEF Dispose

LEMMA StepInvariant ==
    ASSUME BrowserAssumption, IInv, [Next]_vars
    PROVE  IInv'
<1>1. ASSUME NEW s \in Sessions, Starting(s) PROVE IInv'
  BY <1>1, StartingInvariant
<1>2. ASSUME NEW c \in Clients, Client(c) PROVE IInv'
  BY <1>2, ClientInvariant
<1>3. ASSUME NEW a \in Actors, Enter(a) PROVE IInv'
  BY <1>3, EnterStep
<1>4. ASSUME NEW a \in Actors, Unlock(a) PROVE IInv'
  BY <1>4, UnlockStep
<1>5. ASSUME NEW a \in Actors, Sweep(a) PROVE IInv'
  BY <1>5, SweepStep
<1>6. ASSUME NEW a \in Actors, NEW s \in Sessions, Probe(a, s) PROVE IInv'
  BY <1>6, ProbeStep
<1>7. ASSUME NEW a \in Clients \cup {Reaper, Closer}, Dispose(a) PROVE IInv'
  BY <1>7, DisposeInvariant
<1>8. CASE Reap
  BY <1>8, ReapStep
<1>9. CASE CloseAll
  BY <1>9, CloseAllStep
<1>10. CASE \/ \E o \in observations : Expire(o)
            \/ \E s \in running : Exit(s) \/ PageChanges(s)
  BY <1>10, OutsideSteps
<1>11. ASSUME NEW p \in Profiles, OtherTakes(p) \/ OtherReleases(p) PROVE IInv'
  BY <1>11, OtherStep
<1>12. CASE UNCHANGED vars
  <2>1. TypeOK' /\ Observed'
    BY <1>12 DEF vars, IInv, TypeOK, Observed, Holds
  <2>2. Sound'
    BY <1>12, FrameStep DEF vars, IInv
  <2>3. QED
    BY <2>1, <2>2 DEF IInv
<1>13. QED
  BY <1>1, <1>2, <1>3, <1>4, <1>5, <1>6, <1>7, <1>8, <1>9, <1>10, <1>11, <1>12 DEF Next

(* The records, locks and directories, and the observations, are related   *)
(* as IInv says in every state.                                            *)
THEOREM BrowserInvariance ==
    ASSUME BrowserAssumption
    PROVE  Spec => []IInv
<1>1. Init => IInv
  BY InitInvariant
<1>2. IInv /\ [Next]_vars => IInv'
  BY StepInvariant
<1>3. QED
  BY <1>1, <1>2, PTL DEF Spec

(* Every call under way that is chained holds the chain, or waits for it.  *)
THEOREM BrowserTypes ==
    ASSUME BrowserAssumption
    PROVE  Spec => []TypeOK
<1>1. IInv => TypeOK
  BY DEF IInv
<1>2. QED
  BY <1>1, BrowserInvariance, PTL

(* A registered session whose browser runs holds the lock of its profile,  *)
(* however late a reconciliation returns the lock of an earlier session.   *)
THEOREM BrowserRegisteredOwnsProfile ==
    ASSUME BrowserAssumption
    PROVE  Spec => []RegisteredOwnsProfile
<1>1. IInv => RegisteredOwnsProfile
  BY DEF IInv, Sound, Records
<1>2. QED
  BY <1>1, BrowserInvariance, PTL

(* No lock and no ephemeral directory outlives its session unattended.     *)
THEOREM BrowserNothingOrphaned ==
    ASSUME BrowserAssumption
    PROVE  Spec => []NothingOrphaned
<1>1. IInv => NothingOrphaned
  BY DEF IInv, Sound, Records
<1>2. QED
  BY <1>1, BrowserInvariance, PTL

(* An observation authorizes one act at most, for any number of calls.     *)
THEOREM BrowserOneActPerObservation ==
    ASSUME BrowserAssumption
    PROVE  Spec => []OneActPerObservation
<1>1. IInv => OneActPerObservation
  BY DEF IInv, Observed, OneActPerObservation
<1>2. QED
  BY <1>1, BrowserInvariance, PTL
=============================================================================
