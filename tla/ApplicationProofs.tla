------------------------- MODULE ApplicationProofs -------------------------
(***************************************************************************)
(* Resources, exit codes, output, threads and types of main, for every     *)
(* command line, machine, buffer and set of failing calls.  Three          *)
(* invariants carry the results: IInv ties the resources to the place in   *)
(* main, DInv ties what was written to what the walk has come to, AInv     *)
(* ties options, pool and walk to the line that was accepted.              *)
(***************************************************************************)
EXTENDS Application, SearchLemmas, CliLemmas, FiniteSetTheorems, TLAPS

Base == {"cli_memory", "cli_store"}
WithRuntime == Base \cup {"runtime"}

(* What is held at each point of main; LifetimesNest alone does not say    *)
(* what the next release finds.                                            *)
HeldMatchesPc ==
  /\ pc = "memory" => held = {}
  /\ pc = "store" => held = {"cli_memory"}
  /\ pc \in {"parse", "configure"} => held = Base
  /\ pc = "init" => held = WithRuntime
  /\ pc \in {"run", "walk", "report"} => held = WithRuntime \cup {"errors", "output"}
  /\ pc = "cleanup" => WithRuntime \subseteq held /\ held \subseteq WithRuntime \cup {"errors", "output"}
  /\ pc = "destroy_runtime" => WithRuntime \subseteq held /\ held \subseteq WithRuntime \cup {"errors"}
  /\ pc = "destroy_store" => held = Base
  /\ pc = "destroy_memory" => held = {"cli_memory"}
  /\ pc = "done" => held = {}

(* The labels before the walk, and those after its exit code is settled. *)
Before == {"memory", "store", "parse", "configure", "init", "run"}
After == {"cleanup", "destroy_runtime", "destroy_store", "destroy_memory", "done"}

(* A walk is cut only by the signal, and the exit code follows from it. *)
CutIsReported ==
  /\ cut => signalled /\ pc \notin Before
  /\ cut /\ pc \in After => exit_code = 130
  /\ exit_code = 130 => signalled

IInv ==
  /\ pc \in Before \cup {"walk", "report"} \cup After
  /\ HeldMatchesPc
  /\ CutIsReported

(* It holds before main has done anything. *)
LEMMA Initially == Init => IInv
BY DEF Init, IInv, HeldMatchesPc, CutIsReported, Before, After

(* The parts of the invariant depend on these variables alone. *)
LEMMA Unchanged ==
  ASSUME IInv, UNCHANGED <<pc, held, signalled, exit_code, cut>>
  PROVE  IInv'
BY DEF IInv, HeldMatchesPc, CutIsReported

(* The ways out of main before there is a runtime. *)
LEMMA LeavingKeepsInvariant ==
  ASSUME IInv, NEW label, NEW code \in {0, 1, 2}, LeaveFrom(label, code),
         \/ pc = "store" /\ label = "destroy_memory"
         \/ pc \in {"parse", "configure"} /\ label = "destroy_store"
  PROVE  IInv'
BY DEF IInv, HeldMatchesPc, CutIsReported, Before, After, LeaveFrom, Goto, walk_vars

(* The steps of main up to the runtime. *)
LEMMA StartupKeepsInvariant ==
  ASSUME IInv, Startup
  PROVE  IInv'
<1> USE DEF At, Goto
<1>1. CASE CreateMemory
  BY <1>1 DEF CreateMemory, IInv, HeldMatchesPc, CutIsReported, Before, After, walk_vars
<1>2. CASE CreateMemoryFails
  BY <1>2 DEF CreateMemoryFails, IInv, HeldMatchesPc, CutIsReported, Before, After, walk_vars
<1>3. CASE CreateStore
  BY <1>3 DEF CreateStore, IInv, HeldMatchesPc, CutIsReported, Before, After, walk_vars, Base
<1>4. CASE CreateStoreFails
  BY <1>4, LeavingKeepsInvariant DEF CreateStoreFails
<1>5. CASE ParseAnswers
  BY <1>5, LeavingKeepsInvariant DEF ParseAnswers
<1>6. CASE ParseFails
  BY <1>6, LeavingKeepsInvariant DEF ParseFails
<1>7. CASE BindFails
  BY <1>7, LeavingKeepsInvariant DEF BindFails
<1>8. CASE Bind
  BY <1>8 DEF Bind, IInv, HeldMatchesPc, CutIsReported, Before, After, walk_vars
<1>9. CASE ConfigureFails
  BY <1>9, LeavingKeepsInvariant DEF ConfigureFails
<1>10. CASE CreateRuntime
  BY <1>10 DEF CreateRuntime, IInv, HeldMatchesPc, CutIsReported, Before, After, walk_vars,
     Base, WithRuntime
<1>11. CASE CreateRuntimeFails
  BY <1>11, LeavingKeepsInvariant DEF CreateRuntimeFails
<1> QED BY <1>1, <1>2, <1>3, <1>4, <1>5, <1>6, <1>7, <1>8, <1>9, <1>10, <1>11 DEF Startup

(* Steps of the walk that neither end it nor see the signal. *)
LEMMA WalkStepKeepsInvariant ==
  ASSUME IInv, NEW path,
         \/ SequentialEmit(path) \/ SequentialEmitFails(path) \/ ParallelGather(path)
         \/ WalkError \/ WalkStrays
  PROVE  IInv'
BY Unchanged DEF SequentialEmit, SequentialEmitFails, ParallelGather, WalkError, WalkStrays

(* The steps of init and run. *)
LEMMA RunKeepsInvariant ==
  ASSUME IInv, Run
  PROVE  IInv'
<1> USE DEF At, Goto
<1>1. CASE AppInit
  BY <1>1 DEF AppInit, IInv, HeldMatchesPc, CutIsReported, Before, After, walk_vars
<1>2. CASE \E call \in {"context", "collector", "open", "attach"} : AppInitFails(call)
  BY <1>2 DEF AppInitFails, IInv, HeldMatchesPc, CutIsReported, Before, After, walk_vars
<1>3. CASE RunContextFails
  BY <1>3 DEF RunContextFails, IInv, HeldMatchesPc, CutIsReported, Before, After, walk_vars
<1>4. CASE ChooseWalk
  BY <1>4 DEF ChooseWalk, IInv, HeldMatchesPc, CutIsReported, Before, After
<1>5. CASE \E path \in todo :
             SequentialEmit(path) \/ SequentialEmitFails(path) \/ ParallelGather(path)
  BY <1>5, WalkStepKeepsInvariant
<1>6. CASE WalkError \/ WalkStrays
  BY <1>6, WalkStepKeepsInvariant
<1>7. CASE WalkSetupFails
  BY <1>7 DEF WalkSetupFails, IInv, HeldMatchesPc, CutIsReported, Before, After
<1>8. CASE WalkStops
  BY <1>8 DEF WalkStops, IInv, HeldMatchesPc, CutIsReported, Before, After
<1>9. CASE WalkEnds
  BY <1>9 DEF WalkEnds, IInv, HeldMatchesPc, CutIsReported, Before, After, walk_vars
<1>10. CASE WalkWriteFails
  BY <1>10 DEF WalkWriteFails, IInv, HeldMatchesPc, CutIsReported, Before, After
<1>11. CASE Report
  <2>1. /\ signalled => exit_code' = 130
        /\ exit_code' = 130 => signalled
    BY <1>11 DEF Report, exit_code_of
  <2> QED BY <1>11, <2>1 DEF Report, IInv, HeldMatchesPc, CutIsReported, Before, After, walk_vars
<1> QED BY <1>1, <1>2, <1>3, <1>4, <1>5, <1>6, <1>7, <1>8, <1>9, <1>10, <1>11 DEF Run

(* The releases, one after the other. *)
LEMMA ReleaseKeepsInvariant ==
  ASSUME IInv, NEW label, NEW resources, NEW next, Release(label, resources, next),
         \/ label = "destroy_runtime" /\ resources = {"runtime", "errors"} /\ next = "destroy_store"
         \/ label = "destroy_store" /\ resources = {"cli_store"} /\ next = "destroy_memory"
         \/ label = "destroy_memory" /\ resources = {"cli_memory"} /\ next = "done"
  PROVE  IInv'
BY DEF Release, At, Goto, IInv, HeldMatchesPc, CutIsReported, Before, After, walk_vars,
   Base, WithRuntime

(* The steps of cleanup, and of main after the runtime. *)
LEMMA ShutdownKeepsInvariant ==
  ASSUME IInv, Shutdown
  PROVE  IInv'
<1> USE DEF At, Goto
<1>1. CASE Cleanup
  BY <1>1 DEF Cleanup, HeldAfterCleanup, IInv, HeldMatchesPc, CutIsReported, Before, After,
     walk_vars, Base, WithRuntime
<1>2. CASE CleanupLosesOutput
  BY <1>2 DEF CleanupLosesOutput, HeldAfterCleanup, IInv, HeldMatchesPc, CutIsReported,
     Before, After, walk_vars, Base, WithRuntime
<1>3. CASE DestroyRuntime
  BY <1>3, ReleaseKeepsInvariant DEF DestroyRuntime
<1>4. CASE DestroyStore
  BY <1>4, ReleaseKeepsInvariant DEF DestroyStore
<1>5. CASE DestroyMemory
  BY <1>5, ReleaseKeepsInvariant DEF DestroyMemory
<1> QED BY <1>1, <1>2, <1>3, <1>4, <1>5 DEF Shutdown

(* Every step of the program, and the signal. *)
LEMMA NextKeepsInvariant == IInv /\ [Next]_vars => IInv'
<1> SUFFICES ASSUME IInv, [Next]_vars
             PROVE  IInv'
  OBVIOUS
<1>1. CASE Startup
  BY <1>1, StartupKeepsInvariant
<1>2. CASE Run
  BY <1>2, RunKeepsInvariant
<1>3. CASE Shutdown
  BY <1>3, ShutdownKeepsInvariant
<1>4. CASE Signal
  BY <1>4 DEF Signal, IInv, HeldMatchesPc, CutIsReported, walk_vars
<1>5. CASE UNCHANGED vars
  BY <1>5, Unchanged DEF vars, walk_vars
<1> QED BY <1>1, <1>2, <1>3, <1>4, <1>5 DEF Next, Step, Exited

(* IInv is an invariant. *)
LEMMA Invariant == Spec => []IInv
BY Initially, NextKeepsInvariant, PTL DEF Spec

(* Nothing is released while something that needs it is in use. *)
THEOREM LifetimesAreNested == Spec => []LifetimesNest
<1>1. IInv => LifetimesNest
  BY DEF IInv, HeldMatchesPc, LifetimesNest, Before, After, Base, WithRuntime
<1> QED BY <1>1, Invariant, PTL

(* Every way out of main has released everything. *)
THEOREM NothingLeaks == Spec => []ReleasesAll
<1>1. IInv => ReleasesAll
  BY DEF IInv, HeldMatchesPc, ReleasesAll
<1> QED BY <1>1, Invariant, PTL

(* A search cut short by a signal exits with 130, and no other does. *)
THEOREM SignalIsReported == Spec => []StoppedIs130
<1>1. IInv => StoppedIs130
  BY DEF IInv, CutIsReported, StoppedIs130, After
<1> QED BY <1>1, Invariant, PTL

-----------------------------------------------------------------------------
(* What is delivered. *)

Token == (Nat \X BoundedPaths) \cup {Nul, Newline}
WriterState == [stream : Seq(Token), buffer : Seq(Token)]

(* A line for each of the paths and nothing else. *)
Listing(tokens, paths, sep) ==
  /\ IsFiniteSet(paths)
  /\ Len(tokens) = 2 * Cardinality(paths)
  /\ {tokens[i] : i \in {k \in DOMAIN tokens : k % 2 = 1}} = paths
  /\ \A i \in DOMAIN tokens : i % 2 = 0 => tokens[i] = sep

(* The empty output lists nothing. *)
LEMMA EmptyListing ==
  ASSUME NEW sep
  PROVE  Listing(<<>>, {}, sep)
  <1>1. IsFiniteSet({}) /\ Cardinality({}) = 0
    BY FS_EmptySet
  <1>2. Len(<<>>) = 0 /\ DOMAIN <<>> = {} /\ 0 = 2 * 0
    OBVIOUS
  <1> QED BY <1>1, <1>2 DEF Listing

(* A match more. *)
LEMMA ListingGrows ==
  ASSUME NEW s \in Seq(Token), NEW paths, NEW path \in Token, NEW sep \in Token,
         Listing(s, paths, sep), path \notin paths
  PROVE  Listing(s \o <<path, sep>>, paths \cup {path}, sep)
  <1> DEFINE n == Cardinality(paths)
             t == s \o <<path, sep>>
  <1>1. /\ IsFiniteSet(paths \cup {path}) /\ Cardinality(paths \cup {path}) = n + 1
        /\ n \in Nat /\ IsFiniteSet(paths)
    BY FS_AddElement, FS_CardinalityType DEF Listing
  <1>2. <<path, sep>> \in Seq(Token) /\ Len(<<path, sep>>) = 2
    OBVIOUS
  <1>3. /\ Len(s) = 2 * n /\ DOMAIN s = 1..(2 * n)
    BY LenProperties DEF Listing
  <1>4. /\ t \in Seq(Token) /\ Len(t) = Len(s) + 2
        /\ \A i \in 1..(Len(s) + 2) : t[i] = IF i <= Len(s) THEN s[i] ELSE <<path, sep>>[i - Len(s)]
    BY <1>2, ConcatProperties
  <1>5. DOMAIN t = 1..Len(t)
    BY <1>4, LenProperties
  <1> HIDE DEF t, n
  <1>6. /\ 2 * n + 2 = 2 * (n + 1) /\ (2 * n + 1) % 2 = 1 /\ (2 * n + 2) % 2 = 0
        /\ \A i \in 1..(2 * n + 2) : i \in 1..(2 * n) \/ i = 2 * n + 1 \/ i = 2 * n + 2
        /\ \A i \in 1..(2 * n) : i \in 1..(2 * n + 2) /\ i <= 2 * n
        /\ 2 * n + 1 \in 1..(2 * n + 2) /\ ~(2 * n + 1 <= 2 * n) /\ (2 * n + 1) - 2 * n = 1
        /\ 2 * n + 2 \in 1..(2 * n + 2) /\ ~(2 * n + 2 <= 2 * n) /\ (2 * n + 2) - 2 * n = 2
    BY <1>1
  <1>7. /\ DOMAIN t = 1..(2 * n + 2) /\ Len(t) = 2 * (n + 1)
        /\ \A i \in 1..(2 * n) : t[i] = s[i]
        /\ t[2 * n + 1] = path /\ t[2 * n + 2] = sep
    <2>1. <<path, sep>>[1] = path /\ <<path, sep>>[2] = sep
      OBVIOUS
    <2> DEFINE last == <<path, sep>>
               m == 2 * n
    <2>2. DOMAIN t = 1..(m + 2) /\ Len(t) = m + 2
      BY <1>3, <1>4, <1>5
    <2>3. \A i \in 1..(m + 2) : t[i] = IF i <= m THEN s[i] ELSE last[i - m]
      BY <1>3, <1>4
    <2>4. last[1] = path /\ last[2] = sep
      BY <2>1
    <2> HIDE DEF last
    <2>5. (\A i \in 1..m : t[i] = s[i]) /\ t[m + 1] = last[1] /\ t[m + 2] = last[2]
      BY <1>6, <2>3
    <2> QED BY <1>6, <2>2, <2>4, <2>5
  <1> DEFINE OddOf(u) == {u[i] : i \in {k \in DOMAIN u : k % 2 = 1}}
  <1>8. OddOf(t) = OddOf(s) \cup {path}
    <2>1. ASSUME NEW x \in OddOf(t) PROVE x \in OddOf(s) \cup {path}
      <3>1. PICK i \in 1..(2 * n + 2) : i % 2 = 1 /\ x = t[i]
        BY <1>7, <2>1
      <3>2. CASE i \in 1..(2 * n)
        BY <1>3, <1>7, <3>1, <3>2
      <3> QED BY <1>6, <1>7, <3>1, <3>2
    <2>2. ASSUME NEW x \in OddOf(s) PROVE x \in OddOf(t)
      <3>1. PICK i \in 1..(2 * n) : i % 2 = 1 /\ x = s[i]
        BY <1>3, <2>2
      <3> QED BY <1>6, <1>7, <3>1
    <2>3. path \in OddOf(t)
      BY <1>6, <1>7
    <2> HIDE DEF OddOf
    <2> QED BY <2>1, <2>2, <2>3
  <1>9. OddOf(s) = paths
    BY DEF Listing
  <1>10. \A i \in DOMAIN t : i % 2 = 0 => t[i] = sep
    <2> SUFFICES ASSUME NEW i \in 1..(2 * n + 2), i % 2 = 0 PROVE t[i] = sep
      BY <1>7
    <2>1. CASE i \in 1..(2 * n)
      BY <1>3, <1>7, <2>1 DEF Listing
    <2> QED BY <1>6, <1>7, <2>1
  <1>11. OddOf(t) = paths \cup {path}
    BY <1>8, <1>9
  <1>12. Listing(t, paths \cup {path}, sep)
    BY <1>1, <1>7, <1>10, <1>11 DEF Listing
  <1> QED BY <1>12 DEF t

(* A write appends: nothing is dropped or moved between the buffer and the *)
(* descriptor, whichever way the writer takes.                             *)
LEMMA WriteAppends ==
  ASSUME NEW w \in WriterState, NEW tokens \in Seq(Token)
  PROVE  /\ writer_write(w, tokens) \in WriterState
         /\ Cat(writer_write(w, tokens).stream, writer_write(w, tokens).buffer)
              = Cat(Cat(w.stream, w.buffer), tokens)
  <1> DEFINE a == w.stream
             b == w.buffer
             r == writer_write(w, tokens)
  <1>1. a \in Seq(Token) /\ b \in Seq(Token)
    BY DEF WriterState
  <1>2. /\ Cat(a, b) \in Seq(Token) /\ Cat(b, tokens) \in Seq(Token)
        /\ Cat(Cat(a, b), tokens) \in Seq(Token)
    BY <1>1, ConcatProperties DEF Cat
  <1>3. /\ \A s \in Seq(Token) : Cat(s, <<>>) = s
        /\ <<>> \in Seq(Token)
    BY ConcatEmptySeq DEF Cat
  <1>4. Cat(Cat(a, b), tokens) = Cat(a, Cat(b, tokens))
    BY <1>1, ThreeConcat
  <1>5. \/ r = [w EXCEPT !.buffer = Cat(@, tokens)]
        \/ r = [stream |-> Cat(a, b), buffer |-> tokens]
        \/ r = [stream |-> Cat(Cat(a, b), tokens), buffer |-> <<>>]
    BY DEF writer_write, Cat
  <1>6. \/ r = [stream |-> a, buffer |-> Cat(b, tokens)]
        \/ r = [stream |-> Cat(a, b), buffer |-> tokens]
        \/ r = [stream |-> Cat(Cat(a, b), tokens), buffer |-> <<>>]
    BY <1>5 DEF WriterState
  <1> HIDE DEF r, a, b
  <1>7. r \in WriterState
    <2>1. \A s, t \in Seq(Token) : [stream |-> s, buffer |-> t] \in WriterState
      BY DEF WriterState
    <2> QED BY <1>1, <1>2, <1>3, <1>6, <2>1
  <1>8. Cat(r.stream, r.buffer) = Cat(Cat(a, b), tokens)
    BY <1>2, <1>3, <1>4, <1>6
  <1> QED BY <1>7, <1>8 DEF r, a, b

(* So does bc_seek_output_emit, by one write or by two. *)
LEMMA EmitAppends ==
  ASSUME NEW w \in WriterState, NEW path \in Nat \X BoundedPaths
  PROVE  /\ output_emit(w, path) \in WriterState
         /\ Cat(output_emit(w, path).stream, output_emit(w, path).buffer)
              = Cat(Cat(w.stream, w.buffer), Tokens(path))
  <1> DEFINE before == Cat(w.stream, w.buffer)
             one == writer_write(w, <<path>>)
             two == writer_write(one, <<separator>>)
             both == writer_write(w, Tokens(path))
  <1>1. /\ <<path>> \in Seq(Token) /\ <<separator>> \in Seq(Token) /\ Tokens(path) \in Seq(Token)
        /\ Tokens(path) = Cat(<<path>>, <<separator>>)
    BY DEF Token, separator, Tokens, Cat
  <1>2. before \in Seq(Token)
    BY ConcatProperties DEF Cat, WriterState
  <1>3. both \in WriterState /\ Cat(both.stream, both.buffer) = Cat(before, Tokens(path))
    BY <1>1, WriteAppends
  <1>4. one \in WriterState /\ Cat(one.stream, one.buffer) = Cat(before, <<path>>)
    BY <1>1, WriteAppends
  <1>5. two \in WriterState /\ Cat(two.stream, two.buffer) = Cat(Cat(before, <<path>>), <<separator>>)
    <2> HIDE DEF one
    <2> QED BY <1>1, <1>4, WriteAppends
  <1>6. Cat(Cat(before, <<path>>), <<separator>>) = Cat(before, Tokens(path))
    <2> DEFINE p == <<path>>
               q == <<separator>>
    <2>1. p \in Seq(Token) /\ q \in Seq(Token) /\ Tokens(path) = Cat(p, q)
      BY <1>1
    <2> HIDE DEF p, q, before
    <2>2. Cat(Cat(before, p), q) = Cat(before, Cat(p, q))
      BY <1>2, <2>1, ThreeConcat
    <2>3. Cat(Cat(before, p), q) = Cat(before, Tokens(path))
      BY <2>1, <2>2
    <2> QED BY <2>3 DEF p, q
  <1>7. output_emit(w, path) \in {both, two}
    BY DEF output_emit
  <1> HIDE DEF both, two, before
  <1>8. /\ output_emit(w, path) \in WriterState
        /\ Cat(output_emit(w, path).stream, output_emit(w, path).buffer) = Cat(before, Tokens(path))
    BY <1>3, <1>5, <1>6, <1>7
  <1> QED BY <1>8 DEF before

(* No failure the walk answers for, and no write lost. *)
Flawless == walk_ok /\ errors = 0 /\ ~cut /\ ~lost

(* The labels after the output is closed. *)
Closed == {"destroy_runtime", "destroy_store", "destroy_memory", "done"}

(* The tokens in flight are tokens. *)
OutputTypes ==
  /\ stream \in Seq(Token) /\ buffer \in Seq(Token) /\ gathered \in Seq(Token)
  /\ todo \subseteq Nat \X BoundedPaths /\ handed \subseteq Nat \X BoundedPaths

(* All that was asked for has been handed over, or the walk has strayed. *)
Complete == ~strayed => handed = Wanted

(* Between the walk and the descriptor nothing is lost: as long as nothing *)
(* has failed, what is on the output, in the writer and gathered lists the *)
(* matches that were handed over, and with those to come they are what was *)
(* asked for; and an exit code of 0 leaves no other way to the end.        *)
Delivery ==
  /\ pc \in Before =>
       /\ stream = <<>> /\ buffer = <<>> /\ gathered = <<>>
       /\ exit_code = 0 /\ handed = {} /\ ~strayed
  /\ pc = "walk" /\ ~parallel => gathered = <<>>
  /\ pc = "walk" /\ Flawless =>
       /\ handed \cap todo = {}
       /\ ~strayed => handed \cup todo = Wanted
       /\ Listing(Cat(Cat(stream, buffer), gathered), handed, separator)
  /\ pc = "report" /\ Flawless => Listing(Cat(stream, buffer), handed, separator) /\ Complete
  /\ pc = "cleanup" /\ exit_code = 0 /\ ~lost =>
       /\ "output" \in held
       /\ Listing(Cat(stream, buffer), handed, separator) /\ Complete
  /\ pc \in Closed /\ line.request = "find" /\ exit_code = 0 /\ ~lost =>
       Listing(stream, handed, separator) /\ Complete

DInv == OutputTypes /\ Delivery

(* Both parts depend on these variables alone. *)
LEMMA SameState ==
  ASSUME state' = state
  PROVE  Wanted' = Wanted /\ separator' = separator
  BY DEF Wanted, Places, BoundConfig, separator

(* What a walk can come to is numbered by the arguments. *)
LEMMA WantedType ==
  Wanted \subseteq Nat \X BoundedPaths /\ Mistakable \subseteq Nat \X BoundedPaths
  <1>1. Places \subseteq Nat \X BoundedPaths
    <2>1. \A x : 1..x \subseteq Nat
      OBVIOUS
    <2> QED BY <2>1 DEF Places
  <1> QED BY <1>1 DEF Wanted, Mistakable

(* Nothing has been written before the walk. *)
LEMMA DeliveryInit == Init => DInv
  BY DEF Init, DInv, OutputTypes, Delivery, Before, Closed

(* Before there is a runtime: nothing is written, and exit code 0 is given *)
(* for help and version alone.                                             *)
LEMMA StartupDelivers ==
  ASSUME IInv, DInv, Startup
  PROVE  DInv'
  <1> USE DEF At, Goto
  <1>1. UNCHANGED <<stream, buffer, gathered, todo, handed, strayed>>
    BY DEF Startup, CreateMemory, CreateMemoryFails, CreateStore, CreateStoreFails, ParseAnswers,
           ParseFails, BindFails, Bind, ConfigureFails, CreateRuntime, CreateRuntimeFails,
           LeaveFrom, walk_vars, output_vars
  <1>2. OutputTypes'
    BY <1>1 DEF DInv, OutputTypes
  <1>3. /\ pc \in Before /\ stream = <<>> /\ buffer = <<>> /\ gathered = <<>> /\ exit_code = 0
        /\ handed = {} /\ ~strayed
    <2>1. pc \in Before
      BY DEF Startup, CreateMemory, CreateMemoryFails, CreateStore, CreateStoreFails, ParseAnswers,
             ParseFails, BindFails, Bind, ConfigureFails, CreateRuntime, CreateRuntimeFails, Before
    <2> QED BY <2>1 DEF DInv, Delivery
  <1>4. CASE CreateMemory \/ CreateStore \/ Bind \/ CreateRuntime
    <2>1. pc' \in Before /\ exit_code' = exit_code
      BY <1>4 DEF CreateMemory, CreateStore, Bind, CreateRuntime, Before
    <2>2. pc' \notin {"walk", "report", "cleanup"} \cup Closed
      BY <2>1 DEF Before, Closed
    <2> QED BY <1>1, <1>2, <1>3, <2>1, <2>2 DEF DInv, Delivery
  <1>5. CASE CreateMemoryFails \/ CreateStoreFails \/ ParseFails \/ BindFails \/ ConfigureFails
             \/ CreateRuntimeFails
    <2>1. pc' \in Closed /\ exit_code' \in {1, 2}
      BY <1>5 DEF CreateMemoryFails, CreateStoreFails, ParseFails, BindFails, ConfigureFails,
                  CreateRuntimeFails, LeaveFrom, Closed
    <2>2. pc' \notin {"walk", "report", "cleanup"} \cup Before
      BY <2>1 DEF Before, Closed
    <2> QED BY <1>2, <2>1, <2>2 DEF DInv, Delivery
  <1>6. CASE ParseAnswers
    <2>1. pc' \in Closed /\ line' = line /\ cli_parse_status(line) \in {"help_global", "help_command", "version"}
      BY <1>6 DEF ParseAnswers, LeaveFrom, Closed
    <2>2. line'.request # "find"
      BY <2>1 DEF cli_parse_status
    <2>3. pc' \notin {"walk", "report", "cleanup"} \cup Before
      BY <2>1 DEF Before, Closed
    <2> QED BY <1>2, <2>2, <2>3 DEF DInv, Delivery
  <1> QED BY <1>4, <1>5, <1>6 DEF Startup

(* init and the choice of the walk. *)
LEMMA SetupDelivers ==
  ASSUME IInv, DInv,
         \/ AppInit \/ RunContextFails \/ ChooseWalk
         \/ \E call \in {"context", "collector", "open", "attach"} : AppInitFails(call)
  PROVE  DInv'
  <1> USE DEF At, Goto
  <1>1. /\ pc \in {"init", "run"} /\ state' = state
        /\ UNCHANGED <<stream, buffer, gathered, handed, strayed>>
    BY DEF AppInit, AppInitFails, RunContextFails, ChooseWalk, walk_vars, output_vars
  <1>2. stream = <<>> /\ buffer = <<>> /\ gathered = <<>> /\ exit_code = 0 /\ handed = {} /\ ~strayed
    BY <1>1 DEF DInv, Delivery, Before
  <1>3. CASE AppInit
    <2>1. pc' = "run" /\ UNCHANGED <<todo, exit_code>>
      BY <1>3 DEF AppInit, walk_vars
    <2> QED BY <1>1, <1>2, <2>1 DEF DInv, OutputTypes, Delivery, Closed
  <1>4. CASE RunContextFails \/ \E call \in {"context", "collector", "open", "attach"} : AppInitFails(call)
    <2>1. pc' = "cleanup" /\ exit_code' = 1 /\ todo' = todo
      BY <1>4 DEF RunContextFails, AppInitFails, walk_vars
    <2> QED BY <1>1, <2>1 DEF DInv, OutputTypes, Delivery, Before, Closed
  <1>5. CASE ChooseWalk
    <2>1. pc' = "walk" /\ todo' = Wanted
      BY <1>5 DEF ChooseWalk
    <2>2. Wanted' = Wanted /\ separator' = separator
      BY <1>1, SameState
    <2>3. Wanted \subseteq Nat \X BoundedPaths
      BY WantedType
    <2>4. Cat(Cat(stream', buffer'), gathered') = <<>>
      BY <1>1, <1>2 DEF Cat
    <2>5. Listing(Cat(Cat(stream', buffer'), gathered'), handed', separator')
      BY <1>1, <1>2, <2>4, EmptyListing
    <2>6. OutputTypes'
      BY <1>1, <2>1, <2>3 DEF DInv, OutputTypes
    <2>7. handed' \cap todo' = {} /\ handed' \cup todo' = Wanted'
      BY <1>1, <1>2, <2>1, <2>2
    <2> QED BY <1>1, <1>2, <2>1, <2>5, <2>6, <2>7 DEF DInv, Delivery, Before, Closed
  <1> QED BY <1>3, <1>4, <1>5

(* A match taken from those to come is new to the listing. *)
LEMMA NextMatch ==
  ASSUME DInv, NEW path \in todo, Flawless, pc = "walk", NEW s \in Seq(Token),
         Listing(s, handed, separator)
  PROVE  /\ Listing(Cat(s, Tokens(path)), handed \cup {path}, separator)
         /\ (handed \cup {path}) \cap (todo \ {path}) = {}
         /\ ~strayed => (handed \cup {path}) \cup (todo \ {path}) = Wanted
  <1>1. /\ path \in Nat \X BoundedPaths /\ handed \cap todo = {}
        /\ ~strayed => handed \cup todo = Wanted
    BY DEF DInv, OutputTypes, Delivery
  <1>2. path \in Token /\ separator \in Token /\ path \notin handed
    BY <1>1 DEF Token, separator
  <1>3. Listing(s \o <<path, separator>>, handed \cup {path}, separator)
    BY <1>2, ListingGrows
  <1> QED BY <1>1, <1>3 DEF Cat, Tokens

(* The steps of the walk: a match goes through the writer or is gathered,  *)
(* or a failure shows.                                                     *)
LEMMA WalkDelivers ==
  ASSUME IInv, DInv,
         \/ \E path \in todo :
              SequentialEmit(path) \/ SequentialEmitFails(path) \/ ParallelGather(path)
         \/ WalkError \/ WalkStrays \/ WalkStops
  PROVE  DInv'
  <1> USE DEF At, Goto
  <1>1. /\ pc = "walk" /\ pc' = "walk" /\ UNCHANGED <<state, parallel>>
    BY DEF SequentialEmit, SequentialEmitFails, ParallelGather, WalkError, WalkStrays, WalkStops
  <1>2. Wanted' = Wanted /\ separator' = separator
    BY <1>1, SameState
  <1>3. /\ stream \in Seq(Token) /\ buffer \in Seq(Token) /\ gathered \in Seq(Token)
        /\ todo \subseteq Nat \X BoundedPaths /\ handed \subseteq Nat \X BoundedPaths
        /\ ~parallel => gathered = <<>>
        /\ Flawless =>
             /\ handed \cap todo = {} /\ (~strayed => handed \cup todo = Wanted)
             /\ Listing(Cat(Cat(stream, buffer), gathered), handed, separator)
    BY <1>1 DEF DInv, OutputTypes, Delivery
  <1>4. ASSUME OutputTypes', ~parallel => gathered' = <<>>,
               Flawless' =>
                 /\ handed' \cap todo' = {} /\ (~strayed' => handed' \cup todo' = Wanted)
                 /\ Listing(Cat(Cat(stream', buffer'), gathered'), handed', separator)
        PROVE  DInv'
    BY <1>1, <1>2, <1>4 DEF DInv, Delivery, Before, Closed
  <1>5. ASSUME NEW path \in todo, SequentialEmit(path)
        PROVE  DInv'
    <2> DEFINE w == Writer
               r == output_emit(Writer, path)
    <2>1. /\ ~parallel /\ stream' = r.stream /\ buffer' = r.buffer /\ todo' = todo \ {path}
          /\ handed' = handed \cup {path}
          /\ UNCHANGED <<gathered, walk_ok, errors, strayed, cut, lost>>
      BY <1>5 DEF SequentialEmit
    <2>2. w \in WriterState /\ w.stream = stream /\ w.buffer = buffer
      BY <1>3 DEF Writer, WriterState
    <2>3. path \in Nat \X BoundedPaths
      BY <1>3
    <2>4. r \in WriterState /\ Cat(r.stream, r.buffer) = Cat(Cat(stream, buffer), Tokens(path))
      <3> HIDE DEF w
      <3>1. /\ output_emit(w, path) \in WriterState
            /\ Cat(output_emit(w, path).stream, output_emit(w, path).buffer)
                 = Cat(Cat(w.stream, w.buffer), Tokens(path))
        BY <2>2, <2>3, EmitAppends
      <3> QED BY <2>2, <3>1 DEF w
    <2> HIDE DEF w, r
    <2>5. OutputTypes'
      BY <1>3, <2>1, <2>4 DEF OutputTypes, WriterState
    <2>6. Cat(stream, buffer) \in Seq(Token) /\ Cat(stream', buffer') \in Seq(Token)
      BY <1>3, <2>5, ConcatProperties DEF Cat, OutputTypes
    <2>7. \A s \in Seq(Token) : Cat(s, <<>>) = s
      BY ConcatEmptySeq DEF Cat
    <2>8. Flawless' => Flawless
      BY <2>1 DEF Flawless
    <2>9. ASSUME Flawless
          PROVE  /\ handed' \cap todo' = {} /\ (~strayed' => handed' \cup todo' = Wanted)
                 /\ Listing(Cat(Cat(stream', buffer'), gathered'), handed', separator)
      <3>1. Listing(Cat(stream, buffer), handed, separator)
        BY <1>3, <2>1, <2>6, <2>7, <2>9
      <3>2. /\ Listing(Cat(Cat(stream, buffer), Tokens(path)), handed \cup {path}, separator)
            /\ (handed \cup {path}) \cap (todo \ {path}) = {}
            /\ ~strayed => (handed \cup {path}) \cup (todo \ {path}) = Wanted
        BY <1>1, <2>6, <2>9, <3>1, NextMatch
      <3>3. Cat(Cat(stream', buffer'), gathered') = Cat(Cat(stream, buffer), Tokens(path))
        BY <1>3, <2>1, <2>4, <2>6, <2>7
      <3> QED BY <2>1, <3>2, <3>3
    <2> QED BY <1>3, <1>4, <2>1, <2>5, <2>8, <2>9
  <1>6. ASSUME NEW path \in todo, ParallelGather(path)
        PROVE  DInv'
    <2>1. /\ parallel /\ gathered' = Cat(gathered, Tokens(path)) /\ todo' = todo \ {path}
          /\ handed' = handed \cup {path}
          /\ UNCHANGED <<stream, buffer, walk_ok, errors, strayed, cut, lost>>
      BY <1>6 DEF ParallelGather, Cat, output_vars
    <2>2. path \in Nat \X BoundedPaths
      BY <1>3
    <2>3. Tokens(path) \in Seq(Token)
      BY <2>2 DEF Tokens, Token, separator
    <2>4. Cat(stream, buffer) \in Seq(Token) /\ gathered' \in Seq(Token)
          /\ Cat(Cat(stream, buffer), gathered) \in Seq(Token)
      BY <1>3, <2>1, <2>3, ConcatProperties DEF Cat
    <2>5. Cat(Cat(stream', buffer'), gathered') = Cat(Cat(Cat(stream, buffer), gathered), Tokens(path))
      <3> DEFINE t == Tokens(path)
                 q == Cat(stream, buffer)
      <3>1. Cat(stream', buffer') = q
        BY <2>1
      <3>2. q \in Seq(Token) /\ t \in Seq(Token) /\ gathered' = Cat(gathered, t)
        BY <2>1, <2>3, <2>4
      <3> HIDE DEF t, q
      <3>3. Cat(q, gathered') = Cat(Cat(q, gathered), t)
        BY <1>3, <3>2, ThreeConcat
      <3> QED BY <3>1, <3>3 DEF t, q
    <2>6. OutputTypes'
      BY <1>3, <2>1, <2>4 DEF OutputTypes
    <2>7. Flawless' => Flawless
      BY <2>1 DEF Flawless
    <2>8. ASSUME Flawless
          PROVE  /\ handed' \cap todo' = {} /\ (~strayed' => handed' \cup todo' = Wanted)
                 /\ Listing(Cat(Cat(stream', buffer'), gathered'), handed', separator)
      BY <1>1, <1>3, <2>1, <2>4, <2>5, <2>8, NextMatch
    <2> QED BY <1>3, <1>4, <2>1, <2>6, <2>7, <2>8
  <1>7. ASSUME NEW path \in todo, SequentialEmitFails(path)
        PROVE  DInv'
    <2>1. PICK n \in 0..Len(buffer) : /\ stream' = stream \o SubSeq(buffer, 1, n)
                                      /\ buffer' = SubSeq(buffer, n + 1, Len(buffer))
      BY <1>7 DEF SequentialEmitFails
    <2>2. lost' = TRUE /\ todo' \subseteq todo /\ gathered' = gathered /\ handed' = handed
      BY <1>7 DEF SequentialEmitFails
    <2>3. Len(buffer) \in Nat /\ \A k \in 1..Len(buffer) : buffer[k] \in Token
      BY <1>3, LenProperties
    <2>4. SubSeq(buffer, 1, n) \in Seq(Token) /\ buffer' \in Seq(Token)
      <3> DEFINE m == Len(buffer)
      <3>1. m \in Nat /\ n \in 0..m /\ \A k \in 1..m : buffer[k] \in Token
        BY <2>3
      <3> HIDE DEF m
      <3>2. /\ n \in Int /\ n + 1 \in Int /\ m \in Int
            /\ \A k \in 1..n : k \in 1..m
            /\ \A k \in (n + 1)..m : k \in 1..m
        BY <3>1
      <3>3. \A k \in 1..n : buffer[k] \in Token
        BY <3>1, <3>2
      <3>4. \A k \in (n + 1)..m : buffer[k] \in Token
        BY <3>1, <3>2
      <3> QED BY <1>3, <2>1, <3>2, <3>3, <3>4, SubSeqProperties DEF m
    <2>5. stream' \in Seq(Token)
      BY <1>3, <2>1, <2>4, ConcatProperties
    <2>6. OutputTypes'
      BY <1>3, <2>2, <2>4, <2>5 DEF OutputTypes
    <2>7. ~Flawless'
      BY <2>2 DEF Flawless
    <2> QED BY <1>3, <1>4, <2>2, <2>6, <2>7
  <1>8. CASE WalkError \/ WalkStops
    <2>1. /\ UNCHANGED <<stream, buffer, gathered, handed>> /\ todo' \subseteq todo
          /\ errors' = 1 \/ cut' = TRUE
      BY <1>8 DEF WalkError, WalkStops, output_vars
    <2>2. OutputTypes' /\ ~Flawless'
      BY <1>3, <2>1 DEF OutputTypes, Flawless
    <2> QED BY <1>3, <1>4, <2>1, <2>2
  <1>9. CASE WalkStrays
    <2>1. /\ UNCHANGED <<stream, buffer, gathered, handed, walk_ok, errors, cut, lost>>
          /\ todo' \subseteq todo \cup Mistakable /\ strayed' = TRUE /\ handed = {}
      BY <1>9 DEF WalkStrays, output_vars
    <2>2. OutputTypes'
      BY <1>3, <2>1, WantedType DEF OutputTypes
    <2>3. Flawless' => Flawless
      BY <2>1 DEF Flawless
    <2>4. handed' \cap todo' = {}
      BY <2>1
    <2> QED BY <1>3, <1>4, <2>1, <2>2, <2>3, <2>4
  <1> QED BY <1>5, <1>6, <1>7, <1>8, <1>9

(* The beginning of a sequence of tokens. *)
LEMMA BeginningType ==
  ASSUME NEW s \in Seq(Token), NEW n \in 0..Len(s)
  PROVE  SubSeq(s, 1, n) \in Seq(Token)
  <1> DEFINE m == Len(s)
  <1>1. m \in Nat /\ \A k \in 1..m : s[k] \in Token
    BY LenProperties
  <1>2. n \in Int /\ \A k \in 1..n : k \in 1..m
    <2> HIDE DEF m
    <2>1. n \in 0..m
      BY DEF m
    <2> QED BY <1>1, <2>1
  <1> QED BY <1>1, <1>2, SubSeqProperties

(* The walk returns, and its exit code is settled. *)
LEMMA EndDelivers ==
  ASSUME IInv, DInv, WalkSetupFails \/ WalkEnds \/ WalkWriteFails \/ Report
  PROVE  DInv'
  <1> USE DEF At, Goto
  <1>1. state' = state
    BY DEF WalkSetupFails, WalkEnds, WalkWriteFails, Report
  <1>2. Wanted' = Wanted /\ separator' = separator
    BY <1>1, SameState
  <1>3. /\ stream \in Seq(Token) /\ buffer \in Seq(Token) /\ gathered \in Seq(Token)
        /\ todo \subseteq Nat \X BoundedPaths /\ handed \subseteq Nat \X BoundedPaths
    BY DEF DInv, OutputTypes
  <1>4. CASE WalkSetupFails
    <2>1. /\ pc' = "report" /\ walk_ok' = FALSE /\ todo' = {}
          /\ UNCHANGED <<stream, buffer, gathered, handed>>
      BY <1>4 DEF WalkSetupFails, output_vars
    <2>2. OutputTypes' /\ ~Flawless'
      BY <1>3, <2>1 DEF OutputTypes, Flawless
    <2> QED BY <2>1, <2>2 DEF DInv, Delivery, Before, Closed
  <1>5. CASE WalkWriteFails
    <2>1. /\ pc' = "report" /\ walk_ok' = FALSE /\ UNCHANGED <<buffer, gathered, todo, handed>>
      BY <1>5 DEF WalkWriteFails
    <2>2. PICK n \in 0..(Len(gathered) - 1) : stream' = stream \o SubSeq(gathered, 1, n)
      BY <1>5 DEF WalkWriteFails
    <2>3. stream' \in Seq(Token)
      <3>1. n \in 0..Len(gathered)
        <4>1. Len(gathered) \in Nat
          BY <1>3, LenProperties
        <4> QED BY <4>1
      <3> QED BY <1>3, <2>2, <3>1, BeginningType, ConcatProperties
    <2>4. OutputTypes' /\ ~Flawless'
      BY <1>3, <2>1, <2>3 DEF OutputTypes, Flawless
    <2> QED BY <2>1, <2>4 DEF DInv, Delivery, Before, Closed
  <1>6. CASE WalkEnds
    <2>1. /\ pc = "walk" /\ pc' = "report" /\ todo = {} /\ UNCHANGED <<walk_vars, lost>>
          /\ stream' = IF gathered # <<>> THEN Cat(Cat(stream, buffer), gathered) ELSE stream
          /\ buffer' = IF gathered # <<>> THEN <<>> ELSE buffer
      BY <1>6 DEF WalkEnds, Cat
    <2>2. /\ <<>> \in Seq(Token) /\ \A s \in Seq(Token) : Cat(s, <<>>) = s
          /\ Cat(stream, buffer) \in Seq(Token) /\ Cat(Cat(stream, buffer), gathered) \in Seq(Token)
      BY <1>3, ConcatEmptySeq, ConcatProperties DEF Cat
    <2>3. OutputTypes'
      BY <1>3, <2>1, <2>2 DEF OutputTypes, walk_vars
    <2>4. Cat(stream', buffer') = Cat(Cat(stream, buffer), gathered)
      BY <2>1, <2>2
    <2>5. Flawless' => Flawless
      BY <2>1 DEF Flawless, walk_vars
    <2>6. Flawless => /\ Listing(Cat(Cat(stream, buffer), gathered), handed, separator)
                      /\ ~strayed => handed \cup todo = Wanted
      BY <2>1 DEF DInv, Delivery
    <2>7. UNCHANGED <<handed, strayed>> /\ handed \cup todo = handed
      BY <2>1 DEF walk_vars
    <2>8. Flawless' => Listing(Cat(stream', buffer'), handed', separator') /\ Complete'
      BY <1>2, <2>4, <2>5, <2>6, <2>7 DEF Complete
    <2> QED BY <2>1, <2>3, <2>8 DEF DInv, Delivery, Before, Closed
  <1>7. CASE Report
    <2>1. /\ pc = "report" /\ pc' = "cleanup" /\ exit_code' = exit_code_of(signalled, walk_ok, errors)
          /\ UNCHANGED <<held, walk_vars, output_vars>>
      BY <1>7 DEF Report
    <2>2. UNCHANGED <<stream, buffer, gathered, todo, lost, handed, strayed>>
      BY <2>1 DEF walk_vars, output_vars
    <2>3. "output" \in held /\ (cut => signalled)
      BY <2>1 DEF IInv, HeldMatchesPc, CutIsReported
    <2>4. exit_code' = 0 => ~signalled /\ walk_ok /\ errors = 0
      BY <2>1 DEF exit_code_of
    <2>5. exit_code' = 0 /\ ~lost => Listing(Cat(stream, buffer), handed, separator) /\ Complete
      BY <2>1, <2>3, <2>4 DEF DInv, Delivery, Flawless
    <2>6. OutputTypes'
      BY <1>3, <2>2 DEF OutputTypes
    <2>7. Complete' = Complete
      BY <1>2, <2>2 DEF Complete
    <2> QED BY <1>2, <2>1, <2>2, <2>3, <2>5, <2>6, <2>7 DEF DInv, Delivery, Before, Closed
  <1> QED BY <1>4, <1>5, <1>6, <1>7

(* The output is closed, and the rest only releases. *)
LEMMA ShutdownDelivers ==
  ASSUME IInv, DInv, Shutdown
  PROVE  DInv'
  <1> USE DEF At, Goto
  <1>1. state' = state /\ line' = line /\ exit_code' = exit_code /\ UNCHANGED walk_vars
    BY DEF Shutdown, Cleanup, CleanupLosesOutput, DestroyRuntime, DestroyStore, DestroyMemory, Release
  <1>2. Wanted' = Wanted /\ separator' = separator
    BY <1>1, SameState
  <1>3. /\ stream \in Seq(Token) /\ buffer \in Seq(Token) /\ gathered \in Seq(Token)
        /\ todo \subseteq Nat \X BoundedPaths /\ handed \subseteq Nat \X BoundedPaths
        /\ UNCHANGED <<gathered, todo, handed, strayed>>
    BY <1>1 DEF DInv, OutputTypes, walk_vars
  <1>4. pc' \in Closed
    BY DEF Shutdown, Cleanup, CleanupLosesOutput, DestroyRuntime, DestroyStore, DestroyMemory, Release,
           Closed
  <1>5. ASSUME stream' \in Seq(Token), buffer' \in Seq(Token),
               line.request = "find" /\ exit_code = 0 /\ ~lost' =>
                 Listing(stream', handed, separator) /\ Complete
        PROVE  DInv'
    <2>1. OutputTypes'
      BY <1>3, <1>5 DEF OutputTypes
    <2>2. pc' \notin {"walk", "report", "cleanup"} \cup Before
      BY <1>4 DEF Before, Closed
    <2>3. Complete' = Complete
      BY <1>2, <1>3 DEF Complete
    <2> QED BY <1>1, <1>2, <1>3, <1>5, <2>1, <2>2, <2>3 DEF DInv, Delivery
  <1>6. CASE Cleanup
    <2>1. /\ pc = "cleanup" /\ lost' = lost
          /\ stream' = IF "output" \in held THEN Cat(stream, buffer) ELSE stream
          /\ buffer' = IF "output" \in held THEN <<>> ELSE buffer
      BY <1>6 DEF Cleanup, output_close, Cat
    <2>2. Cat(stream, buffer) \in Seq(Token) /\ <<>> \in Seq(Token)
      BY <1>3, ConcatProperties DEF Cat
    <2>3. exit_code = 0 /\ ~lost =>
            "output" \in held /\ Listing(Cat(stream, buffer), handed, separator) /\ Complete
      BY <2>1 DEF DInv, Delivery
    <2> QED BY <1>3, <1>5, <2>1, <2>2, <2>3
  <1>7. CASE CleanupLosesOutput
    <2>1. lost' = TRUE /\ buffer' = <<>>
      BY <1>7 DEF CleanupLosesOutput
    <2>2. PICK n \in 0..Len(stream \o buffer) : stream' = SubSeq(stream \o buffer, 1, n)
      BY <1>7 DEF CleanupLosesOutput
    <2>3. stream' \in Seq(Token) /\ <<>> \in Seq(Token)
      <3>1. stream \o buffer \in Seq(Token)
        BY <1>3, ConcatProperties
      <3> QED BY <2>2, <3>1, BeginningType
    <2> QED BY <1>5, <2>1, <2>3
  <1>8. CASE DestroyRuntime \/ DestroyStore \/ DestroyMemory
    <2>1. pc \in Closed /\ UNCHANGED output_vars
      BY <1>8 DEF DestroyRuntime, DestroyStore, DestroyMemory, Release, Closed
    <2>2. UNCHANGED <<stream, buffer, lost>>
      BY <2>1 DEF output_vars
    <2>3. line.request = "find" /\ exit_code = 0 /\ ~lost =>
            Listing(stream, handed, separator) /\ Complete
      BY <2>1 DEF DInv, Delivery
    <2> QED BY <1>3, <1>5, <2>2, <2>3
  <1> QED BY <1>6, <1>7, <1>8 DEF Shutdown

(* A signal, and no step at all. *)
LEMMA IdleDelivers ==
  ASSUME DInv, Signal \/ UNCHANGED vars
  PROVE  DInv'
  <1>1. /\ UNCHANGED <<line, pc, held, state, exit_code, parallel, todo, gathered, walk_ok, errors, cut>>
        /\ UNCHANGED <<buffer, stream, lost, handed, strayed>>
    BY DEF Signal, vars, walk_vars, output_vars
  <1>2. Wanted' = Wanted /\ separator' = separator
    BY <1>1, SameState
  <1>3. Flawless' = Flawless /\ Complete' = Complete
    BY <1>1, <1>2 DEF Flawless, Complete
  <1> QED BY <1>1, <1>2, <1>3 DEF DInv, OutputTypes, Delivery

(* DInv is an invariant. *)
LEMMA DeliveryInvariant == Spec => []DInv
  <1>1. IInv /\ DInv /\ [Next]_vars => DInv'
    <2> SUFFICES ASSUME IInv, DInv, [Next]_vars PROVE DInv'
      OBVIOUS
    <2>1. CASE Startup
      BY <2>1, StartupDelivers
    <2>2. CASE Run
      BY <2>2, SetupDelivers, WalkDelivers, EndDelivers DEF Run
    <2>3. CASE Shutdown
      BY <2>3, ShutdownDelivers
    <2>4. CASE Signal \/ UNCHANGED vars
      BY <2>4, IdleDelivers
    <2> QED BY <2>1, <2>2, <2>3, <2>4 DEF Next, Step, Exited
  <1> QED BY <1>1, DeliveryInit, Invariant, PTL DEF Spec

(* Exit code 0 of a search that lost no write means one line on the output *)
(* for every match the walk has handed over and nothing else: the writer   *)
(* passes on all it was given, whether a match fits its buffer or not.     *)
(* They are the matches that were asked for unless the walk has strayed    *)
(* without a word: a failure of init or of the walk that is told of, a     *)
(* walk that was not set up and one cut short do not end with 0.           *)
THEOREM SuccessDelivers == Spec => []Delivered
  <1>1. DInv => Delivered
    BY DEF DInv, Delivery, Delivered, Listing, Closed, Complete
  <1> QED BY <1>1, DeliveryInvariant, PTL

-----------------------------------------------------------------------------
(* The size of what the writer holds. *)

(* Every token has bytes. *)
LEMMA TokenSizeType ==
  ASSUME NEW t \in Token
  PROVE  TokenSize(t) \in Nat
  <1>1. CASE t \in {Nul, Newline}
    BY <1>1 DEF TokenSize
  <1>2. CASE t \notin {Nul, Newline}
    <2> DEFINE p == t[2]
    <2>1. PICK n \in 1..(PathCapacity - 1) : p \in [1..n -> Dirents]
      BY <1>2 DEF Token, BoundedPaths
    <2>2. n \in Nat /\ n >= 1
      BY SearchSpaceAssumption
    <2> HIDE DEF p
    <2>3. p \in Seq(Dirents) /\ Len(p) = n /\ p[1] \in Dirents
      BY <2>1, <2>2
    <2>4. ArgLength[p[1]] \in Nat \ {0}
      BY <2>3, ArgLengthType
    <2>5. TokenSize(t) = PathLength(p)
      BY <1>2 DEF TokenSize, p
    <2> QED BY <2>2, <2>3, <2>4, <2>5 DEF PathLength
  <1> QED BY <1>1, <1>2

(* The size of a sequence, token by token. *)
LEMMA SizeSteps ==
  ASSUME NEW tokens \in Seq(Token)
  PROVE  \E F \in [0..Len(tokens) -> Nat] :
           /\ F[0] = 0
           /\ \A k \in 1..Len(tokens) : F[k] = F[k - 1] + TokenSize(tokens[k])
           /\ Size(tokens) = F[Len(tokens)]
  <1> DEFINE n == Len(tokens)
             V == Nat
             Table(f) == f = [s \in SUBSET DOMAIN tokens |->
               IF s = {} THEN 0 ELSE f[s \ {Max(s)}] + TokenSize(tokens[Max(s)])]
             f == CHOOSE f : Table(f)
             step == [p \in V \X (1..n) |-> p[1] + TokenSize(tokens[p[2]])]
  <1>1. n \in Nat /\ DOMAIN tokens = 1..n /\ 0 \in V /\ \A i \in 1..n : tokens[i] \in Token
    OBVIOUS
  <1>2. step \in [V \X (1..n) -> V]
    BY <1>1, TokenSizeType
  <1>3. \A a \in V, i \in 1..n : step[<<a, i>>] = a + TokenSize(tokens[i])
    OBVIOUS
  <1>4. Size(tokens) = f[1..n]
    BY <1>1 DEF Size, FoldLeft, MapThenFoldSet
  <1> HIDE DEF V, step
  <1>5. \E h : Table(h)
    <2>1. PICK h \in [SUBSET (1..n) -> V] : IsFoldTable(h, n, 0, step)
      BY <1>1, <1>2, FoldTableExists
    <2>2. ASSUME NEW s \in SUBSET (1..n), s # {}
          PROVE  h[s] = h[s \ {Max(s)}] + TokenSize(tokens[Max(s)])
      <3>1. Max(s) \in 1..n /\ s \ {Max(s)} \in SUBSET (1..n)
        BY <1>1, <2>2, GreatestElement
      <3> QED BY <1>3, <2>1, <2>2, <3>1 DEF IsFoldTable
    <2>3. h[{}] = 0
      BY <2>1 DEF IsFoldTable
    <2>4. \A s \in SUBSET (1..n) :
            h[s] = IF s = {} THEN 0 ELSE h[s \ {Max(s)}] + TokenSize(tokens[Max(s)])
      BY <2>2, <2>3
    <2>5. Table(h)
      BY <1>1, <2>4
    <2> QED BY <2>5
  <1>6. Table(f)
    <2> HIDE DEF Table
    <2> QED BY <1>5
  <1> HIDE DEF f
  <1>7. f[{}] = 0
    BY <1>6
  <1>8. GoesBy(f, n, V, 0, step)
    <2> SUFFICES ASSUME NEW s \in SUBSET (1..n), s # {}, f[s \ {Max(s)}] \in V
                 PROVE  f[s] = step[<<f[s \ {Max(s)}], Max(s)>>]
      BY <1>7 DEF GoesBy
    <2>1. Max(s) \in 1..n
      BY <1>1, GreatestElement
    <2>2. f[s] = f[s \ {Max(s)}] + TokenSize(tokens[Max(s)])
      BY <1>1, <1>6
    <2> QED BY <1>3, <2>1, <2>2
  <1>9. StepByStep(f, n, V, 0, step)
    BY <1>1, <1>2, <1>8, FoldPrefixes, Zenon
  <1> DEFINE F == [k \in 0..n |-> f[1..k]]
  <1>10. F \in [0..n -> V] /\ F[0] = 0 /\ F[n] = f[1..n]
    BY <1>1, <1>9 DEF StepByStep
  <1>11. \A k \in 1..n : F[k] = F[k - 1] + TokenSize(tokens[k])
    <2> SUFFICES ASSUME NEW k \in 1..n PROVE F[k] = F[k - 1] + TokenSize(tokens[k])
      OBVIOUS
    <2>1. k \in 0..n /\ k - 1 \in 0..n
      BY <1>1
    <2> QED BY <1>3, <1>9, <2>1 DEF StepByStep
  <1> HIDE DEF F
  <1> QED BY <1>4, <1>10, <1>11 DEF V

(* An empty buffer has no bytes. *)
LEMMA SizeOfNothing == Size(<<>>) = 0
  <1>1. <<>> \in Seq(Token) /\ Len(<<>>) = 0
    OBVIOUS
  <1> QED BY <1>1, SizeSteps

(* Sizes are numbers. *)
LEMMA SizeType ==
  ASSUME NEW tokens \in Seq(Token)
  PROVE  Size(tokens) \in Nat
  <1>1. PICK F \in [0..Len(tokens) -> Nat] : Size(tokens) = F[Len(tokens)]
    BY SizeSteps
  <1> QED BY <1>1

(* What is left of a buffer is no larger than the buffer was. *)
LEMMA SizeOfRest ==
  ASSUME NEW tokens \in Seq(Token), NEW n \in 0..Len(tokens)
  PROVE  /\ SubSeq(tokens, n + 1, Len(tokens)) \in Seq(Token)
         /\ Size(SubSeq(tokens, n + 1, Len(tokens))) <= Size(tokens)
  <1> DEFINE m == Len(tokens)
             rest == SubSeq(tokens, n + 1, m)
             d == m - n
  <1>1. m \in Nat /\ n \in Nat /\ n <= m /\ d \in Nat
    OBVIOUS
  <1>2. rest \in Seq(Token) /\ Len(rest) = d /\ \A i \in 1..d : rest[i] = tokens[n + i]
    BY <1>1, SliceIs
  <1>3. PICK F \in [0..m -> Nat] :
          /\ F[0] = 0
          /\ \A k \in 1..m : F[k] = F[k - 1] + TokenSize(tokens[k])
          /\ Size(tokens) = F[m]
    BY SizeSteps
  <1> HIDE DEF rest
  <1>4. PICK G \in [0..d -> Nat] :
          /\ G[0] = 0
          /\ \A k \in 1..d : G[k] = G[k - 1] + TokenSize(rest[k])
          /\ Size(rest) = G[d]
    BY <1>2, SizeSteps
  <1>5. \A k \in 1..m : TokenSize(tokens[k]) \in Nat
    BY TokenSizeType
  <1> HIDE DEF m, d
  <1>6. m = n + d
    BY <1>1 DEF d
  <1> DEFINE S == {k \in 0..d : G[k] <= F[n + k]}
  <1>7. 0 \in S
    <2>1. n + 0 = n /\ n \in 0..m /\ 0 \in 0..d
      BY <1>1
    <2>2. F[n] \in Nat
      BY <2>1
    <2> QED BY <1>4, <2>1, <2>2
  <1>8. ASSUME NEW k \in 0..(d - 1), k \in S PROVE k + 1 \in S
    <2>1. /\ k + 1 \in 1..d /\ (k + 1) - 1 = k /\ k + 1 \in 0..d
          /\ n + (k + 1) \in 1..m /\ (n + (k + 1)) - 1 = n + k /\ n + k \in 0..m /\ k \in 0..d
      BY <1>1, <1>6
    <2>2. G[k + 1] = G[k] + TokenSize(rest[k + 1])
      BY <1>4, <2>1
    <2>3. F[n + (k + 1)] = F[n + k] + TokenSize(tokens[n + (k + 1)])
      BY <1>3, <2>1
    <2>4. rest[k + 1] = tokens[n + (k + 1)] /\ TokenSize(tokens[n + (k + 1)]) \in Nat
      BY <1>2, <1>5, <2>1
    <2> DEFINE t == TokenSize(tokens[n + (k + 1)])
    <2>5. G[k + 1] = G[k] + t /\ F[n + (k + 1)] = F[n + k] + t /\ t \in Nat
      BY <2>2, <2>3, <2>4
    <2>6. G[k] \in Nat /\ F[n + k] \in Nat /\ G[k] <= F[n + k]
      BY <1>8, <2>1
    <2> HIDE DEF t
    <2>7. G[k + 1] <= F[n + (k + 1)]
      BY <2>5, <2>6
    <2> QED BY <2>1, <2>7
  <1>9. d \in S
    <2> HIDE DEF S
    <2>1. \A k \in 0..d : k \in S
      BY <1>1, <1>7, <1>8, InductionUpTo
    <2>2. d \in 0..d
      BY <1>1
    <2> QED BY <2>1, <2>2
  <1>10. G[d] <= F[m]
    BY <1>6, <1>9
  <1>11. rest \in Seq(Token) /\ Size(rest) <= Size(tokens)
    BY <1>2, <1>3, <1>4, <1>10
  <1> QED BY <1>11 DEF rest, m

(* The writer never holds more than its buffer. *)
LEMMA WriteFits ==
  ASSUME NEW w \in WriterState, NEW tokens \in Seq(Token)
  PROVE  Size(writer_write(w, tokens).buffer) <= WriterCapacity
  <1>1. CASE Size(w.buffer \o tokens) <= WriterCapacity
    <2>1. writer_write(w, tokens).buffer = w.buffer \o tokens
      BY <1>1 DEF writer_write, WriterState
    <2> QED BY <1>1, <2>1
  <1>2. CASE ~(Size(w.buffer \o tokens) <= WriterCapacity) /\ Size(tokens) <= WriterCapacity
    <2>1. writer_write(w, tokens).buffer = tokens
      BY <1>2 DEF writer_write
    <2> QED BY <1>2, <2>1
  <1>3. CASE ~(Size(w.buffer \o tokens) <= WriterCapacity) /\ ~(Size(tokens) <= WriterCapacity)
    <2>1. writer_write(w, tokens).buffer = <<>>
      BY <1>3 DEF writer_write
    <2> QED BY <2>1, SizeOfNothing, ApplicationAssumption
  <1> QED BY <1>1, <1>2, <1>3

(* Nor does it after a match. *)
LEMMA EmitFits ==
  ASSUME NEW w \in WriterState, NEW path \in Nat \X BoundedPaths
  PROVE  Size(output_emit(w, path).buffer) <= WriterCapacity
  <1> DEFINE one == writer_write(w, <<path>>)
  <1>1. <<path>> \in Seq(Token) /\ <<separator>> \in Seq(Token) /\ Tokens(path) \in Seq(Token)
    BY DEF Token, separator, Tokens
  <1>2. one \in WriterState
    BY <1>1, WriteAppends
  <1> HIDE DEF one
  <1>3. output_emit(w, path) \in {writer_write(w, Tokens(path)), writer_write(one, <<separator>>)}
    BY DEF output_emit, one
  <1> QED BY <1>1, <1>2, <1>3, WriteFits

-----------------------------------------------------------------------------
(* The accepted command line, the pool and the walk. *)

(* The options of the application are those of a line that was accepted. *)
Accepted ==
  /\ cli_parse_status(line) = "ok"
  /\ bind_complaint(cli_store(line)) = None
  /\ state = bind_options(cli_store(line), line.roots)

(* There is a runtime, with the pool that was asked for. *)
Started ==
  /\ Accepted
  /\ ~TooManyThreads
  /\ pool = parallel_config(state.threads, machine)

Unstarted == {"memory", "store", "parse", "configure"}
RuntimeLabels == {"init", "run", "walk", "report", "cleanup", "destroy_runtime"}

(* What was accepted before there was a runtime still stands while it      *)
(* runs and after it: options and pool are never set again.                *)
AInv ==
  /\ line \in CommandLines /\ machine \in Machines
  /\ pc = "configure" => Accepted
  /\ pc \in RuntimeLabels \/ pool # None \/ truncated \/ parallel => Started
  /\ pc \in Unstarted => pool = None /\ ~truncated
  /\ pc \in Before => ~parallel
  /\ parallel => ~(pool.worker_count_explicit /\ pool.worker_count = 0)

(* Nothing is accepted, started or chosen at first. *)
LEMMA AcceptedInit == Init => AInv
  BY DEF Init, AInv, RuntimeLabels, Unstarted, Before

(* Steps that leave the options and the pool alone. *)
LEMMA SameStart ==
  ASSUME UNCHANGED <<line, machine, state, pool>>
  PROVE  Accepted' = Accepted /\ Started' = Started
  BY DEF Accepted, Started, TooManyThreads

(* The way through main up to the runtime. *)
LEMMA StartupAccepts ==
  ASSUME AInv, Startup
  PROVE  AInv'
  <1> USE DEF At, Goto
  <1>1. UNCHANGED <<line, machine, parallel, truncated>> /\ pc \in Unstarted
    BY DEF Startup, CreateMemory, CreateMemoryFails, CreateStore, CreateStoreFails, ParseAnswers,
           ParseFails, BindFails, Bind, ConfigureFails, CreateRuntime, CreateRuntimeFails,
           LeaveFrom, walk_vars, output_vars, Unstarted
  <1>2. ~parallel /\ ~truncated /\ pool = None
    BY <1>1 DEF AInv, Unstarted, Before
  <1>3. CASE CreateMemory \/ CreateMemoryFails \/ CreateStore \/ CreateStoreFails \/ ParseAnswers
             \/ ParseFails \/ BindFails \/ ConfigureFails \/ CreateRuntimeFails
    <2>1. UNCHANGED <<state, pool>> /\ pc' \notin RuntimeLabels \cup {"configure"}
      BY <1>3 DEF CreateMemory, CreateMemoryFails, CreateStore, CreateStoreFails, ParseAnswers,
                  ParseFails, BindFails, ConfigureFails, CreateRuntimeFails, LeaveFrom, RuntimeLabels
    <2> QED BY <1>1, <1>2, <2>1 DEF AInv
  <1>4. CASE Bind
    <2>1. pool' = pool /\ pc' = "configure" /\ Accepted'
      BY <1>4 DEF Bind, Accepted
    <2> QED BY <1>1, <1>2, <2>1 DEF AInv, RuntimeLabels
  <1>5. CASE CreateRuntime
    <2>1. state' = state /\ pc = "configure" /\ pc' = "init" /\ ~TooManyThreads
          /\ pool' = parallel_config(state.threads, machine)
      BY <1>5 DEF CreateRuntime
    <2>2. Accepted
      BY <2>1 DEF AInv
    <2>3. Started'
      BY <1>1, <2>1, <2>2 DEF Started, Accepted, TooManyThreads
    <2> QED BY <1>1, <1>2, <2>1, <2>3 DEF AInv, Unstarted
  <1> QED BY <1>3, <1>4, <1>5 DEF Startup

(* With one thread asked for the walk is not parallel. *)
LEMMA WalkIsChosen ==
  ASSUME AInv, ChooseWalk
  PROVE  parallel' => ~(pool.worker_count_explicit /\ pool.worker_count = 0)
  <1> SUFFICES ASSUME parallel', pool.worker_count_explicit, pool.worker_count = 0
               PROVE  FALSE
    OBVIOUS
  <1>1. PICK effective \in EffectiveWorkers :
          parallel' = (effective >= 2 /\ state.threads.mode # "mono")
    BY DEF ChooseWalk
  <1>2. EffectiveWorkers = {0, 0 + 1}
    BY DEF EffectiveWorkers
  <1>3. effective >= 2
    BY <1>1, Zenon
  <1> QED BY <1>1, <1>2, <1>3

(* The runtime keeps its options and its pool to the end. *)
LEMMA RunAccepts ==
  ASSUME AInv, Run \/ Shutdown
  PROVE  AInv'
  <1> USE DEF At, Goto
  <1>1. UNCHANGED <<line, machine, state, pool>>
    BY DEF Run, Shutdown, AppInit, AppInitFails, RunContextFails, ChooseWalk, SequentialEmit,
           SequentialEmitFails, ParallelGather, WalkError, WalkStrays, WalkSetupFails, WalkStops, WalkEnds,
           WalkWriteFails, Report, Cleanup, CleanupLosesOutput, DestroyRuntime, DestroyStore,
           DestroyMemory, Release
  <1>2. Accepted' = Accepted /\ Started' = Started
    BY <1>1, SameStart
  <1>3. CASE AppInit \/ \E call \in {"context", "collector", "open", "attach"} : AppInitFails(call)
    <2>1. pc = "init" /\ pc' \in {"run", "cleanup"} /\ parallel' = parallel
      BY <1>3 DEF AppInit, AppInitFails, walk_vars
    <2>2. Started /\ ~parallel
      BY <2>1 DEF AInv, RuntimeLabels, Before
    <2> QED BY <1>1, <1>2, <2>1, <2>2 DEF AInv, Unstarted
  <1>4. CASE ChooseWalk
    <2>1. pc = "run" /\ pc' = "walk" /\ UNCHANGED truncated
      BY <1>4 DEF ChooseWalk, output_vars
    <2>2. Started
      BY <2>1 DEF AInv, RuntimeLabels
    <2>3. parallel' => ~(pool'.worker_count_explicit /\ pool'.worker_count = 0)
      BY <1>1, <1>4, WalkIsChosen
    <2> QED BY <1>1, <1>2, <2>1, <2>2, <2>3 DEF AInv, Unstarted, Before
  <1>5. CASE RunContextFails \/ WalkError \/ WalkStrays \/ WalkSetupFails \/ WalkStops \/ WalkEnds \/ WalkWriteFails
             \/ Report \/ \E path \in todo :
                  SequentialEmit(path) \/ SequentialEmitFails(path) \/ ParallelGather(path)
    <2>1. pc \in {"run", "walk", "report"} /\ pc' \in {"walk", "report", "cleanup"}
          /\ UNCHANGED <<parallel, truncated>>
      BY <1>5 DEF RunContextFails, WalkError, WalkStrays, WalkSetupFails, WalkStops, WalkEnds, WalkWriteFails,
                  Report, SequentialEmit, SequentialEmitFails, ParallelGather, walk_vars, output_vars
    <2>2. Started
      BY <2>1 DEF AInv, RuntimeLabels
    <2> QED BY <1>1, <1>2, <2>1, <2>2 DEF AInv, Unstarted, Before
  <1>6. CASE Shutdown
    <2>1. /\ pc \in {"cleanup", "destroy_runtime", "destroy_store", "destroy_memory"}
          /\ pc' \in {"destroy_runtime", "destroy_store", "destroy_memory", "done"}
          /\ pc' = "destroy_runtime" => pc = "cleanup"
          /\ UNCHANGED <<parallel, truncated>>
      BY <1>6 DEF Shutdown, Cleanup, CleanupLosesOutput, DestroyRuntime, DestroyStore, DestroyMemory,
                  Release, walk_vars, output_vars
    <2>2. pc = "cleanup" => Started
      BY DEF AInv, RuntimeLabels
    <2>3. pool # None \/ truncated \/ parallel => Started
      BY DEF AInv
    <2>4. pc' \notin Unstarted \cup Before \cup {"configure"} /\ (pc' \in RuntimeLabels => pc' = "destroy_runtime")
      BY <2>1 DEF Unstarted, Before, RuntimeLabels
    <2> QED BY <1>1, <1>2, <2>1, <2>2, <2>3, <2>4 DEF AInv
  <1> QED BY <1>3, <1>4, <1>5, <1>6 DEF Run

(* AInv is an invariant. *)
LEMMA AcceptedInvariant == Spec => []AInv
  <1>1. AInv /\ [Next]_vars => AInv'
    <2> SUFFICES ASSUME AInv, [Next]_vars PROVE AInv'
      OBVIOUS
    <2>1. CASE Startup
      BY <2>1, StartupAccepts
    <2>2. CASE Run \/ Shutdown
      BY <2>2, RunAccepts
    <2>3. CASE Signal \/ UNCHANGED vars
      <3>1. UNCHANGED <<line, machine, state, pool, pc, parallel, truncated>>
        BY <2>3 DEF Signal, vars, walk_vars, output_vars
      <3>2. Accepted' = Accepted /\ Started' = Started
        BY <3>1, SameStart
      <3> QED BY <3>1, <3>2 DEF AInv
    <2> QED BY <2>1, <2>2, <2>3 DEF Next, Step, Exited
  <1> QED BY <1>1, AcceptedInit, PTL DEF Spec

(* What an accepted line says of the threads. *)
LEMMA ThreadsOfLine ==
  ASSUME AInv, Started
  PROVE  LET text == cli_store(line).threads
             t == state.threads
         IN /\ BoundOptions(state.options) /\ Legal(line) /\ line.request = "find"
            /\ t \in [mode : ThreadModes, workers : Nat]
            /\ IsNumber(text, 10) =>
                 /\ Value(text, 10) \in Nat /\ t.workers = Value(text, 10)
                 /\ t.mode = IF Value(text, 10) = 0 THEN "mono" ELSE "explicit"
            /\ ~IsNumber(text, 10) => t.mode # "explicit"
            /\ "threads" \in DOMAIN line.given => text = line.given["threads"]
            /\ machine.logical \in Nat \ {0} /\ machine.physical \in 1..machine.logical
  <1> DEFINE text == cli_store(line)["threads"]
             t == state.threads
  <1>1. IsCommandLine(line) /\ machine.logical \in Nat \ {0} /\ machine.physical \in 1..machine.logical
    BY ApplicationAssumption DEF AInv
  <1>2. cli_parse_status(line) = "ok" /\ bind_complaint(cli_store(line)) = None
        /\ state = bind_options(cli_store(line), line.roots)
    BY DEF Started, Accepted
  <1>3. line.request = "find"
    BY <1>1, <1>2, ParseStatus
  <1>4. /\ BoundOptions(state.options) /\ Legal(line)
        /\ t = parse_threads(text) /\ IsThreadCount(text)
        /\ t \in [mode : ThreadModes, workers : Nat]
    BY <1>1, <1>2, BoundValues, Zenon
  <1>5. text = IF "threads" \in DOMAIN line.given THEN line.given["threads"] ELSE <<"auto">>
    BY OptionTable, StoreHas
  <1>6. \E T : text \in Seq(T)
    <2>1. <<"auto">> \in Seq({"auto"})
      OBVIOUS
    <2>2. "threads" \in DOMAIN line.given => line.given["threads"] \in Seq(STRING)
      BY <1>1, GivenValues DEF Texts
    <2> QED BY <1>5, <2>1, <2>2
  <1> HIDE DEF text, t
  <1>7. /\ IsNumber(text, 10) => t = [mode |-> IF Value(text, 10) = 0 THEN "mono" ELSE "explicit",
                                      workers |-> Value(text, 10)]
        /\ ~IsNumber(text, 10) => t.mode # "explicit"
    BY <1>4, <1>6, ParseThreadsIsExact
  <1>8. IsNumber(text, 10) => Value(text, 10) \in Nat
    BY <1>6, NumbersAreDigits, ValueType
  <1> QED BY <1>1, <1>3, <1>4, <1>5, <1>7, <1>8 DEF text, t

(* A file named by --output is emptied only for a search that makes sense, *)
(* for every command line and machine: every refusal comes before the      *)
(* open.                                                                   *)
THEOREM TruncationIsAskedFor == Spec => []TruncatesOnlyForASearch
  <1>1. AInv => TruncatesOnlyForASearch
    <2> SUFFICES ASSUME AInv, truncated
                 PROVE  /\ line.request = "find" /\ Legal(line)
                        /\ "threads" \in DOMAIN line.given /\ IsNumber(line.given["threads"], 10) =>
                             Value(line.given["threads"], 10) <= machine.logical
      BY DEF TruncatesOnlyForASearch
    <2> DEFINE text == cli_store(line).threads
               t == state.threads
    <2>1. Started
      BY DEF AInv
    <2>2. /\ Legal(line) /\ line.request = "find"
          /\ IsNumber(text, 10) =>
               /\ Value(text, 10) \in Nat /\ t.workers = Value(text, 10)
               /\ t.mode = IF Value(text, 10) = 0 THEN "mono" ELSE "explicit"
          /\ "threads" \in DOMAIN line.given => text = line.given["threads"]
          /\ machine.logical \in Nat \ {0}
      BY <2>1, ThreadsOfLine, Zenon
    <2>3. ~(t.mode = "explicit" /\ t.workers > machine.logical)
      BY <2>1 DEF Started, TooManyThreads
    <2> HIDE DEF text, t
    <2>4. IsNumber(text, 10) => Value(text, 10) <= machine.logical
      BY <2>2, <2>3
    <2> QED BY <2>2, <2>4
  <1> QED BY <1>1, AcceptedInvariant, PTL

(* The pool, case by case. *)
LEMMA PoolOfMode ==
  ASSUME NEW t, NEW m
  PROVE  LET p == parallel_config(t, m)
         IN /\ t.mode = "mono" => p = Pool(TRUE, 0, FALSE)
            /\ t.mode = "explicit" =>
                 p = Pool(TRUE, IF t.workers > 0 THEN t.workers - 1 ELSE 0, t.workers > m.physical)
            /\ t.mode = "io" => p = Pool(TRUE, IF m.logical >= 2 THEN m.logical - 1 ELSE 0, TRUE)
            /\ t.mode = "auto" => p = Pool(FALSE, 0, FALSE)
  BY DEF parallel_config

(* The fields of a pool. *)
LEMMA PoolFields ==
  ASSUME NEW e \in BOOLEAN, NEW n \in Nat, NEW o \in BOOLEAN, pool = Pool(e, n, o)
  PROVE  pool \in Pools /\ pool.worker_count = n /\ (pool.allow_oversubscribe <=> o)
  BY DEF Pool, Pools

(* The pool of a started runtime. *)
LEMMA PoolFits ==
  ASSUME AInv, Started
  PROVE  /\ pool \in Pools
         /\ pool.worker_count + 1 <= machine.logical
         /\ ~pool.allow_oversubscribe => pool.worker_count + 1 <= machine.physical
         /\ LET text == cli_store(line).threads
            IN IsNumber(text, 10) /\ Value(text, 10) > 0 => pool.worker_count + 1 = Value(text, 10)
  <1> DEFINE text == cli_store(line).threads
             t == state.threads
             l == machine.logical
             c == machine.physical
             v == Value(text, 10)
  <1>1. /\ t \in [mode : ThreadModes, workers : Nat]
        /\ IsNumber(text, 10) =>
             v \in Nat /\ t.workers = v /\ t.mode = IF v = 0 THEN "mono" ELSE "explicit"
        /\ ~IsNumber(text, 10) => t.mode # "explicit"
        /\ l \in Nat \ {0} /\ c \in 1..l
    BY ThreadsOfLine, Zenon
  <1>2. ~(t.mode = "explicit" /\ t.workers > l) /\ pool = parallel_config(t, machine)
    BY DEF Started, TooManyThreads
  <1> HIDE DEF text, t, l, c, v
  <1>3. t.mode \in {"mono", "explicit", "io", "auto"} /\ t.workers \in Nat
    BY <1>1 DEF ThreadModes
  <1>4. CASE t.mode = "mono"
    <2>1. pool = Pool(TRUE, 0, FALSE)
      BY <1>2, <1>4, PoolOfMode, Zenon
    <2>2. pool \in Pools /\ pool.worker_count = 0
      BY <2>1 DEF Pool, Pools
    <2>3. IsNumber(text, 10) => v = 0
      BY <1>1, <1>4
    <2> QED BY <1>1, <2>2, <2>3 DEF text, l, c, v
  <1>5. CASE t.mode = "explicit"
    <2>1. IsNumber(text, 10) /\ v \in Nat /\ t.workers = v /\ v # 0
      BY <1>1, <1>5
    <2>2. v > 0 /\ v <= l
      BY <1>1, <1>2, <1>5, <2>1
    <2>3. pool = Pool(TRUE, IF v > 0 THEN v - 1 ELSE 0, v > c)
      BY <1>2, <1>5, <2>1, PoolOfMode, Zenon DEF c
    <2>4. pool = Pool(TRUE, v - 1, v > c)
      BY <2>2, <2>3
    <2>5. v - 1 \in Nat
      BY <2>1, <2>2
    <2>6. pool \in Pools /\ pool.worker_count = v - 1 /\ (pool.allow_oversubscribe <=> v > c)
      <3>1. (v > c) \in BOOLEAN
        OBVIOUS
      <3> QED BY <2>4, <2>5, <3>1, PoolFields
    <2>7. (v - 1) + 1 = v /\ (~(v > c) => v <= c)
      BY <1>1, <2>1
    <2> QED BY <2>2, <2>6, <2>7 DEF text, l, c, v
  <1>6. CASE t.mode = "io"
    <2>1. pool = Pool(TRUE, IF l >= 2 THEN l - 1 ELSE 0, TRUE)
      BY <1>2, <1>6, PoolOfMode, Zenon DEF l
    <2> DEFINE n == IF l >= 2 THEN l - 1 ELSE 0
    <2>2. n \in Nat /\ n + 1 = l
      BY <1>1
    <2>3. pool \in Pools /\ pool.worker_count = n /\ pool.allow_oversubscribe
      BY <2>1, <2>2 DEF Pool, Pools
    <2>4. ~IsNumber(text, 10)
      BY <1>1, <1>6
    <2> HIDE DEF n
    <2> QED BY <1>1, <2>2, <2>3, <2>4 DEF text, l
  <1>7. CASE t.mode = "auto"
    <2>1. pool = Pool(FALSE, 0, FALSE)
      BY <1>2, <1>7, PoolOfMode, Zenon
    <2>2. pool \in Pools /\ pool.worker_count = 0
      BY <2>1 DEF Pool, Pools
    <2>3. ~IsNumber(text, 10)
      BY <1>1, <1>7
    <2> QED BY <1>1, <2>2, <2>3 DEF text, l, c
  <1> QED BY <1>3, <1>4, <1>5, <1>6, <1>7

(* The threads are as many as the command line asks for and fit the        *)
(* machine, and one thread means the sequential walk, for every line and   *)
(* machine.                                                                *)
THEOREM PoolFitsMachine == Spec => []ThreadsFit
  <1>1. AInv => ThreadsFit
    <2> SUFFICES ASSUME AInv, pool # None
                 PROVE  ThreadsFit
      BY DEF ThreadsFit
    <2>1. Started
      BY DEF AInv
    <2>2. /\ pool \in Pools
          /\ pool.worker_count + 1 <= machine.logical
          /\ ~pool.allow_oversubscribe => pool.worker_count + 1 <= machine.physical
          /\ IsNumber(cli_store(line).threads, 10) /\ Value(cli_store(line).threads, 10) > 0 =>
               pool.worker_count + 1 = Value(cli_store(line).threads, 10)
      BY <2>1, PoolFits, Zenon
    <2>3. pool.worker_count \in Nat
      BY <2>2 DEF Pools
    <2>4. pool.worker_count_explicit /\ pool.worker_count + 1 = 1 => ~parallel
      BY <2>3 DEF AInv
    <2> QED BY <2>2, <2>4 DEF ThreadsFit
  <1> QED BY <1>1, AcceptedInvariant, PTL

-----------------------------------------------------------------------------
(* Types. *)

(* What is left of TypeOK: flags, counters, and the size of the buffer. *)
Flags ==
  /\ parallel \in BOOLEAN /\ walk_ok \in BOOLEAN /\ truncated \in BOOLEAN
  /\ signalled \in BOOLEAN /\ strayed \in BOOLEAN /\ cut \in BOOLEAN /\ lost \in BOOLEAN
  /\ errors \in Nat
  /\ exit_code \in {0, 1, 2, 130}

BufferFits == Size(buffer) <= WriterCapacity

(* Main and its callbacks set flags and counters to values of their types. *)
LEMMA StepKeepsFlags ==
  ASSUME Flags, [Next]_vars
  PROVE  Flags'
  <1> USE DEF At, Goto
  <1>1. CASE Startup
    <2>1. UNCHANGED <<walk_vars, truncated, signalled, lost>> /\ exit_code' \in {exit_code, 0, 1, 2}
      BY <1>1 DEF Startup, CreateMemory, CreateMemoryFails, CreateStore, CreateStoreFails,
           ParseAnswers, ParseFails, BindFails, Bind, ConfigureFails, CreateRuntime,
           CreateRuntimeFails, LeaveFrom, output_vars
    <2> QED BY <2>1 DEF Flags, walk_vars
  <1>2. CASE AppInit \/ \E call \in {"context", "collector", "open", "attach"} : AppInitFails(call)
    <2>1. UNCHANGED <<walk_vars, signalled, lost>> /\ exit_code' \in {exit_code, 1}
      BY <1>2 DEF AppInit, AppInitFails
    <2>2. truncated' \in BOOLEAN
      <3>1. CASE AppInit
        BY <3>1, Zenon DEF AppInit, ToFile
      <3>2. CASE \E call \in {"context", "collector", "open", "attach"} : AppInitFails(call)
        BY <3>2, Zenon DEF AppInitFails, ToFile
      <3> QED BY <1>2, <3>1, <3>2
    <2> QED BY <2>1, <2>2 DEF Flags, walk_vars
  <1>3. CASE ChooseWalk
    <2>1. UNCHANGED <<walk_ok, errors, strayed, cut, truncated, lost, signalled, exit_code>>
      BY <1>3 DEF ChooseWalk, output_vars
    <2>2. parallel' \in BOOLEAN
      <3>1. PICK effective \in EffectiveWorkers :
              parallel' = (effective >= 2 /\ state.threads.mode # "mono")
        BY <1>3, Zenon DEF ChooseWalk
      <3> QED BY <3>1, Zenon
    <2> QED BY <2>1, <2>2 DEF Flags
  <1>4. CASE RunContextFails \/ WalkError \/ WalkStrays \/ WalkSetupFails \/ WalkStops \/ WalkEnds \/ WalkWriteFails
    <2>1. /\ UNCHANGED <<parallel, truncated, signalled>>
          /\ errors' \in {errors, 1} /\ exit_code' \in {exit_code, 1}
      BY <1>4 DEF RunContextFails, WalkError, WalkStrays, WalkSetupFails, WalkStops, WalkEnds, WalkWriteFails,
                  walk_vars, output_vars
    <2>2. /\ cut' \in {cut, TRUE} /\ lost' \in {lost, TRUE} /\ walk_ok' \in {walk_ok, FALSE}
          /\ strayed' \in {strayed, TRUE}
      BY <1>4 DEF RunContextFails, WalkError, WalkStrays, WalkSetupFails, WalkStops, WalkEnds, WalkWriteFails,
                  walk_vars, output_vars
    <2>3. errors' \in Nat /\ exit_code' \in {0, 1, 2, 130}
      BY <2>1 DEF Flags
    <2>4. cut' \in BOOLEAN /\ lost' \in BOOLEAN /\ walk_ok' \in BOOLEAN /\ strayed' \in BOOLEAN
      <3>1. cut' \in BOOLEAN
        BY <2>2 DEF Flags
      <3>2. lost' \in BOOLEAN
        BY <2>2 DEF Flags
      <3>3. walk_ok' \in BOOLEAN
        BY <2>2 DEF Flags
      <3>4. strayed' \in BOOLEAN
        BY <2>2 DEF Flags
      <3> QED BY <3>1, <3>2, <3>3, <3>4
    <2> QED BY <2>1, <2>3, <2>4 DEF Flags
  <1>5. CASE \E path \in todo :
               SequentialEmit(path) \/ SequentialEmitFails(path) \/ ParallelGather(path)
    <2>1. /\ UNCHANGED <<parallel, truncated, signalled, strayed, cut, errors, exit_code>>
          /\ lost' \in {lost, TRUE} /\ walk_ok' \in {walk_ok, FALSE}
      BY <1>5 DEF SequentialEmit, SequentialEmitFails, ParallelGather, output_vars
    <2>2. lost' \in BOOLEAN /\ walk_ok' \in BOOLEAN
      BY <2>1 DEF Flags
    <2> QED BY <2>1, <2>2 DEF Flags
  <1>6. CASE Report
    <2>1. UNCHANGED <<walk_vars, truncated, signalled, lost>>
      BY <1>6 DEF Report, output_vars
    <2>2. exit_code' \in {0, 1, 130}
      BY <1>6 DEF Report, exit_code_of
    <2> QED BY <2>1, <2>2 DEF Flags, walk_vars
  <1>7. CASE Shutdown
    <2>1. UNCHANGED <<walk_vars, truncated, signalled, exit_code>> /\ lost' \in {lost, TRUE}
      BY <1>7 DEF Shutdown, Cleanup, CleanupLosesOutput, DestroyRuntime, DestroyStore,
                  DestroyMemory, Release, output_vars
    <2>2. lost' \in BOOLEAN
      BY <2>1 DEF Flags
    <2> QED BY <2>1, <2>2 DEF Flags, walk_vars
  <1>8. CASE Signal \/ UNCHANGED vars
    <2>1. UNCHANGED <<walk_vars, truncated, lost, exit_code>> /\ signalled' \in {signalled, TRUE}
      BY <1>8 DEF Signal, vars, output_vars
    <2>2. signalled' \in BOOLEAN
      BY <2>1 DEF Flags
    <2> QED BY <2>1, <2>2 DEF Flags, walk_vars
  <1> QED BY <1>1, <1>2, <1>3, <1>4, <1>5, <1>6, <1>7, <1>8 DEF Next, Step, Exited, Run

(* No step overfills the buffer of the writer. *)
LEMMA StepKeepsBuffer ==
  ASSUME OutputTypes, BufferFits, [Next]_vars
  PROVE  BufferFits'
  <1> USE DEF At, Goto
  <1>1. ASSUME buffer' \in {buffer, <<>>} PROVE BufferFits'
    BY <1>1, SizeOfNothing, ApplicationAssumption DEF BufferFits
  <1>2. CASE Startup
    <2>1. buffer' = buffer
      BY <1>2 DEF Startup, CreateMemory, CreateMemoryFails, CreateStore, CreateStoreFails,
           ParseAnswers, ParseFails, BindFails, Bind, ConfigureFails, CreateRuntime,
           CreateRuntimeFails, LeaveFrom, output_vars
    <2> QED BY <1>1, <2>1
  <1>3. CASE \E path \in todo : SequentialEmit(path)
    <2>1. PICK path \in todo : buffer' = output_emit(Writer, path).buffer
      BY <1>3 DEF SequentialEmit
    <2>2. path \in Nat \X BoundedPaths /\ Writer \in WriterState
      BY DEF OutputTypes, Writer, WriterState
    <2> QED BY <2>1, <2>2, EmitFits DEF BufferFits
  <1>4. CASE \E path \in todo : SequentialEmitFails(path)
    <2>1. PICK n \in 0..Len(buffer) : buffer' = SubSeq(buffer, n + 1, Len(buffer))
      BY <1>4 DEF SequentialEmitFails
    <2>2. buffer \in Seq(Token)
      BY DEF OutputTypes
    <2>3. Size(SubSeq(buffer, n + 1, Len(buffer))) <= Size(buffer)
      BY <2>2, SizeOfRest
    <2>4. SubSeq(buffer, n + 1, Len(buffer)) \in Seq(Token)
      BY <2>2, SizeOfRest
    <2>5. Size(buffer) \in Nat /\ Size(SubSeq(buffer, n + 1, Len(buffer))) \in Nat
      BY <2>2, <2>4, SizeType
    <2> QED BY <2>1, <2>3, <2>5, ApplicationAssumption DEF BufferFits
  <1>5. CASE Run /\ ~\E path \in todo : SequentialEmit(path) \/ SequentialEmitFails(path)
    <2>1. buffer' \in {buffer, <<>>}
      BY <1>5 DEF Run, AppInit, AppInitFails, RunContextFails, ChooseWalk, ParallelGather, WalkError,
                  WalkStrays, WalkSetupFails, WalkStops, WalkEnds, WalkWriteFails, Report, output_vars
    <2> QED BY <1>1, <2>1
  <1>6. CASE Shutdown \/ Signal \/ UNCHANGED vars
    <2>1. buffer' \in {buffer, <<>>}
      BY <1>6 DEF Shutdown, Cleanup, CleanupLosesOutput, DestroyRuntime, DestroyStore,
                  DestroyMemory, Release, Signal, output_close, vars, output_vars
    <2> QED BY <1>1, <2>1
  <1> QED BY <1>2, <1>3, <1>4, <1>5, <1>6 DEF Next, Step, Exited

(* The types of all variables, the bound of the writer's buffer, and the   *)
(* options of a running application, for every command line, machine and   *)
(* buffer.  The options come from AInv, the resources from IInv, the       *)
(* tokens from DInv.                                                       *)
THEOREM ApplicationTypes == Spec => []TypeOK
  <1>1. Init => Flags /\ BufferFits
    <2>1. Init => Flags
      <3> SUFFICES ASSUME Init PROVE Flags
        OBVIOUS
      <3>1. errors \in Nat /\ exit_code \in {0, 1, 2, 130}
        BY DEF Init
      <3>2. /\ parallel \in BOOLEAN /\ walk_ok \in BOOLEAN /\ truncated \in BOOLEAN
            /\ signalled \in BOOLEAN /\ strayed \in BOOLEAN /\ cut \in BOOLEAN /\ lost \in BOOLEAN
        BY Zenon DEF Init
      <3> QED BY <3>1, <3>2 DEF Flags
    <2>2. Init => BufferFits
      BY SizeOfNothing, ApplicationAssumption DEF Init, BufferFits
    <2> QED BY <2>1, <2>2
  <1>2. DInv /\ Flags /\ BufferFits /\ [Next]_vars => (Flags /\ BufferFits)'
    BY StepKeepsFlags, StepKeepsBuffer DEF DInv
  <1>3. IInv /\ AInv /\ DInv /\ Flags /\ BufferFits => TypeOK
    <2> SUFFICES ASSUME IInv, AInv, DInv, Flags, BufferFits PROVE TypeOK
      OBVIOUS
    <2>1. pc \in Labels
      BY DEF IInv, Before, After, Labels
    <2>2. /\ held \subseteq {"cli_memory", "cli_store", "runtime", "errors", "output"}
          /\ "runtime" \in held => pc \in RuntimeLabels
      BY <2>1 DEF IInv, HeldMatchesPc, Base, WithRuntime, Labels, RuntimeLabels
    <2>3. "runtime" \in held => BoundOptions(state.options) /\ pool \in Pools
      <3> SUFFICES ASSUME "runtime" \in held PROVE BoundOptions(state.options) /\ pool \in Pools
        OBVIOUS
      <3>1. Started
        BY <2>2 DEF AInv
      <3> QED BY <3>1, ThreadsOfLine, PoolFits, Zenon
    <2>4. /\ todo \subseteq Nat \X BoundedPaths /\ handed \subseteq Nat \X BoundedPaths
          /\ {gathered, buffer, stream} \subseteq TokenStreams
      BY DEF DInv, OutputTypes, TokenStreams, Token
    <2>5. line \in CommandLines /\ machine \in Machines
      BY DEF AInv
    <2>6. {truncated, signalled, strayed, cut, lost} \subseteq BOOLEAN
      BY DEF Flags
    <2> QED BY <2>1, <2>2, <2>3, <2>4, <2>5, <2>6 DEF TypeOK, Flags, BufferFits
  <1> QED BY <1>1, <1>2, <1>3, Invariant, AcceptedInvariant, DeliveryInvariant, PTL DEF Spec
=============================================================================
