---------------------- MODULE ManifestLifecycleProofs -----------------------
(***************************************************************************)
(* Theorems of ManifestLifecycle, for any number of goroutines and any     *)
(* setting of its two flags.                                               *)
(***************************************************************************)
EXTENDS ManifestLifecycle, TLAPS

(* The part of the invariant that is about goroutines ... *)
Holding == {"refresh", "touch", "merge", "derive", "ensure", "mark"}
Roles == {"none", "manifest", "segment", "prefetch"}
Places == {"rest", "peek", "refresh", "get", "touch", "create", "merge",
           "derive", "ensure", "publish", "mark", "serve", "fetch"}

ThreadsOK ==
  /\ role \in [Threads -> Roles]
  /\ pc \in [Threads -> Places]
  /\ ptr \in [Threads -> Objects \cup {Nil, Gone}]
  /\ \A t \in Threads : ptr[t] # Nil <=> pc[t] \in Holding
  /\ \A t \in Threads : role[t] = "none" <=> pc[t] = "rest"

(* ... and the types of the others. *)
RestOK ==
  /\ history \in Objects \cup {Nil}
  /\ heap \in [Objects -> Object]
  /\ published \in BOOLEAN /\ queued \in BOOLEAN /\ kept \in BOOLEAN /\ asked \in BOOLEAN
  /\ jpc \in {"wait", "check", "require", "read", "reset", "remove", "playlist", "content"}
  /\ target \in Objects \cup {Nil}
  /\ target # Nil <=> jpc # "wait"
  /\ wasNamed \in BOOLEAN
  /\ suspect \in BOOLEAN

(* The type invariant is not inductive: that a goroutine which starts has  *)
(* no history follows from its role.                                       *)
LInv == ThreadsOK /\ RestOK /\ NoZombie

(* The invariant implies the type invariant. *)
LEMMA InvTypeOK == LInv => TypeOK
  BY DEF LInv, TypeOK, ThreadsOK, RestOK, Holding, Roles, Places

-----------------------------------------------------------------------------
(* A goroutine starts, ... *)
LEMMA StartOK ==
  ASSUME ThreadsOK, NEW t \in Threads, NEW r \in Roles \ {"none"},
         NEW place \in Places \ (Holding \cup {"rest"}), Start(t, r, place)
  PROVE  ThreadsOK'
  BY DEF ThreadsOK, Start, Holding

(* ... goes on ... *)
LEMMA GotoOK ==
  ASSUME ThreadsOK, NEW t \in Threads, pc[t] # "rest", NEW place \in Places \ {"rest"},
         NEW o \in Objects \cup {Nil, Gone}, o # Nil <=> place \in Holding, Goto(t, place, o)
  PROVE  ThreadsOK'
  BY DEF ThreadsOK, Goto

(* ... and ends; ... *)
LEMMA EndOK ==
  ASSUME ThreadsOK, NEW t \in Threads, End(t)
  PROVE  ThreadsOK'
  BY DEF ThreadsOK, End, Holding, Roles, Places

(* ... the janitor may take its history away.                              *)
LEMMA LetGoOK ==
  ASSUME ThreadsOK, LetGo
  PROVE  ThreadsOK'
  BY DEF ThreadsOK, LetGo, Objects, Nil, Gone

-----------------------------------------------------------------------------
(* What goroutines and time do to objects: none is made a zombie.          *)
HeapGrows ==
  /\ heap' \in [Objects -> Object]
  /\ \A x \in Objects : heap'[x].access = "zero" => heap[x].access = "zero"

(* Such a step of another part of the system keeps the invariant.          *)
LEMMA GrowInv ==
  ASSUME LInv, ThreadsOK', HeapGrows, UNCHANGED <<history, jpc, target, wasNamed>>,
         published' \in BOOLEAN, queued' \in BOOLEAN, kept' \in BOOLEAN, asked' \in BOOLEAN,
         suspect' \in BOOLEAN
  PROVE  LInv'
<1>1. RestOK'
  BY DEF LInv, RestOK, HeapGrows
<1>2. NoZombie'
  BY DEF LInv, RestOK, HeapGrows, NoZombie
<1> QED
  BY <1>1, <1>2 DEF LInv

(* Leaving the objects alone is such a step ... *)
LEMMA SameHeapGrows ==
  ASSUME LInv, UNCHANGED heap
  PROVE  HeapGrows
  BY DEF LInv, RestOK, HeapGrows

(* ... and so is each of the updates. *)
LEMMA TouchedGrows ==
  ASSUME LInv, NEW o \in Objects \cup {Gone}, Update(o, Touched)
  PROVE  HeapGrows
  BY DEF LInv, RestOK, HeapGrows, Update, Touched, Object

(* Naming ... *)
LEMMA NamedGrows ==
  ASSUME LInv, NEW o \in Objects \cup {Gone}, Update(o, Named)
  PROVE  HeapGrows
  BY DEF LInv, RestOK, HeapGrows, Update, Named, Object

(* ... and marking. *)
LEMMA RequestedGrows ==
  ASSUME LInv, NEW o \in Objects \cup {Gone}, Update(o, Requested)
  PROVE  HeapGrows
  BY DEF LInv, RestOK, HeapGrows, Update, Requested, Object

(* A goroutine in a place where it needs its history has one.              *)
LEMMA Held ==
  ASSUME LInv, NEW t \in Threads, pc[t] \in Holding
  PROVE  ptr[t] \in Objects \cup {Gone} /\ ptr[t] # Nil
  BY DEF LInv, ThreadsOK

-----------------------------------------------------------------------------
(* The goroutines' steps that leave the objects alone. *)
LEMMA QuietStep ==
  ASSUME LInv, NEW t \in Threads,
         \/ Poll(t) \/ Request(t) \/ Launch(t) \/ Get(t) \/ ParseError(t) \/ Derive(t)
         \/ Publish(t) \/ Peek(t) \/ (\E saves \in BOOLEAN : Serve(t, saves))
         \/ FetchFails(t) \/ AddClip(t)
  PROVE  LInv'
<1>1. UNCHANGED <<heap, history, jpc, target, wasNamed, suspect>>
  BY DEF Poll, Request, Launch, Get, ParseError, Derive, Publish, Peek, Serve, FetchFails, AddClip,
         janitorVars
<1>2. published' \in BOOLEAN /\ queued' \in BOOLEAN /\ kept' \in BOOLEAN /\ asked' \in BOOLEAN
  <2>1. /\ published \in BOOLEAN /\ queued \in BOOLEAN /\ kept \in BOOLEAN /\ asked \in BOOLEAN
        /\ BackgroundFetch \in BOOLEAN
    BY LifecycleAssumption DEF LInv, RestOK
  <2>2. CASE UNCHANGED contentVars
    BY <2>1, <2>2 DEF contentVars
  <2>3. CASE Publish(t)
    BY <2>1, <2>3 DEF Publish
  <2>4. CASE \E saves \in BOOLEAN : Serve(t, saves)
    BY <2>1, <2>4 DEF Serve
  <2>5. CASE AddClip(t)
    BY <2>1, <2>5 DEF AddClip
  <2>6. CASE Request(t)
    BY <2>1, <2>6 DEF Request
  <2> QED
    BY <2>2, <2>3, <2>4, <2>5, <2>6 DEF Poll, Launch, Get, ParseError, Derive, Peek, FetchFails
<1>3. suspect' \in BOOLEAN
  BY <1>1 DEF LInv, RestOK
<1>4. ThreadsOK'
  <2>1. CASE Poll(t) \/ Request(t) \/ Launch(t)
    BY <2>1, StartOK DEF LInv, Poll, Request, Launch, Roles, Places, Holding
  <2>2. CASE ParseError(t) \/ Publish(t) \/ FetchFails(t) \/ \E saves \in BOOLEAN : Serve(t, saves)
    BY <2>2, EndOK DEF LInv, ParseError, Publish, FetchFails, Serve
  <2>3. CASE Get(t)
    BY <2>3, GotoOK DEF LInv, RestOK, Get, Places, Holding
  <2>4. CASE Peek(t)
    BY <2>4, GotoOK DEF LInv, RestOK, Peek, Places, Holding
  <2>5. CASE AddClip(t)
    BY <2>5, GotoOK DEF LInv, AddClip, Places, Holding
  <2>6. CASE Derive(t)
    BY <2>6, GotoOK, Held DEF LInv, Derive, Places, Holding
  <2> QED
    BY <2>1, <2>2, <2>3, <2>4, <2>5, <2>6
<1> QED
  BY <1>1, <1>2, <1>3, <1>4, SameHeapGrows, GrowInv

(* The steps that update the history a goroutine holds. *)
LEMMA UpdateStep ==
  ASSUME LInv, NEW t \in Threads,
         Touch(t) \/ Merge(t) \/ Ensure(t) \/ Refresh(t) \/ Mark(t)
  PROVE  LInv'
<1>1. UNCHANGED <<history, published, queued, kept, asked, jpc, target, wasNamed>>
  BY DEF Touch, Merge, Ensure, Refresh, Mark, contentVars, janitorVars
<1>2. suspect' \in BOOLEAN
  BY DEF Touch, Merge, Ensure, Refresh, Mark, Accessed, LInv, RestOK
<1>3. pc[t] \in Holding
  BY DEF Touch, Merge, Ensure, Refresh, Mark, Holding
<1>4. ptr[t] \in Objects \cup {Gone} /\ ptr[t] # Nil
  BY <1>3, Held
<1>5. HeapGrows
  BY <1>4, TouchedGrows, NamedGrows, RequestedGrows DEF Touch, Merge, Ensure, Refresh, Mark
<1>6. ThreadsOK'
  <2>1. CASE Touch(t)
    BY <1>4, <2>1, GotoOK DEF LInv, Touch, AfterGet, Places, Holding
  <2>2. CASE Merge(t)
    BY <1>4, <2>2, GotoOK DEF LInv, Merge, Places, Holding
  <2>3. CASE Ensure(t)
    BY <2>3, GotoOK DEF LInv, Ensure, Places, Holding
  <2>4. CASE Refresh(t)
    BY <2>4, GotoOK DEF LInv, Refresh, Places, Holding
  <2>5. CASE Mark(t)
    BY <2>5, GotoOK, EndOK DEF LInv, Mark, Places, Holding
  <2> QED
    BY <2>1, <2>2, <2>3, <2>4, <2>5
<1> QED
  BY <1>1, <1>2, <1>5, <1>6, GrowInv DEF LInv, RestOK

(* A new object is put into the map; it is not the one the janitor is      *)
(* about.                                                                  *)
LEMMA CreateStep ==
  ASSUME LInv, NEW t \in Threads, Create(t)
  PROVE  LInv'
<1>1. PICK new \in Objects :
        /\ new # target /\ new # Nil /\ new # Gone
        /\ history' = new
        /\ heap' = [heap EXCEPT ![new] = NewObject]
        /\ ptr' = [x \in Threads |->
                    IF x = t THEN new ELSE IF ptr[x] = new THEN Gone ELSE ptr[x]]
  <2>1. ASSUME NEW new, new = IF target = 1 THEN 2 ELSE 1
        PROVE  new \in Objects /\ new # target /\ new # Nil /\ new # Gone
    BY <2>1 DEF LInv, RestOK, Objects, Nil, Gone
  <2> QED
    BY <2>1 DEF Create
<1>2. /\ pc[t] = "create" /\ pc' = [pc EXCEPT ![t] = AfterGet(t)]
      /\ UNCHANGED <<role, published, queued, kept, asked, jpc, target, wasNamed, suspect>>
  BY DEF Create, contentVars, janitorVars
<1>3. ThreadsOK'
  BY <1>1, <1>2 DEF LInv, ThreadsOK, AfterGet, Places, Holding, Nil, Gone
<1>4. RestOK'
  BY <1>1, <1>2 DEF LInv, RestOK, NewObject, Object
<1>5. NoZombie'
  BY <1>1, <1>2 DEF LInv, RestOK, NoZombie, NewObject
<1> QED
  BY <1>3, <1>4, <1>5 DEF LInv

-----------------------------------------------------------------------------
(* What the janitor lets go of is not the history in the map.              *)
LEMMA LetGoEffect ==
  ASSUME LInv, LetGo, history' \in {history, Nil}, target' \in {target, Nil}
  PROVE  /\ ThreadsOK'
         /\ heap' \in [Objects -> Object]
         /\ history' # Nil => heap'[history'] = heap[history]
<1>1. heap' = [o \in Objects |-> IF o \in {history', target'} \ {Nil} THEN heap[o] ELSE Blank]
  BY DEF LetGo, InUse
<1>2. Blank \in Object
  BY DEF Blank, Object
<1>3. heap' \in [Objects -> Object]
  BY <1>1, <1>2 DEF LInv, RestOK
<1>4. history \in Objects \cup {Nil} /\ target \in Objects \cup {Nil}
  BY DEF LInv, RestOK
<1> QED
  BY <1>1, <1>3, <1>4, LetGoOK DEF LInv

(* The janitor is done with a history ... *)
LEMMA RestStep ==
  ASSUME LInv, Rest, history' \in {history, Nil}, jpc = "remove" => history' = Nil,
         published' \in BOOLEAN, queued' \in BOOLEAN, kept' \in BOOLEAN, asked' \in BOOLEAN
  PROVE  LInv'
<1>1. jpc' = "wait" /\ target' = Nil /\ wasNamed' = FALSE /\ suspect' = FALSE /\ LetGo
  BY DEF Rest
<1>2. /\ ThreadsOK' /\ heap' \in [Objects -> Object]
      /\ history' # Nil => heap'[history'] = heap[history]
  BY <1>1, LetGoEffect
<1>3. RestOK'
  BY <1>1, <1>2 DEF LInv, RestOK
<1>4. NoZombie'
  BY <1>1, <1>2 DEF LInv, NoZombie
<1> QED
  BY <1>2, <1>3, <1>4 DEF LInv

(* ... or goes on with it. *)
LEMMA ContinueStep ==
  ASSUME LInv, NEW place \in {"require", "read", "playlist", "content"}, Continue(place),
         jpc # "wait", history' \in {history, Nil}, jpc = "remove" => history' = Nil,
         published' \in BOOLEAN, queued' \in BOOLEAN, kept' \in BOOLEAN, asked' \in BOOLEAN
  PROVE  LInv'
<1>1. jpc' = place /\ target' = target /\ wasNamed' = wasNamed /\ suspect' = suspect /\ LetGo
  BY DEF Continue
<1>2. /\ ThreadsOK' /\ heap' \in [Objects -> Object]
      /\ history' # Nil => heap'[history'] = heap[history]
  BY <1>1, LetGoEffect
<1>3. RestOK'
  BY <1>1, <1>2 DEF LInv, RestOK
<1>4. NoZombie'
  BY <1>1, <1>2 DEF LInv, NoZombie
<1> QED
  BY <1>2, <1>3, <1>4 DEF LInv

(* The steps of a sweep. *)
LEMMA JanitorStep ==
  ASSUME LInv, Janitor
  PROVE  LInv'
<1>0. published \in BOOLEAN /\ queued \in BOOLEAN /\ kept \in BOOLEAN /\ asked \in BOOLEAN
  BY DEF LInv, RestOK
<1>1. CASE Sweep
  <2>1. /\ jpc = "wait" /\ history # Nil /\ target' = history /\ jpc' = "check"
        /\ suspect' \in BOOLEAN
        /\ UNCHANGED <<history, heap, published, queued, kept, asked, role, pc, ptr, wasNamed>>
    BY <1>1 DEF Sweep, contentVars, threadVars
  <2> QED
    BY <2>1 DEF LInv, ThreadsOK, RestOK, NoZombie
<1>2. CASE Check
  <2>1. jpc = "check" /\ UNCHANGED <<history, published, queued, kept, asked>>
    BY <1>2 DEF Check, contentVars
  <2>2. Rest \/ Continue("read") \/ Continue("require")
    BY <1>2, LifecycleAssumption DEF Check
  <2> QED
    BY <1>0, <2>1, <2>2, RestStep, ContinueStep
<1>3. CASE Require
  <2>1. jpc = "require" /\ UNCHANGED <<history, published, queued, kept, asked>>
    BY <1>3 DEF Require, contentVars
  <2>2. Rest \/ Continue("read")
    BY <1>3 DEF Require
  <2> QED
    BY <1>0, <2>1, <2>2, RestStep, ContinueStep
<1>4. CASE ReadID
  <2>1. /\ jpc = "read" /\ jpc' = "reset" /\ wasNamed' = heap[target].named
        /\ UNCHANGED <<history, heap, published, queued, kept, asked, role, pc, ptr, target, suspect>>
    BY <1>4 DEF ReadID, contentVars, threadVars
  <2>2. heap[target].named \in BOOLEAN
    BY <2>1 DEF LInv, RestOK, Object
  <2> QED
    BY <2>1, <2>2 DEF LInv, ThreadsOK, RestOK, NoZombie
<1>5. CASE Reset
  <2>1. /\ jpc = "reset" /\ jpc' = "remove" /\ suspect' = FALSE
        /\ heap' = [heap EXCEPT ![target] = Blank]
        /\ UNCHANGED <<history, published, queued, kept, asked, role, pc, ptr, target, wasNamed>>
    BY <1>5 DEF Reset, contentVars, threadVars
  <2>2. Blank \in Object
    BY DEF Blank, Object
  <2> QED
    BY <2>1, <2>2 DEF LInv, ThreadsOK, RestOK, NoZombie
<1>6. CASE Remove
  <2>1. jpc = "remove" /\ history' = Nil /\ UNCHANGED <<published, queued, kept, asked>>
    BY <1>6 DEF Remove, contentVars
  <2>2. Rest \/ Continue("playlist")
    BY <1>6 DEF Remove
  <2> QED
    BY <1>0, <2>1, <2>2, RestStep, ContinueStep
<1>7. CASE RemovePlaylist
  <2>1. /\ jpc = "playlist" /\ published' = FALSE /\ UNCHANGED <<history, queued, kept, asked>>
        /\ Continue("content")
    BY <1>7 DEF RemovePlaylist
  <2> QED
    BY <1>0, <2>1, ContinueStep
<1>8. CASE RemoveContent
  <2>1. jpc = "content" /\ kept' = FALSE /\ UNCHANGED <<history, published, queued, asked>> /\ Rest
    BY <1>8 DEF RemoveContent
  <2> QED
    BY <1>0, <2>1, RestStep
<1> QED
  BY <1>1, <1>2, <1>3, <1>4, <1>5, <1>6, <1>7, <1>8 DEF Janitor

-----------------------------------------------------------------------------
(* The queue, the clock and the prefetcher's own janitor. *)
LEMMA OtherStep ==
  ASSUME LInv, QueueDone \/ ExpirePlaylist \/ \E o \in Objects : GrowIdle(o)
  PROVE  LInv'
<1>1. ThreadsOK' /\ UNCHANGED <<history, jpc, target, wasNamed, suspect>>
  BY DEF LInv, ThreadsOK, QueueDone, ExpirePlaylist, GrowIdle, threadVars, janitorVars
<1>2. /\ published' \in BOOLEAN /\ queued' \in BOOLEAN /\ kept' \in BOOLEAN /\ asked' \in BOOLEAN
      /\ suspect' \in BOOLEAN
  BY DEF LInv, RestOK, QueueDone, ExpirePlaylist, GrowIdle, contentVars, janitorVars
<1>3. HeapGrows
  <2>1. CASE UNCHANGED heap
    BY <2>1, SameHeapGrows
  <2>2. ASSUME NEW o \in Objects, GrowIdle(o)
        PROVE  HeapGrows
    BY <2>2 DEF LInv, RestOK, GrowIdle, HeapGrows, Object
  <2> QED
    BY <2>1, <2>2 DEF QueueDone, ExpirePlaylist
<1> QED
  BY <1>1, <1>2, <1>3, GrowInv

(* The invariant holds at the start and after every step. *)
LEMMA LifecycleInvariance == Spec => []LInv
<1>1. Init => LInv
  <2> SUFFICES ASSUME Init PROVE LInv
    OBVIOUS
  <2>1. ThreadsOK
    BY DEF Init, ThreadsOK, Holding, Roles, Places
  <2>2. RestOK
    BY DEF Init, RestOK, Blank, Object
  <2> QED
    BY <2>1, <2>2 DEF Init, LInv, NoZombie
<1>2. LInv /\ [Next]_vars => LInv'
  <2> SUFFICES ASSUME LInv, [Next]_vars PROVE LInv'
    OBVIOUS
  <2>1. CASE UNCHANGED vars
    BY <2>1 DEF vars, contentVars, threadVars, janitorVars,
                LInv, ThreadsOK, RestOK, NoZombie
  <2>2. CASE Next
    BY <2>2, QuietStep, UpdateStep, CreateStep, JanitorStep, OtherStep DEF Next, Step
  <2> QED
    BY <2>1, <2>2
<1> QED
  BY <1>1, <1>2, PTL DEF Spec

-----------------------------------------------------------------------------
(* A goroutine that is about to use a history has one, in every state.     *)
THEOREM LifecycleTypeCorrect == Spec => []TypeOK
  BY LifecycleInvariance, InvTypeOK, PTL

(* No history is left in the map with the zero time, whatever goroutines   *)
(* do with it between the janitor's steps.                                 *)
THEOREM NoZombieStays == Spec => []NoZombie
<1>1. LInv => NoZombie
  BY DEF LInv
<1> QED
  BY <1>1, LifecycleInvariance, PTL

-----------------------------------------------------------------------------
(* As long as no player has asked for a segment, and playlists are not     *)
(* warmed, nobody asks for one: no prefetching is going on, every          *)
(* goroutine serves a manifest and no history is marked.                   *)
SegmentPlaces == {"peek", "refresh", "mark", "serve", "fetch"}

NobodyAsks ==
  /\ ~queued
  /\ \A t \in Threads : role[t] \in {"none", "manifest"} /\ pc[t] \notin SegmentPlaces
  /\ \A o \in Objects : ~heap[o].requested
  /\ RequireSegments => jpc \notin {"read", "reset"}

AskedFirst == ~asked => NobodyAsks

(* The goroutines' steps: the first one that would end this is a player's  *)
(* segment request.                                                        *)
LEMMA AskedStep ==
  ASSUME LInv, ~BackgroundFetch, NobodyAsks, NEW t \in Threads,
         Poll(t) \/ Request(t) \/ Launch(t) \/ Step(t)
  PROVE  AskedFirst'
<1>1. CASE Request(t)
  BY <1>1 DEF Request, AskedFirst
<1>2. ~Launch(t)
  BY DEF NobodyAsks, Launch
<1>3. /\ ~Peek(t) /\ ~Refresh(t) /\ ~Mark(t) /\ ~FetchFails(t) /\ ~AddClip(t)
      /\ \A saves \in BOOLEAN : ~Serve(t, saves)
  BY DEF NobodyAsks, SegmentPlaces, Peek, Refresh, Mark, FetchFails, AddClip, Serve
<1>4. CASE \/ Poll(t) \/ Get(t) \/ Touch(t) \/ Create(t)
           \/ ParseError(t) \/ Merge(t) \/ Derive(t) \/ Ensure(t) \/ Publish(t)
  <2>1. ~queued'
    BY <1>4 DEF NobodyAsks, Poll, Get, Touch, Create, ParseError, Merge, Derive, Ensure, Publish,
                contentVars
  <2>2. role[t] \in {"none", "manifest"} /\ (pc[t] # "rest" => role[t] = "manifest")
    BY DEF NobodyAsks, LInv, ThreadsOK
  <2>3. \A x \in Threads : role'[x] \in {"none", "manifest"} /\ pc'[x] \notin SegmentPlaces
    BY <1>4, <2>2 DEF NobodyAsks, SegmentPlaces, LInv, ThreadsOK, Start, Goto, End, AfterGet,
                      Poll, Get, Touch, Create, ParseError, Merge, Derive, Ensure, Publish
  <2>4. heap \in [Objects -> Object]
    BY DEF LInv, RestOK
  <2>5. \A o \in Objects : ~heap'[o].requested
    <3>1. CASE UNCHANGED heap
      BY <3>1 DEF NobodyAsks
    <3>2. ASSUME NEW o, Update(o, Touched) \/ Update(o, Named)
          PROVE  \A x \in Objects : ~heap'[x].requested
      BY <2>4, <3>2 DEF NobodyAsks, Update, Touched, Named, Object
    <3>3. ASSUME NEW new, heap' = [heap EXCEPT ![new] = NewObject]
          PROVE  \A x \in Objects : ~heap'[x].requested
      BY <2>4, <3>3 DEF NobodyAsks, NewObject
    <3>4. CASE Create(t)
      BY <3>3, <3>4 DEF Create
    <3> QED
      BY <1>4, <3>1, <3>2, <3>4 DEF Poll, Get, Touch, ParseError, Merge, Derive, Ensure, Publish
  <2>6. UNCHANGED jpc
    BY <1>4 DEF Poll, Get, Touch, Create, ParseError, Merge, Derive, Ensure, Publish, janitorVars
  <2> QED
    BY <2>1, <2>3, <2>5, <2>6 DEF AskedFirst, NobodyAsks
<1> QED
  BY <1>1, <1>2, <1>3, <1>4 DEF Step

(* The janitor's: it marks nothing, and turns back at an unmarked history. *)
LEMMA AskedJanitor ==
  ASSUME LInv, NobodyAsks, Janitor
  PROVE  AskedFirst'
<1>1. UNCHANGED <<queued, role, pc>>
  BY DEF Janitor, Sweep, Check, Require, ReadID, Reset, Remove, RemovePlaylist, RemoveContent,
         Continue, Rest, LetGo, contentVars, threadVars
<1>2. heap \in [Objects -> Object] /\ (target # Nil => target \in Objects) /\ (target # Nil <=> jpc # "wait")
  BY DEF LInv, RestOK
<1>3. \A o \in Objects : ~heap'[o].requested
  <2>1. CASE UNCHANGED heap
    BY <2>1 DEF NobodyAsks
  <2>2. CASE LetGo
    BY <2>2 DEF LetGo, NobodyAsks, Blank
  <2>3. CASE Reset
    BY <1>2, <2>3 DEF Reset, NobodyAsks, Blank
  <2> QED
    BY <2>1, <2>2, <2>3 DEF Janitor, Sweep, Check, Require, ReadID, Remove, RemovePlaylist,
                            RemoveContent, Continue, Rest
<1>4. RequireSegments => jpc' \notin {"read", "reset"}
  <2>1. CASE Require
    BY <1>2, <2>1 DEF Require, NobodyAsks, Rest
  <2>2. CASE Check
    BY <2>2 DEF Check, Rest, Continue
  <2> QED
    BY <2>1, <2>2 DEF Janitor, Sweep, ReadID, Reset, Remove, RemovePlaylist, RemoveContent, Rest,
                      Continue, NobodyAsks
<1> QED
  BY <1>1, <1>3, <1>4 DEF AskedFirst, NobodyAsks

(* The others'. *)
LEMMA AskedOther ==
  ASSUME LInv, NobodyAsks,
         QueueDone \/ ExpirePlaylist \/ (\E o \in Objects : GrowIdle(o)) \/ UNCHANGED vars
  PROVE  AskedFirst'
<1>1. UNCHANGED <<role, pc, jpc>> /\ ~queued'
  BY DEF NobodyAsks, QueueDone, ExpirePlaylist, GrowIdle, vars, contentVars, threadVars, janitorVars
<1>2. \A o \in Objects : ~heap'[o].requested
  BY DEF LInv, RestOK, Object, NobodyAsks, QueueDone, ExpirePlaylist, GrowIdle, vars
<1> QED
  BY <1>1, <1>2 DEF AskedFirst, NobodyAsks

(* Without background fetch, a purge that needs a segment request comes    *)
(* after a player's, whatever prefetch workers mark as requested: none of  *)
(* them starts before it.                                                  *)
THEOREM PurgeFollowsRequest ==
  ASSUME ~BackgroundFetch
  PROVE  Spec => []PurgeNeedsRequest
<1>1. Init => AskedFirst
  BY DEF Init, AskedFirst, NobodyAsks, SegmentPlaces, Blank
<1>2. LInv /\ AskedFirst /\ [Next]_vars => AskedFirst'
  <2> SUFFICES ASSUME LInv, AskedFirst, [Next]_vars
               PROVE  AskedFirst'
    OBVIOUS
  <2>1. CASE asked
    <3>1. asked'
      BY <2>1 DEF Next, Step, Poll, Request, Launch, Get, Touch, Create, ParseError, Merge, Derive,
                  Ensure, Publish, Peek, Refresh, Mark, Serve, FetchFails, AddClip, QueueDone,
                  Janitor, Sweep, Check, Require, ReadID, Reset, Remove, RemovePlaylist,
                  RemoveContent, GrowIdle, ExpirePlaylist, vars, contentVars
    <3> QED
      BY <3>1 DEF AskedFirst
  <2>2. CASE ~asked
    BY <2>2, AskedStep, AskedJanitor, AskedOther DEF AskedFirst, Next
  <2> QED
    BY <2>1, <2>2
<1>3. AskedFirst => PurgeNeedsRequest
  BY DEF AskedFirst, NobodyAsks, PurgeNeedsRequest
<1> QED
  BY <1>1, <1>2, <1>3, LifecycleInvariance, PTL DEF Spec
=============================================================================
