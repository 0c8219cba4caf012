------------------------ MODULE SegmentRequestProofs ------------------------
(***************************************************************************)
(* Theorems of SegmentRequest, for any number of requests, any manifests,  *)
(* segments and versions, any cache limit and number of attempts.          *)
(***************************************************************************)
EXTENDS SegmentRequest, SegmentCacheProofs, TLAPS

(* The bodies a source may give to a request: its segment, raw, or a part  *)
(* of it when it asks for a range.                                         *)
Sources(r) == Raw(r.k) \cup IF r.range THEN Part(r.k) ELSE {}

ReceivedRight == \A h \in Handlers : pc[h] = "received" => body[h] \in Sources(request[h])

RInv == RequestTypeOK /\ AnswersRequest /\ TiersReplayable /\ ReceivedRight

-----------------------------------------------------------------------------
(* The memory tier's part of TiersReplayable. *)
Replayable(tier) ==
  \A m \in DOMAIN tier : \A k \in DOMAIN tier[m].entries : tier[m].entries[k] \in Raw(k)

(* Setting a key of a replayable cache to a raw body of it, and evicting,  *)
(* leaves only raw bodies of their keys.                                   *)
LEMMA SetAndEvict ==
  ASSUME NEW cache, NEW k, NEW b \in Raw(k),
         \A x \in DOMAIN cache.entries : cache.entries[x] \in Raw(x)
  PROVE  \A x \in DOMAIN Evict(SetKey(cache, k, b)).entries :
           Evict(SetKey(cache, k, b)).entries[x] \in Raw(x)
<1>1. \A x \in DOMAIN RemoveKey(cache, k).entries : RemoveKey(cache, k).entries[x] \in Raw(x)
  BY DEF RemoveKey, Restrict
<1>2. \A x \in DOMAIN SetKey(cache, k, b).entries : SetKey(cache, k, b).entries[x] \in Raw(x)
  BY <1>1 DEF SetKey
<1> QED
  BY <1>2 DEF Evict, Restrict

(* A save of a raw body keeps the memory tier replayable. *)
LEMMA SaveReplayable ==
  ASSUME NEW m, NEW k, NEW b \in Raw(k), Save(m, k, b), Replayable(manifests)
  PROVE  Replayable(manifests')
<1>1. \A x \in DOMAIN EnsureManifest(m).entries : EnsureManifest(m).entries[x] \in Raw(x)
  BY DEF EnsureManifest, NoManifest, Replayable
<1>2. PICK c : c = Evict(SetKey(EnsureManifest(m), k, b))
  OBVIOUS
<1>3. \A x \in DOMAIN c.entries : c.entries[x] \in Raw(x)
  BY <1>1, <1>2, SetAndEvict
<1>4. manifests' = Put(m, c)
  BY <1>2 DEF Save
<1> QED
  BY <1>3, <1>4 DEF Put, Replayable

(* A raw body is a body. *)
LEMMA RawIsBody ==
  ASSUME NEW k \in Keys
  PROVE  Raw(k) \subseteq Bodies /\ Part(k) \subseteq Bodies
  BY DEF Raw, Part, Bodies

(* TiersReplayable, with its two tiers apart. *)
LEMMA TwoTiers ==
  TiersReplayable <=> /\ Replayable(manifests)
                      /\ \A m \in ManifestIDs, k \in Keys : files[m][k] \in Raw(k) \cup {Miss}
  BY DEF TiersReplayable, Replayable

(* What SaveBody does to the tiers when it is given a raw body. *)
LEMMA SaveBodyInv ==
  ASSUME RInv, NEW m \in ManifestIDs, NEW k \in Keys, NEW b \in Raw(k), SaveBody(m, k, b)
  PROVE  /\ TiersReplayable'
         /\ files' \in [ManifestIDs -> [Keys -> Bodies \cup {Miss}]]
         /\ reply' = reply
<1>1. Replayable(manifests') /\ reply' = reply
  BY SaveReplayable, TwoTiers DEF RInv, SaveBody, Save
<1>2. /\ files' \in [ManifestIDs -> [Keys -> Bodies \cup {Miss}]]
      /\ \A n \in ManifestIDs, x \in Keys : files'[n][x] \in Raw(x) \cup {Miss}
  <2>1. CASE UNCHANGED files
    BY <2>1 DEF RInv, RequestTypeOK, TiersReplayable
  <2>2. CASE files' = [files EXCEPT ![m][k] = b]
    BY <2>2, RawIsBody DEF RInv, RequestTypeOK, TiersReplayable
  <2> QED
    BY <2>1, <2>2 DEF SaveBody
<1> QED
  BY <1>1, <1>2 DEF TiersReplayable, Replayable

-----------------------------------------------------------------------------
(* What a request is answered with is right, whichever source has it. *)
Right(r, b) ==
  /\ b.segment = r.k
  /\ ~r.range => b.form # "part"
  /\ r.key /\ ~r.range => b.form = "clear"
  /\ ~r.key => b.form \in {"raw", "part"}

LEMMA ServedRight ==
  ASSUME NEW r \in Requests, NEW b \in Sources(r)
  PROVE  Served(r, b) \in Bodies /\ Right(r, Served(r, b))
<1>1. PICK k \in Keys : k = r.k
  BY DEF Requests
<1>2. PICK v \in Versions, f \in {"raw", "part"} :
         b = [segment |-> k, version |-> v, form |-> f] /\ (f = "part" => r.range)
  BY <1>1 DEF Sources, Raw, Part
<1>3. CASE r.key
  <2>1. Served(r, b) = [segment |-> k, version |-> v, form |-> IF f = "raw" THEN "clear" ELSE "spoilt"]
    BY <1>2, <1>3 DEF Served, Decrypted
  <2> QED
    BY <1>1, <1>2, <1>3, <2>1 DEF Bodies, Right
<1>4. CASE ~r.key
  <2>1. Served(r, b) = b
    BY <1>4 DEF Served
  <2> QED
    BY <1>1, <1>2, <1>4, <2>1 DEF Bodies, Right
<1> QED
  BY <1>3, <1>4

(* A handler's place, request and body that fit together. *)
Fits(p, r, b) ==
  /\ \/ p = "idle" /\ r = NoRequest /\ b = Miss
     \/ p \in {"memory", "disk", "origin"} /\ r \in Requests /\ b = Miss
     \/ p \in {"received", "reply"} /\ r \in Requests /\ b \in Bodies
  /\ p = "received" => b \in Sources(r)
  /\ p = "reply" => Right(r, b)

(* A step of one handler keeps the invariant when it leaves the tiers      *)
(* replayable and its own variables fitting.                               *)
LEMMA HandlerInv ==
  ASSUME RInv, NEW h \in Handlers, NEW p, NEW r, NEW t \in 0 .. Attempts, NEW b,
         Fits(p, r, b),
         pc' = [pc EXCEPT ![h] = p],
         request' = [request EXCEPT ![h] = r],
         tries' = [tries EXCEPT ![h] = t],
         body' = [body EXCEPT ![h] = b],
         UNCHANGED config, TiersReplayable',
         files' \in [ManifestIDs -> [Keys -> Bodies \cup {Miss}]],
         reply' \in Bodies \cup {Miss}
  PROVE  RInv'
<1>1. RequestTypeOK'
  BY DEF RInv, RequestTypeOK, Fits
<1>2. AnswersRequest'
  BY DEF RInv, RequestTypeOK, AnswersRequest, Fits, Right
<1>3. ReceivedRight'
  BY DEF RInv, RequestTypeOK, ReceivedRight, Fits
<1> QED
  BY <1>1, <1>2, <1>3 DEF RInv

(* What is known of a handler. *)
LEMMA HandlerFits ==
  ASSUME RInv, NEW h \in Handlers
  PROVE  Fits(pc[h], request[h], body[h])
  BY DEF RInv, RequestTypeOK, AnswersRequest, ReceivedRight, Fits, Right

(* Tiers as a step needs them to be. *)
TiersKept ==
  /\ UNCHANGED config
  /\ TiersReplayable'
  /\ files' \in [ManifestIDs -> [Keys -> Bodies \cup {Miss}]]
  /\ reply' \in Bodies \cup {Miss}

(* Leaving the tiers alone is one way. *)
LEMMA TiersUnchanged ==
  ASSUME RInv, UNCHANGED <<tiers, config>>
  PROVE  TiersKept
  BY DEF RInv, RequestTypeOK, TiersReplayable, TiersKept, tiers

(* The end of a request keeps the invariant. *)
LEMMA ReturnInv ==
  ASSUME RInv, NEW h \in Handlers, Return(h), TiersKept
  PROVE  RInv'
<1>1. 0 \in 0 .. Attempts
  BY RequestAssumption
<1>2. Fits("idle", NoRequest, Miss)
  BY DEF Fits
<1> QED
  BY <1>1, <1>2, HandlerInv DEF Return, TiersKept

(* So does going on to another source ... *)
LEMMA TryNextInv ==
  ASSUME RInv, NEW h \in Handlers, NEW place \in {"memory", "disk", "origin"},
         pc[h] \in {"memory", "disk", "origin"}, TryNext(h, place), TiersKept
  PROVE  RInv'
<1>0. PICK t \in 0 .. Attempts : t = tries[h]
  BY DEF RInv, RequestTypeOK
<1>1. PICK r, b : r = request[h] /\ b = body[h]
  OBVIOUS
<1>2. Fits(place, r, b)
  BY <1>1, HandlerFits DEF Fits
<1>3. /\ request' = [request EXCEPT ![h] = r]
      /\ tries' = [tries EXCEPT ![h] = t]
      /\ body' = [body EXCEPT ![h] = b]
  BY <1>0, <1>1 DEF RInv, RequestTypeOK, TryNext
<1> QED
  BY <1>2, <1>3, HandlerInv DEF TryNext, TiersKept

(* ... and taking what a source has. *)
LEMMA HitInv ==
  ASSUME RInv, NEW h \in Handlers, request[h] \in Requests, NEW b \in Sources(request[h]),
         Hit(h, b), TiersKept
  PROVE  RInv'
<1>1. CASE Return(h)
  BY <1>1, ReturnInv
<1>2. CASE /\ pc' = [pc EXCEPT ![h] = "reply"]
           /\ body' = [body EXCEPT ![h] = Served(request[h], b)]
           /\ UNCHANGED <<request, tries>>
  <2>0. PICK t \in 0 .. Attempts : t = tries[h]
    BY DEF RInv, RequestTypeOK
  <2>1. PICK r, c : r = request[h] /\ c = Served(request[h], b)
    OBVIOUS
  <2>2. Fits("reply", r, c)
    BY <2>1, ServedRight DEF Fits
  <2>3. /\ request' = [request EXCEPT ![h] = r]
        /\ tries' = [tries EXCEPT ![h] = t]
        /\ body' = [body EXCEPT ![h] = c]
    BY <1>2, <2>0, <2>1 DEF RInv, RequestTypeOK
  <2> QED
    BY <1>2, <2>2, <2>3, HandlerInv DEF TiersKept
<1> QED
  BY <1>1, <1>2 DEF Hit

-----------------------------------------------------------------------------
(* The steps of a handler, one by one: a new request ... *)
LEMMA RequestInv ==
  ASSUME RInv, NEW h \in Handlers, NEW r \in Requests, Request(h, r)
  PROVE  RInv'
<1>1. TiersKept
  BY TiersUnchanged DEF Request
<1>2. PICK t \in 0 .. Attempts : t = tries[h] /\ tries' = [tries EXCEPT ![h] = t]
  BY DEF RInv, RequestTypeOK, Request
<1>3. CASE pc' = [pc EXCEPT ![h] = "memory"] /\ UNCHANGED body
  <2>1. Fits("memory", r, Miss)
    BY DEF Fits
  <2>2. body' = [body EXCEPT ![h] = Miss]
    BY <1>3, HandlerFits DEF RInv, RequestTypeOK, Request, Fits
  <2> QED
    BY <1>1, <1>2, <1>3, <2>1, <2>2, HandlerInv DEF Request, TiersKept
<1>4. ASSUME NEW b \in Raw(r.k), pc' = [pc EXCEPT ![h] = "reply"], body' = [body EXCEPT ![h] = Served(r, b)]
      PROVE  RInv'
  <2>1. PICK c : c = Served(r, b) /\ c \in Bodies /\ Right(r, c)
    BY ServedRight DEF Sources
  <2>2. Fits("reply", r, c)
    BY <2>1 DEF Fits
  <2> QED
    BY <1>1, <1>2, <1>4, <2>1, <2>2, HandlerInv DEF Request, TiersKept
<1> QED
  BY <1>3, <1>4 DEF Request

(* ... the memory tier, whose answer is a body of the segment ... *)
LEMMA LookInMemoryInv ==
  ASSUME RInv, NEW h \in Handlers, LookInMemory(h)
  PROVE  RInv'
<1>1. request[h] \in Requests /\ pc[h] = "memory"
  BY HandlerFits DEF Fits, LookInMemory
<1>2. PICK m \in ManifestIDs, k \in Keys : m = request[h].m /\ k = request[h].k
  BY <1>1 DEF Requests
<1>3. CASE UNCHANGED <<manifests, reply>> /\ TryNext(h, "disk")
  <2>1. TiersKept
    BY <1>3, TiersUnchanged DEF LookInMemory, tiers
  <2> QED
    BY <1>1, <1>3, <2>1, TryNextInv
<1>4. ASSUME Load(m, k), reply' = Miss \/ reply' \in Raw(k)
      PROVE  TiersKept
  BY <1>2, <1>4, RawIsBody DEF RInv, RequestTypeOK, TiersReplayable, TiersKept, Load, LookInMemory
<1>5. ASSUME Load(m, k)
      PROVE  reply' = Miss \/ reply' \in Raw(k)
  BY <1>5 DEF RInv, TiersReplayable, Load
<1>6. CASE Load(m, k) /\ reply' = Miss /\ TryNext(h, "disk")
  BY <1>1, <1>4, <1>6, TryNextInv
<1>7. CASE Load(m, k) /\ reply' # Miss /\ Hit(h, reply')
  <2>1. PICK b : b = reply' /\ b \in Raw(k)
    BY <1>5, <1>7
  <2>2. b \in Sources(request[h])
    BY <1>2, <2>1 DEF Sources
  <2> QED
    BY <1>1, <1>4, <1>7, <2>1, <2>2, HitInv
<1> QED
  BY <1>2, <1>3, <1>6, <1>7 DEF LookInMemory

(* ... the disk tier ... *)
LEMMA LookOnDiskInv ==
  ASSUME RInv, NEW h \in Handlers, LookOnDisk(h)
  PROVE  RInv'
<1>1. request[h] \in Requests /\ pc[h] = "disk"
  BY HandlerFits DEF Fits, LookOnDisk
<1>2. TiersKept
  BY TiersUnchanged DEF LookOnDisk
<1>3. CASE TryNext(h, "origin")
  BY <1>1, <1>2, <1>3, TryNextInv
<1>4. CASE files[request[h].m][request[h].k] # Miss /\ Hit(h, files[request[h].m][request[h].k])
  <2>1. files[request[h].m][request[h].k] \in Sources(request[h])
    BY <1>1, <1>4 DEF RInv, TiersReplayable, Requests, Sources
  <2> QED
    BY <1>1, <1>2, <1>4, <2>1, HitInv
<1> QED
  BY <1>3, <1>4 DEF LookOnDisk

(* ... an attempt at the origin that fails ... *)
LEMMA AttemptFailsInv ==
  ASSUME RInv, NEW h \in Handlers, AttemptFails(h)
  PROVE  RInv'
<1>1. TiersKept
  BY TiersUnchanged DEF AttemptFails
<1>2. CASE Return(h)
  BY <1>1, <1>2, ReturnInv
<1>3. CASE /\ ~(tries[h] + 1 >= Attempts)
           /\ tries' = [tries EXCEPT ![h] = @ + 1] /\ UNCHANGED <<pc, request, body>>
  <2>1. PICK t \in 0 .. Attempts : t = tries[h] + 1
    BY <1>3, RequestAssumption DEF RInv, RequestTypeOK
  <2>2. PICK p, r, b : p = pc[h] /\ r = request[h] /\ b = body[h] /\ Fits(p, r, b)
    BY HandlerFits
  <2>3. /\ pc' = [pc EXCEPT ![h] = p] /\ request' = [request EXCEPT ![h] = r]
        /\ tries' = [tries EXCEPT ![h] = t] /\ body' = [body EXCEPT ![h] = b]
    BY <1>3, <2>1, <2>2 DEF RInv, RequestTypeOK
  <2> QED
    BY <1>1, <2>2, <2>3, HandlerInv DEF TiersKept
<1> QED
  BY <1>2, <1>3 DEF AttemptFails

(* ... its answer ... *)
LEMMA ReceiveInv ==
  ASSUME RInv, NEW h \in Handlers, Receive(h)
  PROVE  RInv'
<1>1. TiersKept
  BY TiersUnchanged DEF Receive
<1>2. PICK r \in Requests : r = request[h]
  BY HandlerFits DEF Fits, Receive
<1>3. PICK b \in Sources(r) : body' = [body EXCEPT ![h] = b]
  BY <1>2 DEF Receive, Sources
<1>4. b \in Bodies
  <2>1. r.k \in Keys
    BY DEF Requests
  <2> QED
    BY <2>1, RawIsBody DEF Sources
<1>5. Fits("received", r, b)
  BY <1>4 DEF Fits
<1>6. PICK t \in 0 .. Attempts : t = tries[h]
  BY DEF RInv, RequestTypeOK
<1>7. request' = [request EXCEPT ![h] = r] /\ tries' = [tries EXCEPT ![h] = t]
  BY <1>2, <1>6 DEF RInv, RequestTypeOK, Receive
<1> QED
  BY <1>1, <1>3, <1>5, <1>7, HandlerInv DEF Receive, TiersKept

(* ... and its delivery: only a raw body that is no answer to a range is   *)
(* saved.                                                                  *)
LEMMA DeliverInv ==
  ASSUME RInv, NEW h \in Handlers, Deliver(h)
  PROVE  RInv'
<1>1. request[h] \in Requests /\ body[h] \in Sources(request[h])
  BY HandlerFits DEF Fits, Deliver
<1>2. TiersKept
  <2>1. CASE request[h].range
    BY <2>1, TiersUnchanged DEF Deliver
  <2>2. CASE ~request[h].range
    <3>1. PICK m \in ManifestIDs, k \in Keys, b \in Sources(request[h]) :
            m = request[h].m /\ k = request[h].k /\ b = body[h] /\ b \in Raw(k)
      BY <1>1, <2>2 DEF Requests, Sources
    <3>2. SaveBody(m, k, b)
      BY <2>2, <3>1 DEF Deliver
    <3> QED
      BY <3>1, <3>2, SaveBodyInv DEF RInv, RequestTypeOK, Deliver, TiersKept
  <2> QED
    BY <2>1, <2>2
<1> QED
  BY <1>1, <1>2, HitInv DEF Deliver

(* All steps of a handler. *)
LEMMA HandleInv ==
  ASSUME RInv, NEW h \in Handlers, Handle(h)
  PROVE  RInv'
<1>1. CASE ReadFails(h) \/ Reply(h)
  BY <1>1, ReturnInv, TiersUnchanged DEF ReadFails, Reply
<1> QED
  BY <1>1, LookInMemoryInv, LookOnDiskInv, AttemptFailsInv, ReceiveInv, DeliverInv DEF Handle

-----------------------------------------------------------------------------
(* What the others do to the tiers keeps the invariant. *)
LEMMA OthersInv ==
  ASSUME RInv, TiersKept, UNCHANGED <<pc, request, tries, body>>
  PROVE  RInv'
  BY DEF RInv, RequestTypeOK, AnswersRequest, ReceivedRight, TiersKept

(* A worker saves, the disk tier is trimmed, a manifest is purged, or the  *)
(* disk tier is emptied.                                                   *)
LEMMA TierInv ==
  ASSUME RInv,
         \/ \E m \in ManifestIDs, k \in Keys : WorkerSaves(m, k) \/ TrimFile(m, k)
         \/ \E m \in ManifestIDs : Purge(m)
         \/ Shutdown
  PROVE  RInv'
<1>1. ASSUME NEW m \in ManifestIDs, NEW k \in Keys, WorkerSaves(m, k)
      PROVE  RInv'
  BY <1>1, SaveBodyInv, OthersInv DEF WorkerSaves, RInv, RequestTypeOK, TiersKept
<1>2. ASSUME NEW m \in ManifestIDs, NEW k \in Keys, TrimFile(m, k)
      PROVE  RInv'
  <2>1. TiersKept
    BY <1>2 DEF TrimFile, RInv, RequestTypeOK, TiersReplayable, TiersKept
  <2> QED
    BY <1>2, <2>1, OthersInv DEF TrimFile
<1>3. ASSUME NEW m \in ManifestIDs, Purge(m)
      PROVE  RInv'
  <2>1. TiersKept
    BY <1>3 DEF Purge, Clear, Restrict, RInv, RequestTypeOK, TiersReplayable, TiersKept
  <2> QED
    BY <1>3, <2>1, OthersInv DEF Purge
<1>4. CASE Shutdown
  <2>1. TiersKept
    BY <1>4 DEF Shutdown, RInv, RequestTypeOK, TiersReplayable, TiersKept
  <2> QED
    BY <1>4, <2>1, OthersInv DEF Shutdown
<1> QED
  BY <1>1, <1>2, <1>3, <1>4

(* The invariant holds at the start and after every step. *)
LEMMA RequestInvariance == RequestSpec => []RInv
<1>1. RequestInit => RInv
  <2> SUFFICES ASSUME RequestInit PROVE RInv
    OBVIOUS
  <2>1. RequestTypeOK
    <3>1. config \in [store : BOOLEAN, cache : BOOLEAN] /\ ~(config.store /\ config.cache)
      <4>1. PICK store \in BOOLEAN, cache \in BOOLEAN :
              config = [store |-> store, cache |-> cache /\ ~store]
        BY DEF RequestInit
      <4>2. (cache /\ ~store) \in BOOLEAN /\ ~(store /\ cache /\ ~store)
        OBVIOUS
      <4> QED
        BY <4>1, <4>2, Zenon
    <3>2. tries \in [Handlers -> 0 .. Attempts]
      BY RequestAssumption DEF RequestInit
    <3>3. reply \in Bodies \cup {Miss}
      BY DEF RequestInit, Init
    <3> QED
      BY <3>1, <3>2, <3>3 DEF RequestInit, RequestTypeOK
  <2>2. TiersReplayable
    BY DEF RequestInit, Init, TiersReplayable
  <2> QED
    BY <2>1, <2>2 DEF RequestInit, RInv, AnswersRequest, ReceivedRight
<1>2. RInv /\ [RequestNext]_requestVars => RInv'
  <2> SUFFICES ASSUME RInv, [RequestNext]_requestVars PROVE RInv'
    OBVIOUS
  <2>1. CASE UNCHANGED requestVars
    BY <2>1, TiersUnchanged, OthersInv DEF requestVars
  <2>2. CASE RequestNext
    BY <2>2, RequestInv, HandleInv, TierInv DEF RequestNext
  <2> QED
    BY <2>1, <2>2
<1> QED
  BY <1>1, <1>2, PTL DEF RequestSpec

(* Types and places. *)
THEOREM RequestTypeCorrect == RequestSpec => []RequestTypeOK
<1>1. RInv => RequestTypeOK
  BY DEF RInv
<1> QED
  BY <1>1, RequestInvariance, PTL

(* A player gets what it asked for, however many others ask and whatever   *)
(* happens to the tiers.                                                   *)
THEOREM RequestsAreAnswered == RequestSpec => []AnswersRequest
<1>1. RInv => AnswersRequest
  BY DEF RInv
<1> QED
  BY <1>1, RequestInvariance, PTL

(* The tiers hold whole raw segments under their own URLs. *)
THEOREM TiersStayReplayable == RequestSpec => []TiersReplayable
<1>1. RInv => TiersReplayable
  BY DEF RInv
<1> QED
  BY <1>1, RequestInvariance, PTL

-----------------------------------------------------------------------------
(* To the memory tier, whoever uses it makes steps of SegmentCache: a save *)
(* or a load under the mutex, or none.                                     *)
LEMMA SaveBodyIsSave ==
  ASSUME NEW m \in ManifestIDs, NEW k \in Keys, NEW b \in Bodies, SaveBody(m, k, b)
  PROVE  [Next]_vars
<1>1. b \in Data
  BY RequestAssumption
<1>2. CASE Save(m, k, b)
  BY <1>1, <1>2 DEF Next
<1>3. CASE UNCHANGED <<manifests, reply>>
  BY <1>3 DEF vars
<1> QED
  BY <1>2, <1>3 DEF SaveBody

LEMMA HandlerUsesCache ==
  ASSUME RInv, NEW h \in Handlers, Handle(h)
  PROVE  [Next]_vars
<1>1. CASE LookInMemory(h)
  <2>1. request[h] \in Requests
    BY <1>1, HandlerFits DEF Fits, LookInMemory
  <2>2. request[h].m \in ManifestIDs /\ request[h].k \in Keys
    BY <2>1 DEF Requests
  <2>3. CASE Load(request[h].m, request[h].k)
    BY <2>2, <2>3 DEF Next
  <2>4. CASE UNCHANGED <<manifests, reply>>
    BY <2>4 DEF vars
  <2> QED
    BY <1>1, <2>3, <2>4 DEF LookInMemory
<1>2. CASE Deliver(h)
  <2>1. request[h] \in Requests /\ body[h] \in Bodies
    BY <1>2, HandlerFits DEF Fits, Deliver
  <2>2. request[h].m \in ManifestIDs /\ request[h].k \in Keys
    BY <2>1 DEF Requests
  <2>3. CASE SaveBody(request[h].m, request[h].k, body[h])
    BY <2>1, <2>2, <2>3, SaveBodyIsSave
  <2>4. CASE UNCHANGED tiers
    BY <2>4 DEF tiers, vars
  <2> QED
    BY <1>2, <2>3, <2>4 DEF Deliver
<1>3. CASE LookOnDisk(h) \/ AttemptFails(h) \/ Receive(h) \/ ReadFails(h) \/ Reply(h)
  BY <1>3 DEF LookOnDisk, AttemptFails, Receive, ReadFails, Reply, tiers, vars
<1> QED
  BY <1>1, <1>2, <1>3 DEF Handle

LEMMA StepUsesCache ==
  ASSUME RInv, [RequestNext]_requestVars
  PROVE  [Next]_vars
<1>1. ASSUME NEW h \in Handlers, NEW r \in Requests, Request(h, r)
      PROVE  [Next]_vars
  BY <1>1 DEF Request, tiers, vars
<1>2. ASSUME NEW m \in ManifestIDs, NEW k \in Keys, WorkerSaves(m, k)
      PROVE  [Next]_vars
  <2>1. PICK b \in Raw(k) : SaveBody(m, k, b)
    BY <1>2 DEF WorkerSaves
  <2> QED
    BY <2>1, RawIsBody, SaveBodyIsSave
<1>3. ASSUME NEW m \in ManifestIDs, Purge(m)
      PROVE  [Next]_vars
  BY <1>3 DEF Purge, Next
<1>4. CASE Shutdown \/ \E m \in ManifestIDs, k \in Keys : TrimFile(m, k)
  BY <1>4 DEF Shutdown, TrimFile, vars
<1>5. CASE UNCHANGED requestVars
  BY <1>5 DEF requestVars, tiers, vars
<1> QED
  BY <1>1, <1>2, <1>3, <1>4, <1>5, HandlerUsesCache DEF RequestNext

(* So all that is proved of the cache alone holds of it among handlers,    *)
(* workers and purges: its behaviour is one of SegmentCache.               *)
LEMMA RequestsUseCache == RequestSpec => Spec
<1>1. RequestInit => Init
  BY DEF RequestInit
<1> QED
  BY <1>1, StepUsesCache, RequestInvariance, PTL DEF RequestSpec, Spec

(* Its list and map agree, whoever saves, loads and purges.                *)
THEOREM RequestsKeepCacheConsistent == RequestSpec => []CacheConsistent
  BY RequestsUseCache, CacheIsConsistent, PTL

(* What a handler finds in the memory tier is the body that a handler or a *)
(* worker saved there last, as long as the tier holds it.                  *)
THEOREM RequestsImplementTier == RequestSpec => ImplementsTier
  BY RequestsUseCache, CacheImplementsTier, PTL
=============================================================================
