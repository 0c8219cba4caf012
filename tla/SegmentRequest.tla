--------------------------- MODULE SegmentRequest ---------------------------
(***************************************************************************)
(* proxy/proxy.go, TsProxy: a request for a segment goes through the       *)
(* prefetched clips, the memory tier and the disk tier to the origin, and  *)
(* leaves what it had to fetch in the tier.  Requests run concurrently     *)
(* with each other, with prefetch workers and with the purge of the tier,  *)
(* which changes between any two of their steps.                           *)
(*                                                                         *)
(* The memory tier is SegmentCache itself.  The disk tier is the set of    *)
(* its whole files, which SegmentStore shows is all that a Load can see,   *)
(* and fetchedClips is whatever workers have put there; both may lose any  *)
(* part of what they hold at any time.  What a request does to the history *)
(* of its manifest is in ManifestLifecycle, what it makes the prefetcher   *)
(* do in Prefetcher.                                                       *)
(***************************************************************************)
EXTENDS SegmentCache

CONSTANTS
  Versions,  \* what the origin may have under one URL, over time
  Handlers,  \* bound: requests at one time
  Attempts   \* model.Configuration.Attempts

(* A body is as the origin has it, a part of that, decrypted, or spoilt by *)
(* a decryption of something else than a whole raw segment.                *)
Bodies == [segment : Keys, version : Versions, form : {"raw", "part", "clear", "spoilt"}]

ASSUME RequestAssumption ==
  /\ Bodies \subseteq Data
  /\ Attempts \in Nat

Raw(k) == [segment : {k}, version : Versions, form : {"raw"}]
Part(k) == [segment : {k}, version : Versions, form : {"part"}]

VARIABLES
  config,   \* SegmentStore and SegmentCache of model.Configuration
  files,    \* what a Load of the disk tier finds
  pc,       \* the place of each handler in TsProxy
  request,  \* its manifest ID, segment, and whether it has a Range and a key
  tries,    \* the attempts it has made at the origin
  body      \* what it has got, and finally writes

tiers == <<manifests, reply, files>>
requestVars == <<tiers, config, pc, request, tries, body>>

NoRequest == [m |-> Miss, k |-> Miss, range |-> FALSE, key |-> FALSE]
Requests == [m : ManifestIDs, k : Keys, range : BOOLEAN, key : BOOLEAN]

RequestTypeOK ==
  /\ config \in [store : BOOLEAN, cache : BOOLEAN] /\ ~(config.store /\ config.cache)
  /\ files \in [ManifestIDs -> [Keys -> Bodies \cup {Miss}]]
  /\ reply \in Bodies \cup {Miss}
  /\ tries \in [Handlers -> 0 .. Attempts]
  /\ pc \in [Handlers -> {"idle", "memory", "disk", "origin", "received", "reply"}]
  /\ request \in [Handlers -> Requests \cup {NoRequest}]
  /\ body \in [Handlers -> Bodies \cup {Miss}]
  /\ \A h \in Handlers :
       \/ pc[h] = "idle" /\ request[h] = NoRequest /\ body[h] = Miss
       \/ pc[h] \in {"memory", "disk", "origin"} /\ request[h] \in Requests /\ body[h] = Miss
       \/ pc[h] \in {"received", "reply"} /\ request[h] \in Requests /\ body[h] \in Bodies

(* applyConfiguration takes the memory tier away when there is a disk tier. *)
RequestInit ==
  /\ Init
  /\ \E store, cache \in BOOLEAN : config = [store |-> store, cache |-> cache /\ ~store]
  /\ files = [m \in ManifestIDs |-> [k \in Keys |-> Miss]]
  /\ pc = [h \in Handlers |-> "idle"]
  /\ request = [h \in Handlers |-> NoRequest]
  /\ tries = [h \in Handlers |-> 0]
  /\ body = [h \in Handlers |-> Miss]

-----------------------------------------------------------------------------
(* DecryptSegment, for a request that names a key. *)
Decrypted(b) == [b EXCEPT !.form = IF b.form = "raw" THEN "clear" ELSE "spoilt"]

(* What is written to the player. *)
Served(r, b) == IF r.key THEN Decrypted(b) ELSE b

(* The request is over, with or without an answer. *)
Return(h) ==
  /\ pc' = [pc EXCEPT ![h] = "idle"]
  /\ request' = [request EXCEPT ![h] = NoRequest]
  /\ tries' = [tries EXCEPT ![h] = 0]
  /\ body' = [body EXCEPT ![h] = Miss]

(* A source has the segment, or sends the handler to the next one.  A      *)
(* decryption that fails or panics ends the request.                       *)
Hit(h, b) ==
  \/ /\ pc' = [pc EXCEPT ![h] = "reply"]
     /\ body' = [body EXCEPT ![h] = Served(request[h], b)]
     /\ UNCHANGED <<request, tries>>
  \/ request[h].key /\ Return(h)

TryNext(h, place) ==
  /\ pc' = [pc EXCEPT ![h] = place]
  /\ UNCHANGED <<request, tries, body>>

(* A request comes in.  It asks the prefetcher, when it has a pId, before  *)
(* anything else and also for a range: fetchedClips holds what fetchClip   *)
(* got for this URL, a whole raw segment, or nothing.                      *)
Request(h, r) ==
  /\ pc[h] = "idle"
  /\ request' = [request EXCEPT ![h] = r]
  /\ \/ /\ pc' = [pc EXCEPT ![h] = "reply"]
        /\ \E b \in Raw(r.k) : body' = [body EXCEPT ![h] = Served(r, b)]
     \/ pc' = [pc EXCEPT ![h] = "memory"] /\ UNCHANGED body
  /\ UNCHANGED <<tiers, config, tries>>

(* LoadSegmentCache. *)
LookInMemory(h) ==
  /\ pc[h] = "memory"
  /\ IF config.cache /\ ~request[h].range
     THEN /\ Load(request[h].m, request[h].k)
          /\ IF reply' = Miss THEN TryNext(h, "disk") ELSE Hit(h, reply')
     ELSE TryNext(h, "disk") /\ UNCHANGED <<manifests, reply>>
  /\ UNCHANGED <<files, config>>

(* LoadSegment.  An error of the file system counts as not found. *)
LookOnDisk(h) ==
  LET file == files[request[h].m][request[h].k]
  IN  /\ pc[h] = "disk"
      /\ \/ TryNext(h, "origin")
         \/ config.store /\ ~request[h].range /\ file # Miss /\ Hit(h, file)
      /\ UNCHANGED <<tiers, config>>

-----------------------------------------------------------------------------
(* Mutants: one attempt too many; a retry starts over and counts anew. *)
AttemptFailsLate(h) ==
  /\ pc[h] = "origin"
  /\ IF tries[h] > Attempts
     THEN Return(h)
     ELSE tries' = [tries EXCEPT ![h] = @ + 1] /\ UNCHANGED <<pc, request, body>>
  /\ UNCHANGED <<tiers, config>>

AttemptFailsAnew(h) ==
  /\ pc[h] = "origin"
  /\ IF tries[h] + 1 >= Attempts THEN Return(h) ELSE TryNext(h, "memory")
  /\ UNCHANGED <<tiers, config>>

(* ExecuteRetryableRequest: an attempt fails, by an error or a status that *)
(* is not 2xx, and there is another one while Attempts allows.             *)
AttemptFails(h) ==
  /\ pc[h] = "origin"
  /\ IF tries[h] + 1 >= Attempts
     THEN Return(h)
     ELSE tries' = [tries EXCEPT ![h] = @ + 1] /\ UNCHANGED <<pc, request, body>>
  /\ UNCHANGED <<tiers, config>>

(* The origin answers; to a request for a range it may send all the same   *)
(* the whole segment.                                                      *)
Receive(h) ==
  /\ pc[h] = "origin"
  /\ tries[h] < Attempts
  /\ pc' = [pc EXCEPT ![h] = "received"]
  /\ \E b \in Raw(request[h].k) \cup IF request[h].range THEN Part(request[h].k) ELSE {} :
       body' = [body EXCEPT ![h] = b]
  /\ UNCHANGED <<tiers, config, request, tries>>

(* The connection breaks while the body is read, or streamed. *)
ReadFails(h) == pc[h] = "received" /\ Return(h) /\ UNCHANGED <<tiers, config>>

(* A body is saved in the tier there is, unless the disk fails. *)
SaveBody(m, k, b) ==
  /\ IF config.cache THEN Save(m, k, b) ELSE UNCHANGED <<manifests, reply>>
  /\ \/ config.store /\ files' = [files EXCEPT ![m][k] = b]
     \/ UNCHANGED files

(* Mutants: ranges are saved as well; the body is decrypted, then saved. *)
DeliverRanges(h) ==
  /\ pc[h] = "received"
  /\ SaveBody(request[h].m, request[h].k, body[h])
  /\ Hit(h, body[h])
  /\ UNCHANGED config

DeliverDecrypted(h) ==
  /\ pc[h] = "received"
  /\ IF request[h].range
     THEN UNCHANGED tiers
     ELSE SaveBody(request[h].m, request[h].k, Served(request[h], body[h]))
  /\ Hit(h, body[h])
  /\ UNCHANGED config

(* The body is read, saved unless it answers a range, decrypted if need be *)
(* and written.  (With neither key nor tier it is streamed, which comes to *)
(* the same.)                                                              *)
Deliver(h) ==
  /\ pc[h] = "received"
  /\ IF request[h].range THEN UNCHANGED tiers ELSE SaveBody(request[h].m, request[h].k, body[h])
  /\ Hit(h, body[h])
  /\ UNCHANGED config

Reply(h) == pc[h] = "reply" /\ Return(h) /\ UNCHANGED <<tiers, config>>

Handle(h) ==
  \/ LookInMemory(h) \/ LookOnDisk(h)
  \/ AttemptFails(h) \/ Receive(h) \/ ReadFails(h) \/ Deliver(h)
  \/ Reply(h)

-----------------------------------------------------------------------------
(* PrefetchPlaylist.addClip: a prefetch worker saves what fetchClip got. *)
WorkerSaves(m, k) ==
  /\ config.cache \/ config.store
  /\ \E b \in Raw(k) : SaveBody(m, k, b)
  /\ UNCHANGED <<config, pc, request, tries, body>>

(* A save of the disk tier trims it; a removal takes its files one by one. *)
TrimFile(m, k) ==
  /\ files[m][k] # Miss
  /\ files' = [files EXCEPT ![m][k] = Miss]
  /\ UNCHANGED <<manifests, reply, config, pc, request, tries, body>>

(* The inactivity janitor clears both tiers of a manifest; if it cannot     *)
(* remove every file, or a request looks in between, that is a TrimFile or *)
(* several.                                                                *)
Purge(m) ==
  /\ Clear(m)
  /\ files' = [files EXCEPT ![m] = [k \in Keys |-> Miss]]
  /\ UNCHANGED <<config, pc, request, tries, body>>

(* The signal handler empties the disk tier before the process ends.  It   *)
(* is there only with that tier, so that its reset of the memory tier      *)
(* finds none.                                                             *)
Shutdown ==
  /\ config.store
  /\ files' = [m \in ManifestIDs |-> [k \in Keys |-> Miss]]
  /\ UNCHANGED <<manifests, reply, config, pc, request, tries, body>>

RequestNext ==
  \/ \E h \in Handlers : (\E r \in Requests : Request(h, r)) \/ Handle(h)
  \/ \E m \in ManifestIDs, k \in Keys : WorkerSaves(m, k) \/ TrimFile(m, k)
  \/ \E m \in ManifestIDs : Purge(m)
  \/ Shutdown

(* A handler goes on: the client of the origin has a timeout. *)
RequestSpec ==
  RequestInit /\ [][RequestNext]_requestVars /\ \A h \in Handlers : WF_requestVars(Handle(h))

-----------------------------------------------------------------------------
(* Whatever happens to the sources meanwhile, a player gets the segment it *)
(* asked for, all of it unless it asked for a range, and decrypted, once,  *)
(* if and only if its request names the key.  (A range of an encrypted     *)
(* segment is excepted: TsProxy decrypts the part as if it were whole.)    *)
AnswersRequest ==
  \A h \in Handlers : pc[h] = "reply" =>
    LET r == request[h]
    IN  /\ body[h].segment = r.k
        /\ ~r.range => body[h].form # "part"
        /\ r.key /\ ~r.range => body[h].form = "clear"
        /\ ~r.key => body[h].form \in {"raw", "part"}

(* A tier holds nothing but whole raw segments under their own URLs, so    *)
(* that any later request can be answered from it: no answer to a range,   *)
(* no decrypted and no other segment gets into it.                         *)
TiersReplayable ==
  /\ \A m \in DOMAIN manifests : \A k \in DOMAIN manifests[m].entries :
       manifests[m].entries[k] \in Raw(k)
  /\ \A m \in ManifestIDs, k \in Keys : files[m][k] \in Raw(k) \cup {Miss}

(* Every request ends, with an answer or an error, also when the origin    *)
(* never answers.                                                          *)
RequestEnds == \A h \in Handlers : pc[h] # "idle" ~> pc[h] = "idle"
=============================================================================
