--------------------------- MODULE ManifestRewrite ---------------------------
(***************************************************************************)
(* hls/modify_hls.go: what ModifyM3u8 makes of an encrypted channel.  The  *)
(* origin writes a key tag before the first segment of its playlist and    *)
(* wherever the key changes; the tag applies to all segments after it.     *)
(* ModifyM3u8 keeps it with the one segment that follows it, or fetches    *)
(* the key and keeps key and IV with every segment (DecryptSegments).      *)
(* Merging overwrites them in the entries the history already has, and the *)
(* entries are rendered after the unlock, while other handlers merge.      *)
(*                                                                         *)
(* This is ManifestHistory with the content of its entries: each step is   *)
(* one of its steps, or renders.  What holds of the key tag holds of       *)
(* EXT-X-MAP, too, which is kept with one segment in the same way.  The    *)
(* channel is encrypted throughout, and its media sequence numbers are the *)
(* positions of Timeline.                                                  *)
(***************************************************************************)
EXTENDS ManifestHistory

CONSTANTS
  KeyOf,            \* the key of the segment at each position
  DecryptSegments,  \* the values of the flag that are looked at
  NoKey             \* no key, no tag

(* No URL is used again: key and IV of an entry are then the same in every *)
(* poll, and reading them while they are written can be one step.          *)
ASSUME RewriteAssumption ==
  /\ \A m, n \in 1 .. Len(Timeline) : Timeline[m] = Timeline[n] => m = n
  /\ \A n \in 1 .. Len(Timeline) : KeyOf[n] # NoKey
  /\ DecryptSegments \subseteq BOOLEAN

VARIABLES
  decrypt,  \* model.Configuration.DecryptSegments
  content,  \* tag, key and IV of each entry object, in the order of the numbers
  lines     \* what each handler has rendered of its list

rewriteVars == <<vars, decrypt, content, lines>>

Keys == {KeyOf[n] : n \in 1 .. Len(Timeline)} \cup {NoKey}
Content == [tag : Keys, key : Keys, iv : Nat]
Line == [clip : Clips, tag : Keys, key : Keys, iv : Nat]

(* The entry with number n is content[n + 1], for all numbers given so far. *)
RewriteTypeOK ==
  /\ decrypt \in BOOLEAN
  /\ content \in Seq(Content)
  /\ Len(content) = nextSeq
  /\ lines \in [Players -> Seq(Line)]

RewriteInit ==
  /\ Init
  /\ decrypt \in DecryptSegments
  /\ content = <<>>
  /\ lines = [p \in Players |-> <<>>]

-----------------------------------------------------------------------------
(* A mutant of Parsed: currentIV is not counted on. *)
ParsedOneIV(p, n) ==
  [tag |-> IF ~decrypt /\ (n = poll[p].lo \/ KeyOf[n] # KeyOf[n - 1]) THEN KeyOf[n] ELSE NoKey,
   key |-> IF decrypt THEN KeyOf[n] ELSE NoKey,
   iv  |-> poll[p].lo]

(* A mutant of Parsed: the key tag goes to the segment before it. *)
ParsedTagBefore(p, n) ==
  [tag |-> IF ~decrypt /\ n < poll[p].hi /\ KeyOf[n] # KeyOf[n + 1] THEN KeyOf[n + 1] ELSE NoKey,
   key |-> IF decrypt THEN KeyOf[n] ELSE NoKey,
   iv  |-> n]

(* What the parser makes of the segment at position n, from the key tags   *)
(* the origin has written for this poll.  currentIV counts on from         *)
(* EXT-X-MEDIA-SEQUENCE, as every segment has a key.                       *)
Parsed(p, n) ==
  [tag |-> IF ~decrypt /\ (n = poll[p].lo \/ KeyOf[n] # KeyOf[n - 1]) THEN KeyOf[n] ELSE NoKey,
   key |-> IF decrypt THEN KeyOf[n] ELSE NoKey,
   iv  |-> IF decrypt THEN n ELSE poll[p].lo]

(* A new request.  The one before it has been rendered, or has failed on   *)
(* the way: a read of Tags that is torn by a merge may panic.              *)
FetchKeys(p) ==
  /\ Fetch(p)
  /\ lines' = [lines EXCEPT ![p] = <<>>]
  /\ UNCHANGED <<decrypt, content>>

(* A mutant: the parsed entry becomes an object of its own. *)
RefreshEntryAnew(p) ==
  /\ KeepEntry(p)
  /\ content' = Append(content, Parsed(p, poll[p].at))
  /\ UNCHANGED <<decrypt, lines>>

(* merge overwrites the fields of a known entry, whoever renders it ... *)
RefreshEntry(p) ==
  /\ KeepEntry(p)
  /\ LET n == poll[p].at
     IN  content' = [content EXCEPT ![segments[Timeline[n]] + 1] = Parsed(p, n)]
  /\ UNCHANGED <<decrypt, lines>>

(* ... and puts in the parsed entry itself when it is new. *)
InsertEntry(p) ==
  /\ AddEntry(p)
  /\ content' = Append(content, Parsed(p, poll[p].at))
  /\ UNCHANGED <<decrypt, lines>>

(* ModifyM3u8 renders the next entry of the list that merge returned. *)
Render(p) ==
  /\ pc[p] = "idle"
  /\ Len(lines[p]) < Len(served[p])
  /\ LET entry == served[p][Len(lines[p]) + 1]
         c == content[entry.seq + 1]
     IN  lines' = [lines EXCEPT ![p] =
                     Append(@, [clip |-> entry.clip, tag |-> c.tag, key |-> c.key, iv |-> c.iv])]
  /\ UNCHANGED <<vars, decrypt, content>>

RewriteNext ==
  \/ OriginAdvance /\ UNCHANGED <<decrypt, content, lines>>
  \/ \E p \in Players :
       \/ FetchKeys(p)
       \/ Lock(p) /\ UNCHANGED <<decrypt, content, lines>>
       \/ RefreshEntry(p) \/ InsertEntry(p)
       \/ Finish(p) /\ UNCHANGED <<decrypt, content, lines>>
       \/ Render(p)

RewriteSpec == RewriteInit /\ [][RewriteNext]_rewriteVars

-----------------------------------------------------------------------------
(* With DecryptSegments the line of a segment carries the key and the IV   *)
(* of that segment, through any number of merges by any players, also when *)
(* they overwrite the entry while it is rendered, and no key tag that      *)
(* would make the player decrypt it again.                                 *)
LineDecrypts ==
  \A p \in Players : \A i \in 1 .. Len(lines[p]) : decrypt =>
    /\ lines[p][i].tag = NoKey
    /\ \E n \in 1 .. Len(Timeline) :
         /\ lines[p][i].clip = Timeline[n]
         /\ lines[p][i].key = KeyOf[n]
         /\ lines[p][i].iv = n

(* Without it, the last key tag in front of a line, if there is one, is    *)
(* that of the line's own segment, although the tags were collected over   *)
(* many polls with windows of their own, and segments are missing between  *)
(* them.  (For one player.  When an older answer of another is merged late *)
(* the tag of a segment goes to one that now stands behind it.)            *)
KeyInForce ==
  \A p \in Players : \A i \in 1 .. Len(lines[p]) : \A j \in 1 .. i :
    (lines[p][j].tag # NoKey /\ \A k \in j + 1 .. i : lines[p][k].tag = NoKey)
      => \E n \in 1 .. Len(Timeline) :
           lines[p][i].clip = Timeline[n] /\ lines[p][j].tag = KeyOf[n]

(* Every list can be played from its beginning: its first segment has the  *)
(* key tag.                                                                *)
HeadHasKey == \A p \in Players : ~decrypt /\ lines[p] # <<>> => lines[p][1].tag # NoKey
=============================================================================
