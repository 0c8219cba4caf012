----------------------- MODULE ManifestRewriteProofs ------------------------
(***************************************************************************)
(* Theorems of ManifestRewrite, for any number of players, any channel     *)
(* that uses no URL again, any rotation of its key, any window and limit;  *)
(* those about the order and the key tags of a list are for one player and *)
(* a limit not below the window.                                           *)
(***************************************************************************)
EXTENDS ManifestRewrite, ManifestHistoryOrderProofs

(* An entry that decrypts the segment `clip'. *)
RightFor(c, clip) ==
  /\ c.tag = NoKey
  /\ \E n \in 1 .. Len(Timeline) : clip = Timeline[n] /\ c.key = KeyOf[n] /\ c.iv = n

(* The entry of every known segment, and of every segment in a list that   *)
(* may yet be rendered, decrypts it.                                       *)
KnownRight ==
  decrypt => \A clip \in DOMAIN segments :
    segments[clip] \in 0 .. nextSeq - 1 /\ RightFor(content[segments[clip] + 1], clip)

ListedRight ==
  decrypt => \A p \in Players : \A i \in 1 .. Len(served[p]) :
    /\ served[p][i].seq \in 0 .. nextSeq - 1
    /\ RightFor(content[served[p][i].seq + 1], served[p][i].clip)

WInv == HInv /\ ServedInv /\ RewriteTypeOK /\ KnownRight /\ ListedRight /\ LineDecrypts

-----------------------------------------------------------------------------
(* A step is a step of the history, or leaves it alone. *)
LEMMA RewriteStepIsHistoryStep == [RewriteNext]_rewriteVars => [Next]_vars
<1> SUFFICES ASSUME [RewriteNext]_rewriteVars PROVE [Next]_vars
  OBVIOUS
<1>1. ASSUME NEW p \in Players, Render(p) PROVE UNCHANGED vars
  BY <1>1 DEF Render
<1>2. ASSUME NEW p \in Players, FetchKeys(p) \/ Lock(p) \/ RefreshEntry(p) \/ InsertEntry(p) \/ Finish(p)
      PROVE  Next
  BY <1>2 DEF Next, Merge, FetchKeys, RefreshEntry, InsertEntry
<1>3. CASE OriginAdvance
  BY <1>3 DEF Next
<1>4. CASE UNCHANGED rewriteVars
  BY <1>4 DEF rewriteVars
<1> QED
  BY <1>1, <1>2, <1>3, <1>4 DEF RewriteNext

(* Keys, tags and lines do not interfere with merge: what is proved of the *)
(* history holds of the history that is rendered.                          *)
THEOREM RewriteImplementsHistory == RewriteSpec => Spec
<1>1. RewriteInit => Init
  BY DEF RewriteInit
<1> QED
  BY <1>1, RewriteStepIsHistoryStep, PTL DEF RewriteSpec, Spec

-----------------------------------------------------------------------------
(* The position a merge is at is one of the timeline, and what the parser  *)
(* makes of it decrypts its segment.                                       *)
LEMMA ParsedRight ==
  ASSUME HInv, RewriteTypeOK, NEW p \in Players, poll[p].at <= poll[p].hi
  PROVE  /\ poll[p].at \in 1 .. Len(Timeline)
         /\ Parsed(p, poll[p].at) \in Content
         /\ decrypt => RightFor(Parsed(p, poll[p].at), Timeline[poll[p].at])
<1>1. PICK n : n = poll[p].at
  OBVIOUS
<1>2. /\ n \in 1 .. Len(Timeline) /\ n \in Nat /\ poll[p].lo \in Nat
  <2>1. poll[p] \in [lo : Nat, hi : Nat, at : Nat]
    BY DEF HInv, TypeOK
  <2> QED
    BY <1>1, <2>1, HistoryAssumption, LenProperties DEF HInv, PollInTimeline
<1>3. KeyOf[n] \in Keys /\ NoKey \in Keys
  BY <1>2 DEF Keys
<1>4. Parsed(p, n) \in Content
  BY <1>2, <1>3 DEF Parsed, Content
<1>5. decrypt => RightFor(Parsed(p, n), Timeline[n])
  BY <1>2 DEF Parsed, RightFor
<1> QED
  BY <1>1, <1>2, <1>4, <1>5

(* The number of a known segment is one that was given, and it is that of  *)
(* no other segment, neither in the history nor in a list already served.  *)
LEMMA NumberNamesClip ==
  ASSUME HInv, ServedInv, NEW clip \in DOMAIN segments
  PROVE  /\ segments[clip] \in 0 .. nextSeq - 1
         /\ \A d \in DOMAIN segments : segments[d] = segments[clip] => d = clip
         /\ \A q \in Players : \A i \in 1 .. Len(served[q]) :
              served[q][i].seq = segments[clip] => served[q][i].clip = clip
<1>1. Len(order) \in Nat /\ nextSeq \in Nat /\ DOMAIN order = 1 .. Len(order)
  BY LenProperties DEF HInv, TypeOK
<1>2. \A d \in DOMAIN segments : \E j \in 1 .. Len(order) :
        d = order[j] /\ segments[d] = nextSeq - Len(order) + j - 1 /\ segments[d] \in Nat
  BY <1>1 DEF HInv, TypeOK, HistoryConsistent, Range
<1>3. PICK j \in 1 .. Len(order) :
        clip = order[j] /\ segments[clip] = nextSeq - Len(order) + j - 1 /\ segments[clip] \in Nat
  BY <1>2
<1>4. segments[clip] \in 0 .. nextSeq - 1
  BY <1>1, <1>3
<1>5. ASSUME NEW d \in DOMAIN segments, segments[d] = segments[clip]
      PROVE  d = clip
  <2>1. PICK k \in 1 .. Len(order) : d = order[k] /\ segments[d] = nextSeq - Len(order) + k - 1
    BY <1>2
  <2>2. k = j
    BY <1>1, <1>3, <1>5, <2>1
  <2> QED
    BY <1>3, <2>1, <2>2
<1>6. ASSUME NEW q \in Players, NEW i \in 1 .. Len(served[q]), served[q][i].seq = segments[clip]
      PROVE  served[q][i].clip = clip
  <2>1. served[q][i].seq >= nextSeq - Len(order) =>
          order[served[q][i].seq - (nextSeq - Len(order)) + 1] = served[q][i].clip
    BY DEF ServedInv, ListInv
  <2>2. served[q][i].seq >= nextSeq - Len(order) /\ served[q][i].seq - (nextSeq - Len(order)) + 1 = j
    BY <1>1, <1>3, <1>6
  <2> QED
    BY <1>3, <2>1, <2>2
<1> QED
  BY <1>4, <1>5, <1>6

-----------------------------------------------------------------------------
(* The entries of what is known and of what is listed, when content is     *)
(* written at one place only, `at', with what decrypts the segment that is *)
(* there.                                                                  *)
LEMMA WriteRight ==
  ASSUME WInv, decrypt, NEW at \in 1 .. nextSeq, NEW c, NEW clip, RightFor(c, clip),
         NEW new, \A i \in 1 .. nextSeq : new[i] = IF i = at THEN c ELSE content[i],
         \A d \in DOMAIN segments : segments[d] + 1 = at => d = clip,
         \A q \in Players : \A i \in 1 .. Len(served[q]) :
           served[q][i].seq + 1 = at => served[q][i].clip = clip
  PROVE  /\ \A d \in DOMAIN segments : RightFor(new[segments[d] + 1], d)
         /\ \A q \in Players : \A i \in 1 .. Len(served[q]) :
              RightFor(new[served[q][i].seq + 1], served[q][i].clip)
<1>1. nextSeq \in Nat
  BY DEF WInv, HInv, TypeOK
<1>2. ASSUME NEW d \in DOMAIN segments
      PROVE  RightFor(new[segments[d] + 1], d)
  <2>1. PICK i : i = segments[d] + 1
    OBVIOUS
  <2>2. i \in 1 .. nextSeq /\ RightFor(content[i], d)
    BY <1>1, <2>1 DEF WInv, KnownRight
  <2>3. new[i] = IF i = at THEN c ELSE content[i]
    BY <2>2
  <2>4. i = at => d = clip
    BY <2>1
  <2> QED
    BY <2>1, <2>2, <2>3, <2>4
<1>3. ASSUME NEW q \in Players, NEW j \in 1 .. Len(served[q])
      PROVE  RightFor(new[served[q][j].seq + 1], served[q][j].clip)
  <2>1. PICK i : i = served[q][j].seq + 1
    OBVIOUS
  <2>2. i \in 1 .. nextSeq /\ RightFor(content[i], served[q][j].clip)
    BY <1>1, <2>1 DEF WInv, ListedRight
  <2>3. new[i] = IF i = at THEN c ELSE content[i]
    BY <2>2
  <2>4. i = at => served[q][j].clip = clip
    BY <2>1
  <2> QED
    BY <2>1, <2>2, <2>3, <2>4
<1> QED
  BY <1>2, <1>3

-----------------------------------------------------------------------------
(* A step that leaves the history's own part alone: numbers, content and   *)
(* lists.                                                                  *)
LEMMA EntriesAlone ==
  ASSUME WInv, UNCHANGED <<segments, nextSeq, served, decrypt, content>>
  PROVE  KnownRight' /\ ListedRight'
  BY DEF WInv, KnownRight, ListedRight, RightFor

(* A known entry is overwritten, perhaps while another handler renders it. *)
LEMMA RefreshEntryInv ==
  ASSUME WInv, NEW p \in Players, RefreshEntry(p)
  PROVE  RewriteTypeOK' /\ KnownRight' /\ ListedRight' /\ LineDecrypts'
<1>1. PICK n : n = poll[p].at
  OBVIOUS
<1>2. /\ n \in 1 .. Len(Timeline) /\ Parsed(p, n) \in Content
      /\ decrypt => RightFor(Parsed(p, n), Timeline[n])
  BY <1>1, ParsedRight DEF WInv, RefreshEntry, KeepEntry
<1>3. Timeline[n] \in DOMAIN segments
  BY <1>1 DEF RefreshEntry, KeepEntry
<1>4. PICK at : at = segments[Timeline[n]] + 1
  OBVIOUS
<1>5. /\ UNCHANGED <<segments, nextSeq, served, decrypt, lines>>
      /\ content' = [content EXCEPT ![at] = Parsed(p, n)]
  BY <1>1, <1>4 DEF RefreshEntry, KeepEntry
<1>6. nextSeq \in Nat /\ Len(content) = nextSeq /\ content \in Seq(Content)
  BY DEF WInv, HInv, TypeOK, RewriteTypeOK
<1>7. segments[Timeline[n]] \in 0 .. nextSeq - 1
  BY <1>3, NumberNamesClip DEF WInv
<1>8. at \in 1 .. nextSeq
  BY <1>4, <1>6, <1>7
<1>9. /\ content' \in Seq(Content) /\ Len(content') = nextSeq
      /\ \A i \in 1 .. nextSeq : content'[i] = IF i = at THEN Parsed(p, n) ELSE content[i]
  BY <1>2, <1>5, <1>6, <1>8, ExceptSeq
<1>10. RewriteTypeOK'
  BY <1>5, <1>9 DEF WInv, RewriteTypeOK
<1>11. \A d \in DOMAIN segments : segments[d] + 1 = at => d = Timeline[n]
  <2>1. \A d \in DOMAIN segments : segments[d] \in 0 .. nextSeq - 1
    BY NumberNamesClip DEF WInv
  <2>2. \A d \in DOMAIN segments : segments[d] = segments[Timeline[n]] => d = Timeline[n]
    BY <1>3, NumberNamesClip DEF WInv
  <2> QED
    BY <1>4, <1>6, <1>7, <2>1, <2>2
<1>12. decrypt => \A q \in Players : \A i \in 1 .. Len(served[q]) :
         served[q][i].seq + 1 = at => served[q][i].clip = Timeline[n]
  <2>1. decrypt => \A q \in Players : \A i \in 1 .. Len(served[q]) : served[q][i].seq \in 0 .. nextSeq - 1
    BY DEF WInv, ListedRight
  <2>2. \A q \in Players : \A i \in 1 .. Len(served[q]) :
          served[q][i].seq = segments[Timeline[n]] => served[q][i].clip = Timeline[n]
    BY <1>3, NumberNamesClip DEF WInv
  <2> QED
    BY <1>4, <1>6, <1>7, <2>1, <2>2
<1>13. decrypt =>
         /\ \A d \in DOMAIN segments : RightFor(content'[segments[d] + 1], d)
         /\ \A q \in Players : \A i \in 1 .. Len(served[q]) :
              RightFor(content'[served[q][i].seq + 1], served[q][i].clip)
  BY <1>2, <1>8, <1>9, <1>11, <1>12, WriteRight
<1>14. KnownRight' /\ ListedRight'
  BY <1>5, <1>13 DEF WInv, KnownRight, ListedRight, RightFor
<1> QED
  BY <1>5, <1>10, <1>14 DEF WInv, LineDecrypts

(* A new entry gets the next number. *)
LEMMA InsertEntryInv ==
  ASSUME WInv, NEW p \in Players, InsertEntry(p)
  PROVE  RewriteTypeOK' /\ KnownRight' /\ ListedRight' /\ LineDecrypts'
<1>1. PICK n : n = poll[p].at
  OBVIOUS
<1>2. /\ n \in 1 .. Len(Timeline) /\ Parsed(p, n) \in Content
      /\ decrypt => RightFor(Parsed(p, n), Timeline[n])
  BY <1>1, ParsedRight DEF WInv, InsertEntry, AddEntry
<1>3. /\ UNCHANGED <<served, decrypt, lines>>
      /\ content' = Append(content, Parsed(p, n))
      /\ nextSeq' = nextSeq + 1
      /\ segments' = [c \in DOMAIN segments \cup {Timeline[n]} |->
                        IF c = Timeline[n] THEN nextSeq ELSE segments[c]]
  BY <1>1 DEF InsertEntry, AddEntry
<1>4. nextSeq \in Nat /\ Len(content) = nextSeq /\ content \in Seq(Content)
  BY DEF WInv, HInv, TypeOK, RewriteTypeOK
<1>5. /\ content' \in Seq(Content) /\ Len(content') = nextSeq + 1
      /\ \A i \in 1 .. nextSeq : content'[i] = content[i]
      /\ content'[nextSeq + 1] = Parsed(p, n)
  BY <1>2, <1>3, <1>4, AppendProperties
<1>6. RewriteTypeOK'
  BY <1>3, <1>5 DEF WInv, RewriteTypeOK
<1>7. ASSUME decrypt, NEW d \in DOMAIN segments'
      PROVE  segments'[d] \in 0 .. nextSeq' - 1 /\ RightFor(content'[segments'[d] + 1], d)
  <2>1. CASE d = Timeline[n]
    <3>1. segments'[d] = nextSeq /\ content'[segments'[d] + 1] = Parsed(p, n)
      BY <1>3, <1>5, <2>1
    <3> QED
      BY <1>2, <1>3, <1>4, <1>7, <2>1, <3>1
  <2>2. CASE d # Timeline[n]
    <3>1. PICK i : i = segments[d]
      OBVIOUS
    <3>2. d \in DOMAIN segments /\ segments'[d] = i
      BY <1>3, <2>2, <3>1
    <3>3. i \in 0 .. nextSeq - 1 /\ RightFor(content[i + 1], d)
      BY <1>7, <3>1, <3>2 DEF WInv, KnownRight
    <3>4. content'[i + 1] = content[i + 1] /\ i \in 0 .. nextSeq' - 1
      BY <1>3, <1>4, <1>5, <3>3
    <3> QED
      BY <3>2, <3>3, <3>4
  <2> QED
    BY <2>1, <2>2
<1>8. ASSUME decrypt, NEW q \in Players, NEW j \in 1 .. Len(served[q])
      PROVE  /\ served[q][j].seq \in 0 .. nextSeq' - 1
             /\ RightFor(content'[served[q][j].seq + 1], served[q][j].clip)
  <2>1. PICK i : i = served[q][j].seq
    OBVIOUS
  <2>2. i \in 0 .. nextSeq - 1 /\ RightFor(content[i + 1], served[q][j].clip)
    BY <1>8, <2>1 DEF WInv, ListedRight
  <2>3. content'[i + 1] = content[i + 1] /\ i \in 0 .. nextSeq' - 1
    BY <1>3, <1>4, <1>5, <2>2
  <2> QED
    BY <2>1, <2>2, <2>3
<1>9. KnownRight' /\ ListedRight'
  <2>1. KnownRight'
    BY <1>3, <1>7 DEF KnownRight, RightFor
  <2>2. ListedRight'
    BY <1>3, <1>8 DEF ListedRight, RightFor
  <2> QED
    BY <2>1, <2>2
<1> QED
  BY <1>3, <1>6, <1>9 DEF WInv, LineDecrypts

(* The list merge returns consists of known entries. *)
LEMMA FinishInv ==
  ASSUME WInv, NEW p \in Players, Finish(p), UNCHANGED <<decrypt, content, lines>>
  PROVE  RewriteTypeOK' /\ KnownRight' /\ ListedRight' /\ LineDecrypts'
<1>1. /\ segments' = Restrict(segments, DOMAIN segments \ {order[i] : i \in 1 .. Drop})
      /\ nextSeq' = nextSeq
      /\ served' = [served EXCEPT ![p] =
                      [i \in 1 .. Len(order') |-> [clip |-> order'[i], seq |-> segments[order'[i]]]]]
  BY DEF Finish
<1>2. RewriteTypeOK'
  BY <1>1 DEF WInv, RewriteTypeOK
<1>3. KnownRight'
  BY <1>1 DEF WInv, KnownRight, RightFor, Restrict
<1>4. \A i \in 1 .. Len(order') : order'[i] \in DOMAIN segments
  <2>1. /\ Len(order') = Len(order) - Drop /\ Drop \in 0 .. Len(order)
        /\ \A i \in 1 .. Len(order') : order'[i] = order[Drop + i]
    BY FinishEffect DEF WInv
  <2>2. Len(order) \in Nat /\ DOMAIN order = 1 .. Len(order)
    BY LenProperties DEF WInv, HInv, TypeOK
  <2>3. DOMAIN segments = Range(order)
    BY DEF WInv, HInv, HistoryConsistent
  <2> QED
    BY <2>1, <2>2, <2>3 DEF Range
<1>5. ASSUME decrypt, NEW q \in Players, NEW j \in 1 .. Len(served'[q])
      PROVE  /\ served'[q][j].seq \in 0 .. nextSeq - 1
             /\ RightFor(content[served'[q][j].seq + 1], served'[q][j].clip)
  <2>1. CASE q = p
    <3>1. served'[q] = [i \in 1 .. Len(order') |-> [clip |-> order'[i], seq |-> segments[order'[i]]]]
      BY <1>1, <2>1 DEF WInv, HInv, TypeOK
    <3>2. Len(order') \in Nat
      BY FinishEffect, LenProperties DEF WInv
    <3>3. j \in 1 .. Len(order')
      BY <1>5, <3>1, <3>2
    <3> QED
      BY <1>4, <1>5, <3>1, <3>3 DEF WInv, KnownRight
  <2>2. CASE q # p
    BY <1>1, <1>5, <2>2 DEF WInv, HInv, TypeOK, ListedRight
  <2> QED
    BY <2>1, <2>2
<1>6. ListedRight'
  BY <1>1, <1>5 DEF ListedRight, RightFor
<1> QED
  BY <1>2, <1>3, <1>6 DEF WInv, LineDecrypts

(* A line is rendered from an entry as it is then, which may be newer than *)
(* the list.                                                               *)
LEMMA RenderInv ==
  ASSUME WInv, NEW p \in Players, Render(p)
  PROVE  RewriteTypeOK' /\ KnownRight' /\ ListedRight' /\ LineDecrypts'
<1>1. PICK i : i = Len(lines[p]) + 1
  OBVIOUS
<1>2. lines[p] \in Seq(Line) /\ Len(lines[p]) \in Nat /\ served[p] \in Seq(Entry) /\ Len(served[p]) \in Nat
  BY LenProperties DEF WInv, RewriteTypeOK, HInv, TypeOK
<1>3. i \in 1 .. Len(served[p])
  BY <1>1, <1>2 DEF Render
<1>4. PICK at : at = served[p][i].seq + 1
  OBVIOUS
<1>5. PICK c : c = content[at]
  OBVIOUS
<1>6. c \in Content /\ served[p][i].clip \in Clips
  <2>1. served[p][i] \in Entry
    BY <1>2, <1>3, ElementOfSeq
  <2>2. served[p][i].seq < nextSeq /\ nextSeq \in Nat /\ Len(content) = nextSeq
    BY <1>3 DEF WInv, ServedInv, ListInv, HInv, TypeOK, RewriteTypeOK
  <2>3. at \in 1 .. Len(content)
    BY <1>4, <2>1, <2>2 DEF Entry
  <2>4. content[at] \in Content
    BY <2>3, ElementOfSeq DEF WInv, RewriteTypeOK
  <2> QED
    BY <1>5, <2>1, <2>4 DEF Entry
<1>7. PICK line : line = [clip |-> served[p][i].clip, tag |-> c.tag, key |-> c.key, iv |-> c.iv]
  OBVIOUS
<1>8. line \in Line
  BY <1>6, <1>7 DEF Content, Line
<1>9. /\ lines' = [lines EXCEPT ![p] = Append(lines[p], line)]
      /\ UNCHANGED <<vars, decrypt, content>>
  BY <1>1, <1>2, <1>4, <1>5, <1>7 DEF Render
<1>10. /\ Append(lines[p], line) \in Seq(Line)
       /\ Len(Append(lines[p], line)) = Len(lines[p]) + 1
       /\ \A j \in 1 .. Len(lines[p]) : Append(lines[p], line)[j] = lines[p][j]
       /\ Append(lines[p], line)[Len(lines[p]) + 1] = line
  BY <1>2, <1>8, AppendProperties
<1>11. lines'[p] = Append(lines[p], line) /\ \A q \in Players : q # p => lines'[q] = lines[q]
  BY <1>9 DEF WInv, RewriteTypeOK
<1>12. RewriteTypeOK'
  BY <1>9, <1>10 DEF WInv, RewriteTypeOK, vars
<1>13. KnownRight' /\ ListedRight'
  BY <1>9, EntriesAlone DEF vars
<1>14. decrypt => line.tag = NoKey /\ \E n \in 1 .. Len(Timeline) :
         line.clip = Timeline[n] /\ line.key = KeyOf[n] /\ line.iv = n
  BY <1>3, <1>4, <1>5, <1>7 DEF WInv, ListedRight, RightFor
<1>15. ASSUME decrypt, NEW q \in Players, NEW j \in 1 .. Len(lines'[q])
       PROVE  /\ lines'[q][j].tag = NoKey
              /\ \E n \in 1 .. Len(Timeline) :
                   lines'[q][j].clip = Timeline[n] /\ lines'[q][j].key = KeyOf[n] /\ lines'[q][j].iv = n
  <2>1. CASE q = p /\ j = Len(lines[p]) + 1
    BY <1>10, <1>11, <1>14, <1>15, <2>1
  <2>2. CASE q = p /\ j # Len(lines[p]) + 1
    <3>1. j \in 1 .. Len(lines[p]) /\ lines'[q][j] = lines[p][j]
      BY <1>2, <1>10, <1>11, <1>15, <2>2
    <3> QED
      BY <1>15, <2>2, <3>1 DEF WInv, LineDecrypts
  <2>3. CASE q # p
    <3>1. lines'[q] = lines[q] /\ j \in 1 .. Len(lines[q])
      BY <1>11, <1>15, <2>3
    <3> QED
      BY <1>15, <3>1 DEF WInv, LineDecrypts
  <2> QED
    BY <2>1, <2>2, <2>3
<1>16. LineDecrypts'
  BY <1>9, <1>15 DEF LineDecrypts
<1> QED
  BY <1>12, <1>13, <1>16

-----------------------------------------------------------------------------
(* Nothing is listed at first. *)
LEMMA RewriteInitInv == RewriteInit => WInv
<1> SUFFICES ASSUME RewriteInit PROVE WInv
  OBVIOUS
<1>1. HInv /\ ServedInv
  BY HistoryInit, ServedInit DEF RewriteInit
<1>2. \A p \in Players : Len(served[p]) = 0 /\ Len(lines[p]) = 0
  BY EmptySeq DEF RewriteInit, Init
<1>3. RewriteTypeOK
  BY RewriteAssumption, EmptySeq DEF RewriteInit, Init, RewriteTypeOK
<1>4. KnownRight
  BY DEF RewriteInit, Init, KnownRight
<1>5. ListedRight /\ LineDecrypts
  BY <1>2 DEF ListedRight, LineDecrypts
<1> QED
  BY <1>1, <1>3, <1>4, <1>5 DEF WInv

(* Every step keeps the invariant. *)
LEMMA RewriteStep == WInv /\ [RewriteNext]_rewriteVars => WInv'
<1> SUFFICES ASSUME WInv, [RewriteNext]_rewriteVars PROVE WInv'
  OBVIOUS
<1>1. HInv' /\ ServedInv'
  BY RewriteStepIsHistoryStep, HistoryStep, ServedStep DEF WInv
<1>2. ASSUME UNCHANGED <<segments, nextSeq, served, decrypt, content, lines>>
      PROVE  RewriteTypeOK' /\ KnownRight' /\ ListedRight' /\ LineDecrypts'
  BY <1>2, EntriesAlone DEF WInv, RewriteTypeOK, LineDecrypts
<1>3. ASSUME NEW p \in Players, FetchKeys(p)
      PROVE  RewriteTypeOK' /\ KnownRight' /\ ListedRight' /\ LineDecrypts'
  <2>1. /\ UNCHANGED <<segments, nextSeq, served, decrypt, content>>
        /\ lines' = [lines EXCEPT ![p] = <<>>]
    BY <1>3 DEF FetchKeys, Fetch
  <2>2. RewriteTypeOK'
    BY <2>1, EmptySeq DEF WInv, RewriteTypeOK
  <2>3. ASSUME NEW q \in Players
        PROVE  lines'[q] = lines[q] \/ Len(lines'[q]) = 0
    BY <2>1, EmptySeq DEF WInv, RewriteTypeOK
  <2>4. LineDecrypts'
    BY <2>1, <2>3 DEF WInv, LineDecrypts
  <2> QED
    BY <2>1, <2>2, <2>4, EntriesAlone
<1>4. RewriteTypeOK' /\ KnownRight' /\ ListedRight' /\ LineDecrypts'
  <2>1. CASE UNCHANGED rewriteVars
    BY <1>2, <2>1 DEF rewriteVars, vars
  <2>2. CASE OriginAdvance /\ UNCHANGED <<decrypt, content, lines>>
    BY <1>2, <2>2 DEF OriginAdvance
  <2>3. ASSUME NEW p \in Players, Lock(p) /\ UNCHANGED <<decrypt, content, lines>>
        PROVE  RewriteTypeOK' /\ KnownRight' /\ ListedRight' /\ LineDecrypts'
    BY <1>2, <2>3 DEF Lock
  <2> QED
    BY <1>3, <2>1, <2>2, <2>3, RefreshEntryInv, InsertEntryInv, FinishInv, RenderInv DEF RewriteNext
<1> QED
  BY <1>1, <1>4 DEF WInv

-----------------------------------------------------------------------------
(* Every variable keeps its type: an entry for every number, no more.      *)
THEOREM RewriteTypeCorrect == RewriteSpec => []RewriteTypeOK
<1>1. WInv => RewriteTypeOK
  BY DEF WInv
<1> QED
  BY <1>1, RewriteInitInv, RewriteStep, PTL DEF RewriteSpec

(* No interleaving of merging and rendering gives a segment the key or the *)
(* IV of another one.                                                      *)
THEOREM LinesDecrypt == RewriteSpec => []LineDecrypts
<1>1. WInv => LineDecrypts
  BY DEF WInv
<1> QED
  BY <1>1, RewriteInitInv, RewriteStep, PTL DEF RewriteSpec

-----------------------------------------------------------------------------
(* So the list that is rendered for a single player is in broadcast order  *)
(* and ends with the origin's window.                                      *)
THEOREM RewrittenInBroadcastOrder ==
  ASSUME OnePlayer, RoomForWindow
  PROVE  RewriteSpec => [](InBroadcastOrder /\ TailMatchesOrigin)
<1>1. DistinctClips
  BY RewriteAssumption DEF DistinctClips
<1>2. Spec => []InBroadcastOrder
  BY <1>1, ListInBroadcastOrder
<1>3. Spec => []TailMatchesOrigin
  BY <1>1, TailIsOrigins
<1> QED
  BY <1>2, <1>3, RewriteImplementsHistory, PTL

-----------------------------------------------------------------------------
(* Without DecryptSegments, and for one player: the key tags of the        *)
(* history, oldest entry first, and the keys its segments really have.     *)
Position(clip) == CHOOSE n \in 1 .. Len(Timeline) : Timeline[n] = clip

Tags == [i \in 1 .. Len(order) |-> content[nextSeq - Len(order) + i].tag]
SegmentKeys == [i \in 1 .. Len(order) |-> KeyOf[Position(order[i])]]

(* Segments with no tag between them have one key.  (The first of them may *)
(* have a tag or none.)                                                    *)
OneKeyBetweenTags(tags, keys, len) ==
  \A i \in 1 .. len : \A j \in 1 .. i - 1 :
    (\A k \in j + 1 .. i : tags[k] = NoKey) => keys[j] = keys[i]

(* That is what the tags guarantee, with windows and gaps of any kind: a   *)
(* segment is left without a tag only when its poll also listed the one    *)
(* before it, and then the history has that one right before it, too.      *)
HistoryTagged ==
  ~decrypt => /\ \A i \in 1 .. Len(order) : Tags[i] \in {NoKey, SegmentKeys[i]}
              /\ OneKeyBetweenTags(Tags, SegmentKeys, Len(order))

(* What the only player is given is the history, as it still is while its  *)
(* list is rendered.                                                       *)
LinesShowHistory ==
  ~decrypt => \A p \in Players :
    /\ pc[p] # "idle" => Len(lines[p]) = 0
    /\ pc[p] = "idle" => /\ Len(served[p]) = Len(order)
                         /\ \A i \in 1 .. Len(order) :
                              /\ served[p][i].clip = order[i]
                              /\ served[p][i].seq = nextSeq - Len(order) + i - 1
                         /\ Len(lines[p]) <= Len(order)
                         /\ \A i \in 1 .. Len(lines[p]) :
                              /\ lines[p][i].clip = order[i]
                              /\ lines[p][i].tag = Tags[i]

KInv == WInv /\ OrderInv /\ HistoryTagged /\ LinesShowHistory

-----------------------------------------------------------------------------
(* A tag is written or taken away: it may be taken away where the segment  *)
(* before has the same key.                                                *)
LEMMA OneTagWritten ==
  ASSUME NEW len \in Nat, NEW at \in 1 .. len, NEW tags, NEW new, NEW keys,
         OneKeyBetweenTags(tags, keys, len),
         \A i \in 1 .. len : i # at => new[i] = tags[i],
         new[at] = NoKey => keys[at - 1] = keys[at]
  PROVE  OneKeyBetweenTags(new, keys, len)
<1> SUFFICES ASSUME NEW i \in 1 .. len, NEW j \in 1 .. i - 1,
                    \A k \in j + 1 .. i : new[k] = NoKey
             PROVE  keys[j] = keys[i]
  BY DEF OneKeyBetweenTags
<1>1. CASE at \notin j + 1 .. i
  BY <1>1 DEF OneKeyBetweenTags
<1>2. CASE at \in j + 1 .. i
  <2>1. keys[at - 1] = keys[at]
    BY <1>2
  <2>2. keys[j] = keys[at - 1]
    <3>1. CASE j = at - 1
      BY <3>1
    <3>2. CASE j # at - 1
      <4>1. at - 1 \in 1 .. len /\ j \in 1 .. (at - 1) - 1
        BY <1>2, <3>2
      <4>2. \A k \in j + 1 .. at - 1 : tags[k] = NoKey
        BY <1>2
      <4> QED
        BY <4>1, <4>2 DEF OneKeyBetweenTags
    <3> QED
      BY <3>1, <3>2
  <2>3. keys[at] = keys[i]
    <3>1. CASE i = at
      BY <3>1
    <3>2. CASE i # at
      <4>1. at \in 1 .. i - 1
        BY <1>2, <3>2
      <4>2. \A k \in at + 1 .. i : tags[k] = NoKey
        BY <1>2
      <4> QED
        BY <4>1, <4>2 DEF OneKeyBetweenTags
    <3> QED
      BY <3>1, <3>2
  <2> QED
    BY <2>1, <2>2, <2>3
<1> QED
  BY <1>1, <1>2

(* A segment is appended: without a tag if it has the key of the last one. *)
LEMMA OneTagAppended ==
  ASSUME NEW len \in Nat, NEW tags, NEW keys, NEW newTags, NEW newKeys,
         OneKeyBetweenTags(tags, keys, len),
         \A i \in 1 .. len : newTags[i] = tags[i] /\ newKeys[i] = keys[i],
         newTags[len + 1] = NoKey => newKeys[len] = newKeys[len + 1]
  PROVE  OneKeyBetweenTags(newTags, newKeys, len + 1)
<1> SUFFICES ASSUME NEW i \in 1 .. len + 1, NEW j \in 1 .. i - 1,
                    \A k \in j + 1 .. i : newTags[k] = NoKey
             PROVE  newKeys[j] = newKeys[i]
  BY DEF OneKeyBetweenTags
<1>1. ASSUME NEW n \in 1 .. len, j < n, \A k \in j + 1 .. n : newTags[k] = NoKey
      PROVE  newKeys[j] = newKeys[n]
  <2>1. j \in 1 .. n - 1 /\ j \in 1 .. len
    BY <1>1
  <2>2. \A k \in j + 1 .. n : tags[k] = NoKey
    BY <1>1
  <2>3. keys[j] = keys[n]
    BY <2>1, <2>2 DEF OneKeyBetweenTags
  <2> QED
    BY <2>1, <2>3
<1>2. CASE i # len + 1
  BY <1>1, <1>2
<1>3. CASE i = len + 1
  <2>1. newKeys[len] = newKeys[i]
    BY <1>3
  <2>2. CASE j = len
    BY <2>1, <2>2
  <2>3. CASE j # len
    <3>1. len \in 1 .. len /\ j < len
      BY <1>3, <2>3
    <3> QED
      BY <1>1, <1>3, <2>1, <3>1
  <2> QED
    BY <2>2, <2>3
<1> QED
  BY <1>2, <1>3

(* The oldest segments leave.                                              *)
LEMMA OldTagsDropped ==
  ASSUME NEW len \in Nat, NEW drop \in 0 .. len, NEW tags, NEW keys, NEW newTags, NEW newKeys,
         OneKeyBetweenTags(tags, keys, len),
         \A i \in 1 .. len - drop : newTags[i] = tags[drop + i] /\ newKeys[i] = keys[drop + i]
  PROVE  OneKeyBetweenTags(newTags, newKeys, len - drop)
<1> SUFFICES ASSUME NEW i \in 1 .. len - drop, NEW j \in 1 .. i - 1,
                    \A k \in j + 1 .. i : newTags[k] = NoKey
             PROVE  newKeys[j] = newKeys[i]
  BY DEF OneKeyBetweenTags
<1>1. drop + i \in 1 .. len /\ drop + j \in 1 .. (drop + i) - 1
  OBVIOUS
<1>2. ASSUME NEW k \in drop + j + 1 .. drop + i
      PROVE  tags[k] = NoKey
  <2>1. k - drop \in j + 1 .. i /\ k - drop \in 1 .. len - drop /\ drop + (k - drop) = k
    OBVIOUS
  <2> QED
    BY <2>1
<1>3. keys[drop + j] = keys[drop + i]
  BY <1>1, <1>2 DEF OneKeyBetweenTags
<1> QED
  BY <1>3

-----------------------------------------------------------------------------
(* No URL is used again, so that each has one position.                    *)
LEMMA PositionIs ==
  ASSUME NEW n \in 1 .. Len(Timeline)
  PROVE  Position(Timeline[n]) = n
<1>1. Position(Timeline[n]) \in 1 .. Len(Timeline) /\ Timeline[Position(Timeline[n])] = Timeline[n]
  BY DEF Position
<1> QED
  BY <1>1, RewriteAssumption

(* The entries of the history are the last ones of content.                *)
LEMMA HistoryIsLast ==
  ASSUME HInv, RewriteTypeOK
  PROVE  /\ Len(order) \in Nat /\ nextSeq \in Nat /\ Len(order) <= nextSeq
         /\ content \in Seq(Content) /\ Len(content) = nextSeq
         /\ order \in Seq(Clips) /\ DOMAIN order = 1 .. Len(order)
<1>1. /\ Len(order) \in Nat /\ nextSeq \in Nat
      /\ content \in Seq(Content) /\ Len(content) = nextSeq
      /\ order \in Seq(Clips) /\ DOMAIN order = 1 .. Len(order)
  BY LenProperties DEF HInv, TypeOK, RewriteTypeOK
<1>2. CASE Len(order) = 0
  BY <1>1, <1>2
<1>3. CASE Len(order) # 0
  <2>1. 1 \in 1 .. Len(order)
    BY <1>1, <1>3
  <2>2. order[1] \in DOMAIN segments /\ segments[order[1]] = nextSeq - Len(order) + 1 - 1
    BY <1>1, <2>1 DEF HInv, HistoryConsistent, Range
  <2>3. segments[order[1]] \in Nat
    BY <2>2 DEF HInv, TypeOK
  <2> QED
    BY <1>1, <2>2, <2>3
<1> QED
  BY <1>1, <1>2, <1>3

(* Every segment of the history has its position.                          *)
LEMMA OrderPositions ==
  ASSUME HInv, OrderInv, NEW p \in Players, NEW i \in 1 .. Len(order)
  PROVE  Position(order[i]) \in 1 .. Len(Timeline) /\ order[i] = Timeline[Position(order[i])]
<1>1. PICK l \in Nat : EndsAt(p, l) /\ PollAhead(p, l)
  BY DEF OrderInv
<1>2. PICK n \in 1 .. l : order[i] = Timeline[n]
  BY <1>1 DEF EndsAt
<1>3. n \in 1 .. Len(Timeline)
  <2>1. poll[p].hi \in Nat /\ head \in Nat /\ head <= Len(Timeline) /\ Len(Timeline) \in Nat
    BY HistoryAssumption, LenProperties DEF HInv, TypeOK
  <2> QED
    BY <1>1, <1>2, <2>1 DEF PollAhead
<1> QED
  BY <1>2, <1>3, PositionIs

(* A segment is parsed without a tag only when the segment before it is in *)
(* the same poll, and has the same key.                                    *)
LEMMA ParsedTag ==
  ASSUME ~decrypt, NEW p \in Players, NEW n \in 1 .. Len(Timeline), n = poll[p].at
  PROVE  /\ Parsed(p, n).tag \in {NoKey, KeyOf[n]}
         /\ Parsed(p, n).tag = NoKey => n # poll[p].lo /\ KeyOf[n - 1] = KeyOf[n]
  BY RewriteAssumption DEF Parsed

-----------------------------------------------------------------------------
(* A known segment: where it stands in the history, and the one its poll   *)
(* lists before it stands before it.                                       *)
LEMMA RefreshEntryTags ==
  ASSUME KInv, ~decrypt, OnePlayer, NEW p \in Players, RefreshEntry(p)
  PROVE  HistoryTagged' /\ LinesShowHistory'
<1>1. PICK l \in Nat : EndsAt(p, l) /\ PollAhead(p, l)
  BY DEF KInv, OrderInv
<1>2. /\ Len(order) \in Nat /\ nextSeq \in Nat /\ Len(order) <= nextSeq
      /\ content \in Seq(Content) /\ Len(content) = nextSeq
      /\ DOMAIN order = 1 .. Len(order)
      /\ poll[p] \in [lo : Nat, hi : Nat, at : Nat]
  BY HistoryIsLast DEF KInv, WInv, HInv, TypeOK
<1>3. KeepEntry(p) /\ pc[p] = "merging"
  BY DEF RefreshEntry, KeepEntry
<1>4. PICK n \in Nat : n = poll[p].at
  BY <1>2
<1>5. /\ n \in 1 .. Len(Timeline) /\ Parsed(p, n) \in Content
      /\ poll[p].lo >= 1 /\ poll[p].lo <= n /\ n <= l
  <2>1. n <= l
    BY <1>1, <1>3, <1>4, KnownWasMerged, RewriteAssumption DEF KInv, WInv, KeepEntry, DistinctClips
  <2>2. n \in 1 .. Len(Timeline) /\ Parsed(p, n) \in Content
    BY <1>3, <1>4, ParsedRight DEF KInv, WInv, KeepEntry
  <2> QED
    BY <1>1, <1>4, <2>1, <2>2 DEF PollAhead, KInv, WInv, HInv, PollInTimeline
<1>6. PICK at \in 1 .. Len(order) : at = Len(order) - (l - n) /\ order[at] = Timeline[n]
  <2>1. n \in poll[p].lo .. l
    BY <1>2, <1>5
  <2>2. l - n < Len(order) /\ order[Len(order) - (l - n)] = Timeline[n]
    BY <1>1, <2>1 DEF EndsAt
  <2> QED
    BY <1>2, <1>5, <2>2
<1>7. Parsed(p, n).tag = NoKey => SegmentKeys[at - 1] = SegmentKeys[at]
  <2>1. SUFFICES ASSUME n # poll[p].lo, KeyOf[n - 1] = KeyOf[n]
                 PROVE  SegmentKeys[at - 1] = SegmentKeys[at]
    BY <1>4, <1>5, ParsedTag
  <2>2. n - 1 \in poll[p].lo .. l /\ n - 1 \in 1 .. Len(Timeline)
    BY <1>2, <1>5, <2>1
  <2>3. l - (n - 1) < Len(order) /\ order[Len(order) - (l - (n - 1))] = Timeline[n - 1]
    BY <1>1, <2>2 DEF EndsAt
  <2>4. Len(order) - (l - (n - 1)) = at - 1 /\ at - 1 \in 1 .. Len(order)
    BY <1>2, <1>6, <2>3
  <2>5. Position(order[at - 1]) = n - 1 /\ Position(order[at]) = n
    BY <1>5, <1>6, <2>2, <2>3, <2>4, PositionIs
  <2> QED
    BY <1>6, <2>1, <2>4, <2>5 DEF SegmentKeys
<1>8. /\ UNCHANGED <<segments, order, nextSeq, served, decrypt, lines, pc>>
      /\ content' = [content EXCEPT ![nextSeq - Len(order) + at] = Parsed(p, n)]
  <2>1. segments[Timeline[n]] + 1 = nextSeq - Len(order) + at
    BY <1>2, <1>6 DEF KInv, WInv, HInv, HistoryConsistent
  <2> QED
    BY <1>4, <2>1 DEF RefreshEntry, KeepEntry
<1>9. \A i \in 1 .. nextSeq :
        content'[i] = IF i = nextSeq - Len(order) + at THEN Parsed(p, n) ELSE content[i]
  BY <1>2, <1>5, <1>6, <1>8, ExceptSeq
<1>10. \A i \in 1 .. Len(order) : Tags'[i] = IF i = at THEN Parsed(p, n).tag ELSE Tags[i]
  <2>1. ASSUME NEW i \in 1 .. Len(order)
        PROVE  Tags'[i] = IF i = at THEN Parsed(p, n).tag ELSE Tags[i]
    <3>1. nextSeq - Len(order) + i \in 1 .. nextSeq
      BY <1>2
    <3>2. Tags'[i] = content'[nextSeq - Len(order) + i].tag
      BY <1>8 DEF Tags
    <3>3. i # at => nextSeq - Len(order) + i # nextSeq - Len(order) + at
      BY <1>2
    <3> QED
      BY <1>9, <3>1, <3>2, <3>3 DEF Tags
  <2> QED
    BY <2>1
<1>11. SegmentKeys' = SegmentKeys
  BY <1>8 DEF SegmentKeys
<1>12. SegmentKeys[at] = KeyOf[n]
  BY <1>5, <1>6, PositionIs DEF SegmentKeys
<1>13. OneKeyBetweenTags(Tags', SegmentKeys, Len(order))
  <2>1. OneKeyBetweenTags(Tags, SegmentKeys, Len(order))
    BY DEF KInv, HistoryTagged
  <2> QED
    BY <1>2, <1>7, <1>10, <2>1, OneTagWritten
<1>14. \A i \in 1 .. Len(order) : Tags'[i] \in {NoKey, SegmentKeys[i]}
  <2>1. Parsed(p, n).tag \in {NoKey, KeyOf[n]}
    BY <1>4, <1>5, ParsedTag
  <2> QED
    BY <1>10, <1>12, <2>1 DEF KInv, HistoryTagged
<1>15. HistoryTagged'
  BY <1>8, <1>11, <1>13, <1>14 DEF HistoryTagged
<1>16. \A q \in Players : q = p
  BY DEF OnePlayer
<1>17. LinesShowHistory'
  BY <1>3, <1>8, <1>16 DEF KInv, LinesShowHistory
<1> QED
  BY <1>15, <1>17

(* A new segment: without a tag it is the next one, and the one before it  *)
(* is the last of the history.                                             *)
LEMMA InsertEntryTags ==
  ASSUME KInv, ~decrypt, OnePlayer, NEW p \in Players, InsertEntry(p)
  PROVE  HistoryTagged' /\ LinesShowHistory'
<1>1. PICK l \in Nat : EndsAt(p, l) /\ PollAhead(p, l)
  BY DEF KInv, OrderInv
<1>2. /\ Len(order) \in Nat /\ nextSeq \in Nat /\ Len(order) <= nextSeq
      /\ content \in Seq(Content) /\ Len(content) = nextSeq
      /\ order \in Seq(Clips)
      /\ poll[p] \in [lo : Nat, hi : Nat, at : Nat]
  BY HistoryIsLast DEF KInv, WInv, HInv, TypeOK
<1>3. AddEntry(p) /\ pc[p] = "merging"
  BY DEF InsertEntry, AddEntry
<1>4. PICK n \in Nat : n = poll[p].at
  BY <1>2
<1>5. /\ n \in 1 .. Len(Timeline) /\ Parsed(p, n) \in Content
      /\ poll[p].lo >= 1 /\ poll[p].lo <= n /\ l < n
      /\ n # poll[p].lo => l = n - 1
  <2>1. l < n
    BY <1>1, <1>3, <1>4, NewWasNotMerged DEF KInv, WInv, AddEntry
  <2>2. n \in 1 .. Len(Timeline) /\ Parsed(p, n) \in Content
    BY <1>3, <1>4, ParsedRight DEF KInv, WInv, AddEntry
  <2> QED
    BY <1>1, <1>2, <1>4, <2>1, <2>2 DEF PollAhead, KInv, WInv, HInv, PollInTimeline
<1>6. /\ UNCHANGED <<served, decrypt, lines, pc>>
      /\ nextSeq' = nextSeq + 1
      /\ order' = Append(order, Timeline[n])
      /\ content' = Append(content, Parsed(p, n))
  BY <1>4 DEF InsertEntry, AddEntry
<1>7. /\ Len(order') = Len(order) + 1
      /\ \A i \in 1 .. Len(order) : order'[i] = order[i]
      /\ order'[Len(order) + 1] = Timeline[n]
  <2>1. Timeline[n] \in Clips
    BY <1>5, HistoryAssumption, ElementOfSeq
  <2> QED
    BY <1>2, <1>6, <2>1, AppendProperties
<1>8. /\ \A i \in 1 .. nextSeq : content'[i] = content[i]
      /\ content'[nextSeq + 1] = Parsed(p, n)
  BY <1>2, <1>5, <1>6, AppendProperties
<1>9. ASSUME NEW i \in 1 .. Len(order)
      PROVE  Tags'[i] = Tags[i] /\ SegmentKeys'[i] = SegmentKeys[i]
  <2>1. i \in 1 .. Len(order') /\ nextSeq - Len(order) + i \in 1 .. nextSeq
    BY <1>2, <1>7
  <2>2. nextSeq' - Len(order') + i = nextSeq - Len(order) + i
    BY <1>2, <1>6, <1>7
  <2>3. Tags'[i] = content'[nextSeq - Len(order) + i].tag
    BY <2>1, <2>2 DEF Tags
  <2> QED
    BY <1>7, <1>8, <2>1, <2>3 DEF Tags, SegmentKeys
<1>10. Tags'[Len(order) + 1] = Parsed(p, n).tag /\ SegmentKeys'[Len(order) + 1] = KeyOf[n]
  <2>1. Len(order) + 1 \in 1 .. Len(order')
    BY <1>2, <1>7
  <2>2. nextSeq' - Len(order') + (Len(order) + 1) = nextSeq + 1
    BY <1>2, <1>6, <1>7
  <2>3. Tags'[Len(order) + 1] = content'[nextSeq + 1].tag
    BY <2>1, <2>2 DEF Tags
  <2>4. Position(order'[Len(order) + 1]) = n
    BY <1>5, <1>7, PositionIs
  <2> QED
    BY <1>8, <2>1, <2>3, <2>4 DEF SegmentKeys
<1>11. Parsed(p, n).tag = NoKey => SegmentKeys'[Len(order)] = SegmentKeys'[Len(order) + 1]
  <2>1. SUFFICES ASSUME n # poll[p].lo, KeyOf[n - 1] = KeyOf[n]
                 PROVE  SegmentKeys'[Len(order)] = KeyOf[n]
    BY <1>4, <1>5, <1>10, ParsedTag
  <2>2. l = n - 1 /\ l \in poll[p].lo .. l /\ l \in 1 .. Len(Timeline)
    BY <1>2, <1>5, <2>1
  <2>3. l - l < Len(order) /\ order[Len(order) - (l - l)] = Timeline[l]
    BY <1>1, <2>2 DEF EndsAt
  <2>4. Len(order) \in 1 .. Len(order) /\ order[Len(order)] = Timeline[l]
    BY <1>2, <2>3
  <2>5. Position(order[Len(order)]) = n - 1
    BY <2>2, <2>4, PositionIs
  <2> QED
    BY <1>9, <2>1, <2>4, <2>5 DEF SegmentKeys
<1>12. OneKeyBetweenTags(Tags', SegmentKeys', Len(order) + 1)
  <2>1. OneKeyBetweenTags(Tags, SegmentKeys, Len(order))
    BY DEF KInv, HistoryTagged
  <2> QED
    BY <1>2, <1>9, <1>10, <1>11, <2>1, OneTagAppended
<1>13. \A i \in 1 .. Len(order') : Tags'[i] \in {NoKey, SegmentKeys'[i]}
  <2>1. ASSUME NEW i \in 1 .. Len(order')
        PROVE  Tags'[i] \in {NoKey, SegmentKeys'[i]}
    <3>1. CASE i = Len(order) + 1
      BY <1>4, <1>5, <1>10, <3>1, ParsedTag
    <3>2. CASE i # Len(order) + 1
      <4>1. i \in 1 .. Len(order)
        BY <1>2, <1>7, <3>2
      <4> QED
        BY <1>9, <4>1 DEF KInv, HistoryTagged
    <3> QED
      BY <3>1, <3>2
  <2> QED
    BY <2>1
<1>14. HistoryTagged'
  BY <1>6, <1>7, <1>12, <1>13 DEF HistoryTagged
<1>15. \A q \in Players : q = p
  BY DEF OnePlayer
<1>16. LinesShowHistory'
  BY <1>3, <1>6, <1>15 DEF KInv, LinesShowHistory
<1> QED
  BY <1>14, <1>16

(* The trim takes entries from the beginning only, and what is left is     *)
(* what the player is given.                                               *)
LEMMA FinishTags ==
  ASSUME KInv, ~decrypt, OnePlayer, NEW p \in Players, Finish(p),
         UNCHANGED <<decrypt, content, lines>>
  PROVE  HistoryTagged' /\ LinesShowHistory'
<1>1. /\ Len(order) \in Nat /\ nextSeq \in Nat /\ Len(order) <= nextSeq
  BY HistoryIsLast DEF KInv, WInv
<1>2. /\ Len(order') = Len(order) - Drop
      /\ Drop \in 0 .. Len(order)
      /\ \A i \in 1 .. Len(order') : order'[i] = order[Drop + i]
      /\ Len(served'[p]) = Len(order')
      /\ \A i \in 1 .. Len(order') :
           /\ served'[p][i].clip = order'[i]
           /\ served'[p][i].seq = nextSeq - Len(order') + i - 1
  BY FinishEffect DEF KInv, WInv
<1>3. pc[p] = "merging" /\ nextSeq' = nextSeq
  BY DEF Finish
<1>4. ASSUME NEW i \in 1 .. Len(order) - Drop
      PROVE  Tags'[i] = Tags[Drop + i] /\ SegmentKeys'[i] = SegmentKeys[Drop + i]
  <2>1. i \in 1 .. Len(order') /\ Drop + i \in 1 .. Len(order)
    BY <1>1, <1>2
  <2>2. nextSeq' - Len(order') + i = nextSeq - Len(order) + (Drop + i)
    BY <1>1, <1>2, <1>3
  <2>3. Tags'[i] = content[nextSeq - Len(order) + (Drop + i)].tag
    BY <2>1, <2>2 DEF Tags
  <2> QED
    BY <1>2, <2>1, <2>3 DEF Tags, SegmentKeys
<1>5. OneKeyBetweenTags(Tags', SegmentKeys', Len(order) - Drop)
  <2>1. OneKeyBetweenTags(Tags, SegmentKeys, Len(order))
    BY DEF KInv, HistoryTagged
  <2> QED
    BY <1>1, <1>2, <1>4, <2>1, OldTagsDropped
<1>6. \A i \in 1 .. Len(order') : Tags'[i] \in {NoKey, SegmentKeys'[i]}
  <2>1. ASSUME NEW i \in 1 .. Len(order')
        PROVE  Tags'[i] \in {NoKey, SegmentKeys'[i]}
    <3>1. i \in 1 .. Len(order) - Drop /\ Drop + i \in 1 .. Len(order)
      BY <1>1, <1>2
    <3> QED
      BY <1>4, <3>1 DEF KInv, HistoryTagged
  <2> QED
    BY <2>1
<1>7. HistoryTagged'
  BY <1>2, <1>5, <1>6 DEF HistoryTagged
<1>8. \A q \in Players : q = p
  BY DEF OnePlayer
<1>9. Len(lines'[p]) = 0
  BY <1>3 DEF KInv, LinesShowHistory
<1>10. LinesShowHistory'
  <2>1. pc'[p] = "idle"
    BY DEF Finish, KInv, WInv, HInv, TypeOK
  <2>2. Len(lines'[p]) <= Len(order') /\ \A i \in 1 .. Len(lines'[p]) : FALSE
    BY <1>1, <1>2, <1>9
  <2>3. \A i \in 1 .. Len(order') : /\ served'[p][i].clip = order'[i]
                                   /\ served'[p][i].seq = nextSeq' - Len(order') + i - 1
    BY <1>2, <1>3
  <2> QED
    BY <1>2, <1>8, <2>1, <2>2, <2>3, Zenon DEF LinesShowHistory
<1> QED
  BY <1>7, <1>10

(* A line is rendered from the entry it stands for.                        *)
LEMMA RenderTags ==
  ASSUME KInv, ~decrypt, OnePlayer, NEW p \in Players, Render(p)
  PROVE  HistoryTagged' /\ LinesShowHistory'
<1>1. /\ Len(order) \in Nat /\ nextSeq \in Nat /\ Len(order) <= nextSeq
      /\ lines[p] \in Seq(Line) /\ Len(lines[p]) \in Nat /\ lines \in [Players -> Seq(Line)]
  BY HistoryIsLast, LenProperties DEF KInv, WInv, RewriteTypeOK
<1>2. UNCHANGED <<vars, decrypt, content>> /\ pc[p] = "idle"
  BY DEF Render
<1>3. UNCHANGED <<order, nextSeq, pc, served>>
  BY <1>2 DEF vars
<1>4. HistoryTagged'
  BY <1>2, <1>3 DEF KInv, HistoryTagged, Tags, SegmentKeys
<1>5. PICK i : i = Len(lines[p]) + 1
  OBVIOUS
<1>6. /\ Len(served[p]) = Len(order) /\ i \in 1 .. Len(order)
      /\ served[p][i].clip = order[i] /\ served[p][i].seq + 1 = nextSeq - Len(order) + i
  <2>1. /\ Len(served[p]) = Len(order)
        /\ \A j \in 1 .. Len(order) : /\ served[p][j].clip = order[j]
                                      /\ served[p][j].seq = nextSeq - Len(order) + j - 1
    BY <1>2 DEF KInv, LinesShowHistory
  <2>2. i \in 1 .. Len(order)
    BY <1>1, <1>5, <2>1 DEF Render
  <2> QED
    BY <1>1, <2>1, <2>2
<1>7. PICK line : /\ line.clip = order[i] /\ line.tag = Tags[i]
                  /\ lines' = [lines EXCEPT ![p] = Append(lines[p], line)]
                  /\ Len(lines'[p]) = Len(lines[p]) + 1
                  /\ \A j \in 1 .. Len(lines[p]) : lines'[p][j] = lines[p][j]
                  /\ lines'[p][Len(lines[p]) + 1] = line
  <2>1. PICK c : c = content[served[p][i].seq + 1]
    OBVIOUS
  <2>2. PICK line : line = [clip |-> served[p][i].clip, tag |-> c.tag, key |-> c.key, iv |-> c.iv]
    OBVIOUS
  <2>3. lines' = [lines EXCEPT ![p] = Append(lines[p], line)]
    BY <1>5, <2>1, <2>2 DEF Render
  <2>4. lines'[p] = Append(lines[p], line)
    BY <1>1, <2>3
  <2>5. /\ Len(Append(lines[p], line)) = Len(lines[p]) + 1
        /\ \A j \in 1 .. Len(lines[p]) : Append(lines[p], line)[j] = lines[p][j]
        /\ Append(lines[p], line)[Len(lines[p]) + 1] = line
    <3>1. line \in {line} \cup Line /\ lines[p] \in Seq({line} \cup Line)
      BY <1>1, SeqMonotonic
    <3> QED
      BY <3>1, AppendProperties
  <2>6. line.tag = Tags[i]
    BY <1>6, <2>1, <2>2 DEF Tags
  <2>7. line.clip = order[i]
    BY <1>6, <2>2
  <2> QED
    BY <2>3, <2>4, <2>5, <2>6, <2>7
<1>8. Tags' = Tags
  BY <1>2, <1>3 DEF Tags
<1>9. ASSUME NEW j \in 1 .. Len(lines'[p])
      PROVE  lines'[p][j].clip = order[j] /\ lines'[p][j].tag = Tags[j]
  <2>1. CASE j = i
    BY <1>5, <1>7, <2>1
  <2>2. CASE j # i
    <3>1. j \in 1 .. Len(lines[p]) /\ lines'[p][j] = lines[p][j]
      BY <1>1, <1>5, <1>7, <2>2
    <3> QED
      BY <1>2, <3>1 DEF KInv, LinesShowHistory
  <2> QED
    BY <2>1, <2>2
<1>10. \A q \in Players : q = p
  BY DEF OnePlayer
<1>11. Len(lines'[p]) <= Len(order)
  BY <1>1, <1>5, <1>6, <1>7
<1>12. LinesShowHistory'
  BY <1>2, <1>3, <1>8, <1>9, <1>10, <1>11 DEF KInv, LinesShowHistory
<1> QED
  BY <1>4, <1>12

(* A step that leaves history, lists and lines alone.                      *)
LEMMA TagsAlone ==
  ASSUME KInv, UNCHANGED <<order, nextSeq, served, decrypt, content, lines>>,
         \A p \in Players : pc[p] = "idle" <=> pc'[p] = "idle"
  PROVE  HistoryTagged' /\ LinesShowHistory'
<1>1. Tags' = Tags /\ SegmentKeys' = SegmentKeys
  BY DEF Tags, SegmentKeys
<1>2. HistoryTagged'
  BY <1>1 DEF KInv, HistoryTagged
<1>3. LinesShowHistory'
  BY <1>1 DEF KInv, LinesShowHistory
<1> QED
  BY <1>2, <1>3

(* A new request begins with no line rendered.                             *)
LEMMA FetchTags ==
  ASSUME KInv, OnePlayer, NEW p \in Players, FetchKeys(p)
  PROVE  HistoryTagged' /\ LinesShowHistory'
<1>1. /\ UNCHANGED <<order, nextSeq, decrypt, content>>
      /\ pc'[p] = "parsed" /\ lines'[p] = <<>>
  BY DEF FetchKeys, Fetch, KInv, WInv, HInv, TypeOK, RewriteTypeOK
<1>2. HistoryTagged'
  BY <1>1 DEF KInv, HistoryTagged, Tags, SegmentKeys
<1>3. \A q \in Players : q = p
  BY DEF OnePlayer
<1>4. LinesShowHistory'
  BY <1>1, <1>3, EmptySeq DEF LinesShowHistory
<1> QED
  BY <1>2, <1>4

(* Nothing is known, listed or rendered at first.                          *)
LEMMA TagsInit == RewriteInit => KInv
<1> SUFFICES ASSUME RewriteInit PROVE KInv
  OBVIOUS
<1>1. WInv /\ OrderInv
  BY RewriteInitInv, OrderInit DEF RewriteInit
<1>2. Len(order) = 0 /\ \A p \in Players : Len(served[p]) = 0 /\ Len(lines[p]) = 0
  BY EmptySeq DEF RewriteInit, Init
<1>3. HistoryTagged
  BY <1>2 DEF HistoryTagged, OneKeyBetweenTags
<1>4. \A p \in Players : pc[p] = "idle"
  BY DEF RewriteInit, Init
<1>5. LinesShowHistory
  BY <1>2, <1>4 DEF LinesShowHistory
<1> QED
  BY <1>1, <1>3, <1>5 DEF KInv

(* Every step keeps the tags where they are needed.                        *)
LEMMA TagsStep ==
  ASSUME OnePlayer, RoomForWindow, KInv, [RewriteNext]_rewriteVars
  PROVE  KInv'
<1>1. WInv'
  BY RewriteStep DEF KInv
<1>2. OrderInv'
  <2>1. DistinctClips
    BY RewriteAssumption DEF DistinctClips
  <2> QED
    BY <2>1, RewriteStepIsHistoryStep, OrderStep DEF KInv, WInv
<1>3. HistoryTagged' /\ LinesShowHistory'
  <2>1. decrypt' = decrypt
    BY DEF RewriteNext, rewriteVars, FetchKeys, RefreshEntry, InsertEntry, Render
  <2>2. CASE decrypt
    BY <2>1, <2>2 DEF HistoryTagged, LinesShowHistory
  <2>3. CASE UNCHANGED rewriteVars
    <3>1. UNCHANGED <<order, nextSeq, served, decrypt, content, lines>> /\ pc' = pc
      BY <2>3 DEF rewriteVars, vars
    <3> QED
      BY <3>1, TagsAlone
  <2>4. CASE OriginAdvance /\ UNCHANGED <<decrypt, content, lines>>
    <3>1. UNCHANGED <<order, nextSeq, served>> /\ pc' = pc
      BY <2>4 DEF OriginAdvance
    <3> QED
      BY <2>4, <3>1, TagsAlone
  <2>5. ASSUME NEW p \in Players, Lock(p), UNCHANGED <<decrypt, content, lines>>
        PROVE  HistoryTagged' /\ LinesShowHistory'
    <3>1. \A q \in Players : pc[q] = "idle" <=> pc'[q] = "idle"
      BY <2>5 DEF Lock, KInv, WInv, HInv, TypeOK
    <3>2. UNCHANGED <<order, nextSeq, served>>
      BY <2>5 DEF Lock
    <3> QED
      BY <2>5, <3>1, <3>2, TagsAlone
  <2> QED
    BY <2>2, <2>3, <2>4, <2>5, FetchTags, RefreshEntryTags, InsertEntryTags, FinishTags, RenderTags
       DEF RewriteNext
<1> QED
  BY <1>1, <1>2, <1>3 DEF KInv

(* The last key tag in front of a line is that of the line's segment.      *)
LEMMA TagsAreInForce == KInv => KeyInForce
<1> SUFFICES ASSUME KInv, NEW p \in Players, NEW i \in 1 .. Len(lines[p]), NEW j \in 1 .. i,
                    lines[p][j].tag # NoKey,
                    \A k \in j + 1 .. i : lines[p][k].tag = NoKey
             PROVE  \E n \in 1 .. Len(Timeline) :
                      lines[p][i].clip = Timeline[n] /\ lines[p][j].tag = KeyOf[n]
  BY DEF KeyInForce
<1>1. Len(lines[p]) \in Nat /\ Len(order) \in Nat
  BY HistoryIsLast, LenProperties DEF KInv, WInv, RewriteTypeOK
<1>2. ~decrypt
  <2>1. j \in 1 .. Len(lines[p])
    BY <1>1
  <2> QED
    BY <2>1 DEF KInv, WInv, LineDecrypts
<1>3. /\ Len(lines[p]) <= Len(order)
      /\ \A k \in 1 .. Len(lines[p]) : lines[p][k].clip = order[k] /\ lines[p][k].tag = Tags[k]
  <2>1. Len(lines[p]) # 0
    BY <1>1
  <2>2. pc[p] = "idle"
    BY <1>2, <2>1 DEF KInv, LinesShowHistory
  <2> QED
    BY <1>2, <2>2 DEF KInv, LinesShowHistory
<1>4. i \in 1 .. Len(order) /\ j \in 1 .. Len(order) /\ j \in 1 .. Len(lines[p])
  BY <1>1, <1>3
<1>5. Tags[j] = SegmentKeys[j]
  BY <1>2, <1>3, <1>4 DEF KInv, HistoryTagged
<1>6. SegmentKeys[j] = SegmentKeys[i]
  <2>1. CASE j = i
    BY <2>1
  <2>2. CASE j # i
    <3>1. j \in 1 .. i - 1
      BY <2>2
    <3>2. \A k \in j + 1 .. i : Tags[k] = NoKey
      BY <1>1, <1>3
    <3> QED
      BY <1>2, <1>4, <3>1, <3>2 DEF KInv, HistoryTagged, OneKeyBetweenTags
  <2> QED
    BY <2>1, <2>2
<1>7. PICK n : n = Position(order[i])
  OBVIOUS
<1>8. n \in 1 .. Len(Timeline) /\ order[i] = Timeline[n]
  BY <1>4, <1>7, OrderPositions DEF KInv, WInv
<1>9. SegmentKeys[i] = KeyOf[n]
  BY <1>4, <1>7 DEF SegmentKeys
<1> QED
  BY <1>3, <1>4, <1>5, <1>6, <1>8, <1>9

(* A single player decrypts every segment it is given with the segment's   *)
(* own key, however the key rotates and however many segments it missed,   *)
(* as long as the history has room for the origin's window.                *)
THEOREM KeyStaysInForce ==
  ASSUME OnePlayer, RoomForWindow
  PROVE  RewriteSpec => []KeyInForce
<1>1. RewriteInit => KInv
  BY TagsInit
<1>2. KInv /\ [RewriteNext]_rewriteVars => KInv'
  BY TagsStep
<1>3. KInv => KeyInForce
  BY TagsAreInForce
<1> QED
  BY <1>1, <1>2, <1>3, PTL DEF RewriteSpec
=============================================================================
