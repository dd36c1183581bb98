------------------------------ MODULE TapProofs ------------------------------
(***************************************************************************)
(* What Tap promises, for every set of files, every inode space and all    *)
(* bounds.                                                                 *)
(*                                                                         *)
(* The invariant has eight parts.  TypeOK and ShapeInv are the types.      *)
(* FirmInv is the one NothingSkipped follows from: it splits the positions *)
(* into those a turn can no longer come back from (the registry, which     *)
(* survives End) and those it is still in hand behind (the tailer and the  *)
(* batch).  PartialInv says why FinishLine cannot make a turn appear       *)
(* behind them.  UniqueInv gives every line its own id, which HeaderInv    *)
(* and SessionInv (the two halves of OwnSession) and OnceInv               *)
(* (OnceUnlessReplaced) need to tell a turn in hand from the others.       *)
(***************************************************************************)
EXTENDS Tap, FiniteSetTheorems, SequenceTheorems, TLAPS

-----------------------------------------------------------------------------
(* The invariant.                                                          *)

\* Turns parsed and not yet sent.
OutIds == {out[i].id : i \in DOMAIN out}

\* Which lines a file may hold, and where tap may have lines in hand: a partial line
\* is the last, and no line in hand is partial.
ShapeInv ==
    /\ \A p \in Files : ~Exists(p) => lines[p] = <<>>
    /\ \A p \in Files : Len(lines[p]) <= lastLine
    /\ \A p \in Files : \A i \in DOMAIN lines[p] :
           lines[p][i].kind = "partial" => i = Len(lines[p])
    /\ (at # {}) <=> (pc \in {"read", "parse"})
    /\ DOMAIN got # {} => pc = "parse"
    /\ \A n \in DOMAIN got : got[n].kind # "partial"
    /\ \A p \in Files : \A i \in DOMAIN lines[p] :
           lines[p][i].kind = "meta" => p \in Codex
    /\ \A n \in DOMAIN got : got[n].kind = "meta" => at \subseteq Codex
    /\ \A p \in at \cup todo : tail[p].inode # 0

\* Something has become of line i of p, and will not be undone by a rotation.
Firm(p, i) ==
    lines[p][i].id \in delivered \cup dropped \cup orphaned \cup shadowed \cup OutIds

\* It is among the lines in hand, at its own index.
InGot(p, i) == i \in DOMAIN got /\ got[i] = lines[p][i]

\* The registry's entry for p will be moved under the inode p has now.
Ahead(p) == reg[p].inode = inode[p] /\ at = {p}

\* The registry lies past line i of p, or is sure to: its entry is about this file,
\* and Read will start past the line.
Past(p, i) ==
    \/ \E f \in {disk, reg} : f[p].inode = inode[p] /\ f[p].offset >= i
    \/ Ahead(p) /\ pc = "read" /\ tail[p].offset >= i

\* A turn the registry has passed is firm; one behind the tailer's position or in the
\* batch being parsed may also be in hand.
FirmInv ==
    \A p \in Files : \A i \in DOMAIN lines[p] : lines[p][i].kind = "turn" =>
        /\ Past(p, i) => Firm(p, i)
        /\ Shadows(p, i) => Firm(p, i) \/ InGot(p, i)

\* A partial line lies behind a position only when it was begun behind it.
PartialInv ==
    \A p \in Files : \A i \in DOMAIN lines[p] : lines[p][i].kind = "partial" =>
        lines[p][i].id \in shadowed \/ ~Shadows(p, i)

\* An id is that of one line in one file for good, and tap holds the ids of lines of
\* the file it read them from.
UniqueInv ==
    /\ \A p, q \in Files : \A i \in DOMAIN lines[p], j \in DOMAIN lines[q] :
           lines[p][i].id = lines[q][j].id => p = q /\ i = j
    /\ \A p \in Files : \A i \in DOMAIN lines[p] : lines[p][i].id <= lastLine
    /\ \A id \in delivered \cup orphaned \cup misfiled \cup OutIds : id <= lastLine
    /\ \A n \in DOMAIN got : got[n].id <= lastLine
    /\ \A n \in DOMAIN got, p \in Files : \A i \in DOMAIN lines[p] :
           got[n].id = lines[p][i].id => at = {p}
    /\ \A j \in DOMAIN out, p \in Files : \A i \in DOMAIN lines[p] :
           out[j].id = lines[p][i].id => out[j].file = p

\* While p is only appended to, the registry and the tailer are about the one file
\* there has been at p, in this order, and lines in hand lie between them.
Kept(p) ==
    /\ reg[p] = NoEntry \/ (Exists(p) /\ reg[p].inode = inode[p])
    /\ reg[p].offset <= Complete(p)
    /\ tail[p].inode # 0 =>
           /\ tail[p].inode = reg[p].inode
           /\ reg[p].offset <= tail[p].offset
           /\ tail[p].offset <= Complete(p)
    /\ at = {p} => \A n \in DOMAIN got :
           reg[p].offset < n /\ n <= tail[p].offset /\ got[n] = lines[p][n]

\* The registry is past every turn of p that was sent or is about to be.
Passed(p) ==
    \A i \in DOMAIN lines[p] :
        lines[p][i].id \in delivered \cup OutIds => i <= reg[p].offset

\* Those about to be sent have not been, and each is there once.
Queued(p) ==
    \A j \in DOMAIN out : out[j].file = p =>
        /\ out[j].id \notin delivered
        /\ \E i \in DOMAIN lines[p] :
               i <= reg[p].offset /\ lines[p][i].id = out[j].id
        /\ \A k \in DOMAIN out : out[k].id = out[j].id => k = j

\* The files a turn of which may be sent twice.
Excused == replaced \cup lost

\* The registry on disk is the one in memory, but for a save or a load that failed
\* since tap was started, and the three above hold of every other file.
OnceInv ==
    /\ ~unsaved => disk = reg
    /\ pc = "down" => ~unsaved
    /\ repeated \subseteq Excused
    /\ \A p \in Files \ Excused : Kept(p) /\ Passed(p) /\ Queued(p)

\* The header of p is remembered, or is the first line in hand.
Headed(p) ==
    known[p] # 0 \/ (at = {p} /\ 1 \in DOMAIN got /\ got[1].kind = "meta")

\* A rollout begins with its header, and a file taken up at its beginning has its
\* header read before tap is past it.
HeaderInv ==
    /\ \A p \in Codex : lines[p] # <<>> => lines[p][1].kind = "meta"
    /\ \A p \in Files : at = {p} => \A n \in DOMAIN got : n <= tail[p].offset
    /\ \A p \in Codex \ resumed :
           /\ \A i \in DOMAIN lines[p] : lines[p][i].id \notin orphaned
           /\ tail[p].offset > 0 => Headed(p)

\* The lines of a rollout belong to its header, the header itself included.
Filed(p) ==
    \A i \in DOMAIN lines[p] :
        /\ lines[p][i].session = lines[p][1].id
        /\ lines[p][i].kind = "meta" => lines[p][i].id = lines[p][i].session

\* The session remembered for p, and that of the lines in hand, is that of the file
\* there is, and no turn of it went under another.
Remembered(p) ==
    /\ known[p] # 0 => lines[p] # <<>> /\ known[p] = lines[p][1].id
    /\ at = {p} => \A n \in DOMAIN got :
           /\ lines[p] # <<>> /\ got[n].session = lines[p][1].id
           /\ got[n].kind = "meta" => got[n].id = got[n].session
    /\ \A i \in DOMAIN lines[p] : lines[p][i].id \notin misfiled

\* Every rollout's lines are its header's, and one only appended to is remembered so.
SessionInv ==
    /\ \A p \in Codex : Filed(p)
    /\ \A p \in Codex \ replaced : Remembered(p)

\* What the assumption on the constants says of each of them.
LEMMA Bounds ==
    /\ MaxLines \in Nat /\ MaxReplaced \in Nat /\ MaxStarts \in Nat /\ MaxFaults \in Nat
    /\ REDISCOVER \in Nat \ {0} /\ BATCH \in Nat \ {0}
    /\ Codex \subseteq Files /\ 0 \notin Inodes
BY TapAssumption

-----------------------------------------------------------------------------
(* What the agents do to the lines.                                        *)

\* Cutting a file keeps the first lines.
LEMMA CutLines ==
    ASSUME lines \in [Files -> Seq(Line)], NEW p \in Files, Remove(p) \/ Truncate(p)
    PROVE  /\ lines' \in [Files -> Seq(Line)]
           /\ \A q \in Files \ {p} : lines'[q] = lines[q]
           /\ lines'[p] # lines[p] => Len(lines'[p]) < Len(lines[p])
           /\ \A i \in DOMAIN lines'[p] : i \in DOMAIN lines[p] /\ lines'[p][i] = lines[p][i]
<1>1. CASE Remove(p)
  BY <1>1 DEF Remove
<1>2. CASE Truncate(p)
  <2>1. PICK n \in 0..Len(lines[p]) - 1 :
          lines' = [lines EXCEPT ![p] = SubSeq(lines[p], 1, n)]
    BY <1>2 DEF Truncate
  <2>2. /\ SubSeq(lines[p], 1, n) \in Seq(Line)
        /\ Len(SubSeq(lines[p], 1, n)) = n
        /\ \A i \in 1..n : SubSeq(lines[p], 1, n)[i] = lines[p][i]
    <3>1. \A i \in 1..n : lines[p][i] \in Line
      BY <2>1
    <3> QED
      BY <2>1, <3>1, SubSeqProperties
  <2> DEFINE s == SubSeq(lines[p], 1, n)
  <2> HIDE DEF s
  <2> QED
    BY <2>1, <2>2 DEF s
<1> QED
  BY <1>1, <1>2

\* A new line leaves the others as they are.
LEMMA NewLine ==
    ASSUME TypeOK, NEW p \in Files, BeginLine(p)
    PROVE  /\ lines' \in [Files -> Seq(Line)]
           /\ \A q \in Files \ {p} : lines'[q] = lines[q]
           /\ Len(lines'[p]) = Len(lines[p]) + 1
           /\ DOMAIN lines[p] = 1..Len(lines[p]) /\ DOMAIN lines'[p] = 1..Len(lines[p]) + 1
           /\ \A i \in DOMAIN lines[p] : lines'[p][i] = lines[p][i]
           /\ lines'[p][Len(lines[p]) + 1].id = lastLine + 1
           /\ lines'[p][Len(lines[p]) + 1].session = OwnHeader(p)
           /\ p \in Codex /\ lines[p] = <<>> => lines'[p][1].kind = "meta"
           /\ lines'[p][Len(lines[p]) + 1].kind = "meta" => p \in Codex /\ lines[p] = <<>>
<1>1. PICK k \in (IF p \in Codex /\ lines[p] = <<>> THEN {"meta"} ELSE Kinds) :
        lines' = [lines EXCEPT ![p] = Append(lines[p],
                      [id |-> lastLine + 1, kind |-> k, session |-> OwnHeader(p)])]
  BY DEF BeginLine
<1> DEFINE l == [id |-> lastLine + 1, kind |-> k, session |-> OwnHeader(p)]
<1>2. l \in Line /\ l.id = lastLine + 1 /\ l.kind = k /\ l.session = OwnHeader(p)
  <2>1. lastLine + 1 \in 1..MaxLines
    BY Bounds DEF BeginLine, TypeOK
  <2>2. k \in Kinds \cup {"meta"}
    BY <1>1
  <2>3. OwnHeader(p) \in 0..MaxLines
    <3>1. p \in Codex /\ lines[p] # <<>> => lines[p][1] \in Line
      BY DEF TypeOK
    <3>2. \A m \in Line : m.id \in 1..MaxLines
      BY DEF Line, Ids
    <3> QED
      BY <2>1, <3>1, <3>2, Bounds DEF OwnHeader
  <2> QED
    BY <2>1, <2>2, <2>3 DEF Line, Ids
<1>3. lines[p] \in Seq(Line) /\ lines' = [lines EXCEPT ![p] = Append(lines[p], l)]
  BY <1>1 DEF TypeOK
<1> HIDE DEF l
<1>4. /\ Append(lines[p], l) \in Seq(Line)
      /\ Len(Append(lines[p], l)) = Len(lines[p]) + 1
      /\ \A i \in DOMAIN lines[p] : Append(lines[p], l)[i] = lines[p][i]
      /\ Append(lines[p], l)[Len(lines[p]) + 1] = l
  BY <1>2, <1>3
<1>5. lines' \in [Files -> Seq(Line)] /\ lines'[p] = Append(lines[p], l)
  BY <1>3, <1>4 DEF TypeOK
<1>6. \A q \in Files \ {p} : lines'[q] = lines[q]
  BY <1>3 DEF TypeOK
<1>7. ASSUME p \in Codex, lines[p] = <<>> PROVE lines'[p][1].kind = "meta"
  <2>1. k = "meta" /\ Len(lines[p]) = 0
    BY <1>1, <1>7
  <2> QED
    BY <1>2, <1>4, <1>5, <2>1
<1>8. k = "meta" => p \in Codex /\ lines[p] = <<>>
  BY <1>1, TapAssumption
<1> QED
  BY <1>2, <1>4, <1>5, <1>6, <1>7, <1>8

\* Finishing a line changes nothing but its kind, which was "partial".
LEMMA LineDone ==
    ASSUME TypeOK, NEW p \in Files, FinishLine(p)
    PROVE  /\ lines' \in [Files -> Seq(Line)]
           /\ \A q \in Files \ {p} : lines'[q] = lines[q]
           /\ Len(lines[p]) > 0 /\ Len(lines'[p]) = Len(lines[p])
           /\ DOMAIN lines[p] = 1..Len(lines[p]) /\ DOMAIN lines'[p] = 1..Len(lines[p])
           /\ \A i \in DOMAIN lines[p] : /\ lines'[p][i].id = lines[p][i].id
                                         /\ lines'[p][i].session = lines[p][i].session
           /\ \A i \in DOMAIN lines[p] \ {Len(lines[p])} : lines'[p][i] = lines[p][i]
           /\ lines[p][Len(lines[p])].kind = "partial"
           /\ lines'[p][Len(lines[p])].kind \notin {"partial", "meta"}
<1> DEFINE n == Len(lines[p])
<1>1. PICK k \in Kinds \ {"partial"} : lines' = [lines EXCEPT ![p][n].kind = k]
  BY DEF FinishLine
<1>2. lines[p] \in Seq(Line) /\ n > 0 /\ lines[p][n].kind = "partial" /\ n \in DOMAIN lines[p]
  <2>1. lines[p] \in Seq(Line) /\ lines[p] # <<>> /\ lines[p][n].kind = "partial"
    BY DEF FinishLine, EndsPartial, TypeOK
  <2> QED
    BY <2>1
<1> DEFINE m == lines[p][n]
           l == [m EXCEPT !.kind = k]
           s == [lines[p] EXCEPT ![n] = l]
<1>3. l \in Line /\ l.id = m.id /\ l.session = m.session /\ l.kind \notin {"partial", "meta"}
  <2>1. m \in Line
    BY <1>2
  <2>2. k # "meta"
    BY <1>1, TapAssumption
  <2> HIDE DEF m
  <2> QED
    BY <1>1, <2>1, <2>2 DEF Line
<1>4. lines' = [lines EXCEPT ![p] = s]
  BY <1>1, Zenon
<1> HIDE DEF l
<1>5. /\ s \in Seq(Line) /\ Len(s) = n
      /\ \A i \in DOMAIN lines[p] \ {n} : s[i] = lines[p][i]
      /\ s[n] = l
  BY <1>2, <1>3
<1> HIDE DEF s
<1>6. lines \in [Files -> Seq(Line)]
  BY DEF TypeOK
<1>7. /\ lines' \in [Files -> Seq(Line)] /\ lines'[p] = s
      /\ \A q \in Files \ {p} : lines'[q] = lines[q]
  BY <1>4, <1>5, <1>6
<1> QED
  BY <1>2, <1>3, <1>5, <1>7

-----------------------------------------------------------------------------
(* Types.                                                                  *)

\* Nothing is there yet.
LEMMA TypeInit == Init => TypeOK
<1> SUFFICES ASSUME Init PROVE TypeOK
  OBVIOUS
<1>1. {MaxLines, MaxReplaced, MaxStarts, MaxFaults} \subseteq Nat /\ REDISCOVER \in Nat \ {0}
  BY Bounds
<1>2. NoEntry \in Position
  BY <1>1 DEF NoEntry, Position
<1>3. {disk, reg, tail} \subseteq [Files -> Position]
  BY <1>2 DEF Init
<1>4. DOMAIN got = {} /\ got \in [DOMAIN got -> Line]
  BY DEF Init
<1>5. lines \in [Files -> Seq(Line)] /\ out \in Seq(Turn)
  BY DEF Init
<1>6. inode \in [Files -> Inodes \cup {0}] /\ unsaved \in BOOLEAN
  BY Zenon DEF Init
<1>7. known \in [Codex -> 0..MaxLines]
  BY <1>1 DEF Init
<1> QED
  BY <1>1, <1>3, <1>4, <1>5, <1>6, <1>7 DEF Init, TypeOK

\* What TypeOK says of the entries and of the turns in hand.
LEMMA Entries ==
    ASSUME TypeOK
    PROVE  /\ MaxLines \in Nat
           /\ disk \in [Files -> Position] /\ reg \in [Files -> Position]
           /\ tail \in [Files -> Position]
           /\ \A p \in Files : /\ disk[p].offset \in 0..MaxLines
                               /\ reg[p].offset \in 0..MaxLines
                               /\ tail[p].offset \in 0..MaxLines
           /\ \A i \in DOMAIN out : out[i].id \in Ids /\ out[i].file \in Files
<1>1. /\ disk \in [Files -> Position] /\ reg \in [Files -> Position]
      /\ tail \in [Files -> Position] /\ MaxLines \in Nat
  BY Bounds DEF TypeOK
<1>2. \A i \in DOMAIN out : out[i] \in Turn
  BY DEF TypeOK
<1>3. \A i \in DOMAIN out : out[i].id \in Ids /\ out[i].file \in Files
  BY <1>2 DEF Turn
<1> QED
  BY <1>1, <1>3 DEF Position

\* Complete lines and where an entry resumes are within the file.
LEMMA CompleteType ==
    ASSUME TypeOK, ShapeInv, NEW p \in Files
    PROVE  /\ Len(lines[p]) \in 0..MaxLines
           /\ Complete(p) \in 0..Len(lines[p])
           /\ Complete(p) >= Len(lines[p]) - 1
           /\ \A i \in DOMAIN lines[p] : lines[p][i] \in Line
<1>1. lines[p] \in Seq(Line) /\ Len(lines[p]) <= lastLine /\ lastLine \in 0..MaxLines
  BY DEF TypeOK, ShapeInv
<1>2. MaxLines \in Nat
  BY Bounds
<1>3. lines[p] # <<>> => Len(lines[p]) > 0
  BY <1>1
<1> QED
  BY <1>1, <1>2, <1>3 DEF Complete, EndsPartial

\* The turns not yet sent have ids of lines.
LEMMA OutIdsType ==
    ASSUME TypeOK
    PROVE  OutIds \subseteq Ids
BY Entries DEF OutIds

\* The memory of tap ends well typed.
LEMMA EndType ==
    ASSUME TypeOK, End
    PROVE  /\ {reg, tail}' \subseteq [Files -> Position]
           /\ known' \in [Codex -> 0..MaxLines] /\ \A p \in Codex : known'[p] = 0
           /\ lost' \subseteq Files /\ lost \subseteq lost' /\ unsaved' = FALSE
           /\ ticks' = 0 /\ pc' = "down" /\ todo' = {} /\ at' = {}
           /\ got' = <<>> /\ out' = <<>>
           /\ dropped' = dropped \cup (OutIds \ delivered)
<1>1. NoEntry \in Position
  BY Bounds DEF NoEntry, Position
<1>2. tail' \in [Files -> Position] /\ reg' \in [Files -> Position]
  BY <1>1 DEF End, TypeOK
<1>3. known' \in [Codex -> 0..MaxLines] /\ \A p \in Codex : known'[p] = 0
  BY Bounds DEF End
<1>4. lost' \subseteq Files /\ lost \subseteq lost'
  BY DEF End, TypeOK
<1> QED
  BY <1>2, <1>3, <1>4 DEF End, OutIds

\* Reading the registry, or failing to, keeps the types, and in memory is what is on
\* disk or nothing.
LEMMA LoadType ==
    ASSUME TypeOK, Load
    PROVE  /\ reg' \in [Files -> Position] /\ faults' \in 0..MaxFaults
           /\ unsaved' \in BOOLEAN /\ lost' \subseteq Files /\ lost \subseteq lost'
           /\ \/ reg' = disk /\ UNCHANGED <<unsaved, lost>>
              \/ /\ \A p \in Files : reg'[p] = NoEntry
                 /\ \A p \in Files : p \notin lost' => disk[p] = NoEntry
                 /\ unsaved'
<1>1. CASE reg' = disk /\ UNCHANGED <<faults, unsaved, lost>>
  BY <1>1, Entries DEF TypeOK
<1>2. CASE /\ faults < MaxFaults /\ faults' = faults + 1
           /\ reg' = [p \in Files |-> NoEntry] /\ unsaved' = TRUE
           /\ lost' = lost \cup {p \in Files : disk[p] # NoEntry}
  <2>1. NoEntry \in Position
    BY Bounds DEF NoEntry, Position
  <2>2. faults' \in 0..MaxFaults
    BY <1>2, Bounds DEF TypeOK
  <2>3. reg' \in [Files -> Position] /\ \A p \in Files : reg'[p] = NoEntry
    BY <1>2, <2>1
  <2>4. lost' \subseteq Files /\ lost \subseteq lost'
    BY <1>2 DEF TypeOK
  <2> QED
    BY <1>2, <2>2, <2>3, <2>4
<1> QED
  BY <1>1, <1>2 DEF Load

\* Saving the registry, or failing to, keeps the types.
LEMMA SaveType ==
    ASSUME TypeOK, Save, reg' \in [Files -> Position]
    PROVE  disk' \in [Files -> Position] /\ faults' \in 0..MaxFaults /\ unsaved' \in BOOLEAN
<1>1. CASE disk' = reg' /\ unsaved' = FALSE /\ UNCHANGED faults
  BY <1>1 DEF TypeOK
<1>2. CASE faults < MaxFaults /\ faults' = faults + 1 /\ unsaved' = TRUE /\ disk' = disk
  BY <1>2, Bounds DEF TypeOK
<1> QED
  BY <1>1, <1>2 DEF Save

\* Agents keep the types.
LEMMA TypeAgents ==
    ASSUME TypeOK, NEW p \in Files, Agent(p)
    PROVE  TypeOK'
<1>1. CASE Create(p)
  <2>1. inode' \in [Files -> Inodes \cup {0}]
    BY <1>1 DEF Create, TypeOK
  <2> QED
    BY <1>1, <2>1 DEF Create, TypeOK, memory, history
<1>2. CASE BeginLine(p)
  <2>1. lastLine' \in 0..MaxLines /\ lastLine + 1 \in Ids
    BY <1>2, Bounds DEF BeginLine, TypeOK, Ids
  <2>2. shadowed' \subseteq Ids
    BY <1>2, <2>1 DEF BeginLine, TypeOK
  <2>3. lines' \in [Files -> Seq(Line)]
    BY <1>2, NewLine
  <2> QED
    BY <1>2, <2>1, <2>2, <2>3 DEF BeginLine, TypeOK, memory
<1>3. CASE FinishLine(p)
  <2>1. lines' \in [Files -> Seq(Line)]
    BY <1>3, LineDone
  <2> QED
    BY <1>3, <2>1 DEF FinishLine, TypeOK, memory, history
<1>4. CASE Remove(p) \/ Truncate(p)
  <2>1. lines' \in [Files -> Seq(Line)]
    BY <1>4, CutLines DEF TypeOK
  <2>2. removals' \in 0..MaxReplaced
    <3>1. removals < MaxReplaced /\ removals' = removals + 1
      BY <1>4 DEF Remove, Truncate
    <3>2. removals \in 0..MaxReplaced
      BY DEF TypeOK
    <3> QED
      BY <3>1, <3>2, Bounds
  <2>3. inode' \in [Files -> Inodes \cup {0}] /\ replaced' \subseteq Files
    BY <1>4 DEF Remove, Truncate, TypeOK
  <2> QED
    BY <1>4, <2>1, <2>2, <2>3 DEF Remove, Truncate, TypeOK, memory
<1> QED
  BY <1>1, <1>2, <1>3, <1>4 DEF Agent

\* Tap keeps the types: ResumeOffset and Checked give positions in the file, and
\* next_offset is that of a line of it.
LEMMA TypeTap ==
    ASSUME TypeOK, ShapeInv, DrainRound \/ Start \/ Stop
    PROVE  TypeOK'
<1>1. CASE Start
  <2>1. starts' \in 0..MaxStarts
    BY <1>1, Bounds DEF Start, TypeOK
  <2> QED
    BY <1>1, <2>1, LoadType DEF Start, TypeOK, agents, memory
<1>2. CASE Stop \/ \E p \in Files : ReadFails(p)
  <2>1. End /\ UNCHANGED <<agents, disk, starts, faults, delivered, repeated, orphaned,
                           misfiled, shadowed, replaced, resumed>>
    BY <1>2 DEF Stop, ReadFails
  <2>2. dropped' \subseteq Ids
    BY <2>1, EndType, OutIdsType DEF TypeOK
  <2>3. 0 \in 0..REDISCOVER - 1
    BY Bounds
  <2> QED
    <3>1. {disk, reg, tail}' \subseteq [Files -> Position]
      BY <2>1, EndType, Entries
    <3>2. DOMAIN got' = {} /\ got' \in [DOMAIN got' -> Line] /\ out' = <<>>
      BY <2>1, EndType
    <3>3. /\ known' \in [Codex -> 0..MaxLines] /\ lost' \subseteq Files /\ unsaved' \in BOOLEAN
          /\ ticks' = 0 /\ pc' = "down" /\ todo' = {} /\ at' = {}
      BY <2>1, EndType
    <3> QED
      BY <2>1, <2>2, <2>3, <3>1, <3>2, <3>3 DEF TypeOK, agents
<1>3. CASE BeginRound
  <2>1. \A p \in Found : Complete(p) \in 0..MaxLines
    BY CompleteType, Entries DEF Found
  <2>2. \A p \in Found : [inode |-> inode[p], offset |-> ResumeOffset(reg[p], p)] \in Position
    <3>1. \A p \in Files : inode[p] \in Inodes \cup {0}
      BY DEF TypeOK
    <3>2. \A p \in Found : ResumeOffset(reg[p], p) \in 0..MaxLines
      BY <2>1, Entries DEF ResumeOffset, Found
    <3> QED
      BY <3>1, <3>2 DEF Position, Found
  <2>3. tail' \in [Files -> Position]
    BY <1>3, <2>2 DEF BeginRound, TypeOK
  <2>4. reg' \in [Files -> Position]
    BY <1>3, <2>3 DEF BeginRound, TypeOK
  <2>5. disk' \in [Files -> Position] /\ faults' \in 0..MaxFaults /\ unsaved' \in BOOLEAN
    BY <1>3, <2>4, SaveType DEF BeginRound, TypeOK
  <2>6. ticks' \in 0..REDISCOVER - 1
    BY <1>3, Bounds DEF BeginRound, TypeOK
  <2> QED
    BY <1>3, <2>3, <2>4, <2>5, <2>6 DEF BeginRound, TypeOK, agents, Found
<1>4. ASSUME NEW p \in Files, Stat(p) PROVE TypeOK'
  <2>1. Checked(p) \in Position
    BY Bounds DEF Checked, TypeOK, Position
  <2>2. tail' \in [Files -> Position]
    BY <1>4, <2>1 DEF Stat, TypeOK
  <2> QED
    BY <1>4, <2>2 DEF Stat, TypeOK, agents, history
<1>5. ASSUME NEW p \in Files, Read(p) PROVE TypeOK'
  <2>1. ReadSet(p, tail[p].offset) \subseteq 1..Len(lines[p]) /\ Len(lines[p]) \in 0..MaxLines
    BY CompleteType, Entries DEF ReadSet
  <2>2. DOMAIN got' \subseteq 1..MaxLines /\ got' \in [DOMAIN got' -> Line]
    BY <1>5, <2>1, CompleteType, Bounds DEF Read
  <2>3. tail' \in [Files -> Position]
    <3>1. PICK last \in ReadSet(p, tail[p].offset) \cup {tail[p].offset} :
            tail' = [tail EXCEPT ![p].offset = last]
      BY <1>5 DEF Read
    <3>2. last \in 0..MaxLines
      BY <2>1, <3>1, Entries
    <3> QED
      BY <3>1, <3>2, Entries DEF Position
  <2> QED
    BY <1>5, <2>2, <2>3 DEF Read, TypeOK, agents, history
<1>6. ASSUME NEW p \in Files, NEW n \in 1..MaxLines, Parse(p, n) PROVE TypeOK'
  <2>1. DOMAIN got' \subseteq 1..MaxLines /\ got' \in [DOMAIN got' -> Line]
    BY <1>6 DEF Parse, TypeOK
  <2>2. got[n] \in Line /\ got[n].id \in Ids
    BY <1>6 DEF Parse, TypeOK, Line
  <2>3. reg' \in [Files -> Position]
    <3>1. reg' = [reg EXCEPT ![p].offset = n] /\ n \in 0..MaxLines
      BY <1>6, Entries DEF Parse, Register
    <3>2. [reg[p] EXCEPT !.offset = n] \in Position
      BY <3>1, Entries DEF Position
    <3> QED
      BY <3>1, <3>2, Entries
  <2>4. disk' \in [Files -> Position] /\ faults' \in 0..MaxFaults /\ unsaved' \in BOOLEAN
    BY <1>6, <2>3, SaveType DEF Parse
  <2>5. out' \in Seq(Turn)
    <3>1. [id |-> got[n].id, file |-> p] \in Turn
      BY <2>2 DEF Turn
    <3>2. out \in Seq(Turn)
      BY DEF TypeOK
    <3>3. out' = out \/ out' = Append(out, [id |-> got[n].id, file |-> p])
      BY <1>6 DEF Parse
    <3> QED
      BY <3>1, <3>2, <3>3
  <2>6. orphaned' \subseteq Ids /\ misfiled' \subseteq Ids
    BY <1>6, <2>2 DEF Parse, TypeOK
  <2>7. known' \in [Codex -> 0..MaxLines]
    <3>1. got[n].kind = "meta" => p \in Codex
      BY <1>6 DEF Parse, ShapeInv
    <3>2. known' = known \/ (got[n].kind = "meta" /\ known' = [known EXCEPT ![p] = got[n].id])
      BY <1>6 DEF Parse
    <3>3. got[n].id \in 0..MaxLines /\ known \in [Codex -> 0..MaxLines]
      <4>1. known \in [Codex -> 0..MaxLines]
        BY DEF TypeOK
      <4> QED
        BY <2>2, <4>1, Bounds DEF Ids
    <3> DEFINE m == got[n].id
    <3>4. ASSUME p \in Codex, m \in 0..MaxLines
          PROVE  [known EXCEPT ![p] = m] \in [Codex -> 0..MaxLines]
      <4> HIDE DEF m
      <4> QED
        BY <3>3, <3>4
    <3> QED
      BY <3>1, <3>2, <3>3, <3>4
  <2> QED
    BY <1>6, <2>1, <2>3, <2>4, <2>5, <2>6, <2>7 DEF Parse, TypeOK, agents
<1>7. CASE ParsedAll
  BY <1>7 DEF ParsedAll, TypeOK, agents, history
<1>8. CASE ReturnTurns \/ EndRound
  BY <1>8 DEF ReturnTurns, EndRound, TypeOK, agents, memory, history
<1>9. CASE Deliver
  <2>1. Head(out).id \in Ids /\ Head(out).file \in Files /\ Tail(out) \in Seq(Turn)
    <3>1. out \in Seq(Turn) /\ out # <<>>
      BY <1>9 DEF Deliver, TypeOK
    <3>2. Head(out) \in Turn /\ Tail(out) \in Seq(Turn)
      BY <3>1
    <3> QED
      BY <3>2 DEF Turn
  <2> QED
    BY <1>9, <2>1 DEF Deliver, Stored, TypeOK, agents
<1>10. CASE DeliverFails
  <2>1. Head(out).id \in Ids /\ Head(out).file \in Files
    <3>1. out \in Seq(Turn) /\ out # <<>>
      BY <1>10 DEF DeliverFails, TypeOK
    <3>2. Head(out) \in Turn
      BY <3>1
    <3> QED
      BY <3>2 DEF Turn
  <2>2. delivered' \subseteq Ids /\ repeated' \subseteq Files
    BY <1>10, <2>1 DEF DeliverFails, Stored, TypeOK
  <2>3. dropped' \subseteq Ids
    BY <1>10, EndType, OutIdsType DEF DeliverFails, TypeOK
  <2>4. 0 \in 0..REDISCOVER - 1 /\ faults' \in 0..MaxFaults
    <3>1. faults + 1 \in 0..MaxFaults
      <4>1. faults < MaxFaults /\ faults \in 0..MaxFaults
        BY <1>10 DEF DeliverFails, TypeOK
      <4> QED
        BY <4>1, Bounds
    <3> QED
      BY <1>10, <3>1, Bounds DEF DeliverFails
  <2>5. {disk, reg, tail}' \subseteq [Files -> Position]
    BY <1>10, EndType, Entries DEF DeliverFails
  <2>6. DOMAIN got' = {} /\ got' \in [DOMAIN got' -> Line] /\ out' = <<>>
    BY <1>10, EndType DEF DeliverFails
  <2>7. /\ known' \in [Codex -> 0..MaxLines] /\ lost' \subseteq Files /\ unsaved' \in BOOLEAN
        /\ ticks' = 0 /\ pc' = "down" /\ todo' = {} /\ at' = {}
    BY <1>10, EndType DEF DeliverFails
  <2>8. UNCHANGED <<agents, disk, starts, orphaned, misfiled, shadowed, replaced, resumed>>
    BY <1>10 DEF DeliverFails
  <2> QED
    BY <2>2, <2>3, <2>4, <2>5, <2>6, <2>7, <2>8 DEF TypeOK, agents
<1> QED
  BY <1>1, <1>2, <1>3, <1>4, <1>5, <1>6, <1>7, <1>8, <1>9, <1>10 DEF DrainRound

-----------------------------------------------------------------------------
(* Shapes.                                                                 *)

\* Nothing is there yet.
LEMMA ShapeInit == Init => ShapeInv
BY DEF Init, ShapeInv, Exists

\* A line is only begun behind a finished one, in a file that exists.
LEMMA ShapeAgents ==
    ASSUME TypeOK, ShapeInv, NEW p \in Files, Agent(p)
    PROVE  ShapeInv'
<1>0. UNCHANGED <<pc, todo, at, got, tail>>
  BY DEF Agent, Create, BeginLine, FinishLine, Remove, Truncate, memory
<1>1. /\ \A q \in Files : Exists(q)' \/ lines'[q] = <<>>
      /\ \A q \in Files : Len(lines'[q]) <= lastLine'
      /\ \A q \in Files : \A i \in DOMAIN lines'[q] :
             /\ lines'[q][i].kind = "partial" => i = Len(lines'[q])
             /\ lines'[q][i].kind = "meta" => q \in Codex
  <2>0. /\ \A q \in Files : Len(lines[q]) \in Nat /\ Len(lines[q]) <= lastLine
        /\ \A q \in Files : DOMAIN lines[q] = 1..Len(lines[q])
        /\ lastLine \in Nat
        /\ inode \in [Files -> Inodes \cup {0}]
    <3>1. \A q \in Files : lines[q] \in Seq(Line)
      BY DEF TypeOK
    <3>2. lastLine \in Nat /\ inode \in [Files -> Inodes \cup {0}]
      BY Bounds DEF TypeOK
    <3>3. \A q \in Files : Len(lines[q]) <= lastLine
      BY DEF ShapeInv
    <3> QED
      BY <3>1, <3>2, <3>3
  <2>1. CASE Create(p)
    <3>1. \A q \in Files : Exists(q) => Exists(q)'
      BY <2>0, <2>1 DEF Create, Exists
    <3> QED
      BY <2>1, <3>1 DEF Create, ShapeInv
  <2>2. CASE BeginLine(p)
    <3>1. /\ Exists(p) /\ inode' = inode /\ lastLine' = lastLine + 1
          /\ ~EndsPartial(p)
      BY <2>2 DEF BeginLine
    <3>2. \A i \in DOMAIN lines[p] : lines[p][i].kind # "partial"
      BY <2>0, <3>1 DEF ShapeInv, EndsPartial
    <3>3. \A i \in DOMAIN lines'[p] :
             /\ lines'[p][i].kind = "partial" => i = Len(lines'[p])
             /\ lines'[p][i].kind = "meta" => p \in Codex
      <4>1. \A i \in DOMAIN lines[p] : lines[p][i].kind = "meta" => p \in Codex
        BY DEF ShapeInv
      <4> QED
        BY <2>0, <2>2, <3>2, <4>1, NewLine
    <3>4. \A q \in Files : Len(lines'[q]) <= lastLine'
      BY <2>0, <2>2, <3>1, NewLine
    <3>5. \A q \in Files \ {p} : lines'[q] = lines[q]
      BY <2>2, NewLine
    <3> QED
      BY <2>0, <3>1, <3>3, <3>4, <3>5 DEF ShapeInv, Exists
  <2>3. CASE FinishLine(p)
    <3>1. inode' = inode /\ lastLine' = lastLine
      BY <2>3 DEF FinishLine
    <3>2. \A i \in DOMAIN lines'[p] :
             /\ lines'[p][i].kind = "partial" => i = Len(lines'[p])
             /\ lines'[p][i].kind = "meta" => p \in Codex
      <4>1. \A i \in DOMAIN lines[p] :
               /\ lines[p][i].kind = "partial" => i = Len(lines[p])
               /\ lines[p][i].kind = "meta" => p \in Codex
        BY DEF ShapeInv
      <4>2. /\ Len(lines'[p]) = Len(lines[p]) /\ DOMAIN lines'[p] = DOMAIN lines[p]
            /\ \A i \in DOMAIN lines[p] \ {Len(lines[p])} : lines'[p][i] = lines[p][i]
            /\ lines'[p][Len(lines[p])].kind \notin {"partial", "meta"}
        BY <2>3, LineDone
      <4> QED
        BY <4>1, <4>2
    <3>3. Exists(p)
      BY <2>0, <2>3, LineDone DEF ShapeInv
    <3>4. /\ \A q \in Files \ {p} : lines'[q] = lines[q]
          /\ Len(lines'[p]) = Len(lines[p])
      BY <2>3, LineDone
    <3> QED
      BY <2>0, <3>1, <3>2, <3>3, <3>4 DEF ShapeInv, Exists
  <2>4. CASE Remove(p) \/ Truncate(p)
    <3>1. /\ lastLine' = lastLine
          /\ inode' = inode \/ (lines'[p] = <<>> /\ inode' = [inode EXCEPT ![p] = 0])
      BY <2>0, <2>4 DEF Remove, Truncate, TypeOK
    <3>2. /\ \A q \in Files \ {p} : lines'[q] = lines[q]
          /\ lines'[p] = lines[p] \/ Len(lines'[p]) < Len(lines[p])
          /\ \A i \in DOMAIN lines'[p] : i \in DOMAIN lines[p] /\ lines'[p][i] = lines[p][i]
          /\ DOMAIN lines'[p] = 1..Len(lines'[p]) /\ Len(lines'[p]) \in Nat
      BY <2>4, CutLines DEF TypeOK
    <3>3. ~Exists(p) => lines'[p] = <<>>
      BY <2>0, <2>4, <3>2 DEF ShapeInv, Remove, Truncate
    <3>4. \A q \in Files : Exists(q)' \/ lines'[q] = <<>>
      BY <2>0, <3>1, <3>2, <3>3 DEF ShapeInv, Exists
    <3>5. \A i \in DOMAIN lines'[p] :
             /\ lines'[p][i].kind = "partial" => i = Len(lines'[p])
             /\ lines'[p][i].kind = "meta" => p \in Codex
      BY <2>0, <3>2 DEF ShapeInv
    <3>6. \A q \in Files : Len(lines'[q]) <= lastLine'
      BY <2>0, <3>1, <3>2
    <3> QED
      BY <2>0, <3>2, <3>4, <3>5, <3>6 DEF ShapeInv
  <2> QED
    BY <2>1, <2>2, <2>3, <2>4 DEF Agent
<1> QED
  BY <1>0, <1>1 DEF ShapeInv

\* read_available_lines returns no line without its newline.
LEMMA ShapeTap ==
    ASSUME TypeOK, ShapeInv, DrainRound \/ Start \/ Stop
    PROVE  ShapeInv'
<1>0. UNCHANGED agents /\ tail \in [Files -> Position]
  BY Entries DEF Start, Stop, DrainRound, BeginRound, Stat, Read, ReadFails, Parse, ParsedAll,
         ReturnTurns, Deliver, DeliverFails, EndRound
<1> DEFINE Shapes ==
        /\ (at # {}) <=> (pc \in {"read", "parse"})
        /\ DOMAIN got # {} => pc = "parse"
        /\ \A n \in DOMAIN got : got[n].kind # "partial"
        /\ \A n \in DOMAIN got : got[n].kind = "meta" => at \subseteq Codex
        /\ \A p \in at \cup todo : tail[p].inode # 0
<1>1. Shapes
  BY DEF ShapeInv
<1>2. Shapes'
  <2>1. CASE Start
    BY <1>1, <2>1 DEF Start, memory
  <2>2. CASE Stop \/ DeliverFails \/ \E p \in Files : ReadFails(p)
    <3>1. End
      BY <2>2 DEF Stop, DeliverFails, ReadFails
    <3> QED
      BY <3>1, EndType
  <2>3. CASE BeginRound
    <3>1. UNCHANGED <<at, got>> /\ pc = "round" /\ pc' = "stat"
      BY <2>3 DEF BeginRound
    <3>2. \A p \in todo' : tail'[p].inode # 0
      BY <2>3 DEF BeginRound
    <3> QED
      BY <1>1, <3>1, <3>2
  <2>4. ASSUME NEW p \in Files, Stat(p) PROVE Shapes'
    <3>1. /\ pc = "stat" /\ p \in todo /\ todo' = todo \ {p} /\ got' = got
          /\ \/ pc' = "read" /\ at' = {p} /\ Exists(p)
             \/ pc' = pc /\ at' = at
      BY <2>4 DEF Stat
    <3>2. \A q \in Files \ {p} : tail'[q] = tail[q]
      BY <1>0, <2>4 DEF Stat
    <3>3. tail'[p] = IF Exists(p) THEN Checked(p) ELSE tail[p]
      BY <1>0, <2>4 DEF Stat
    <3>4. tail'[p].inode # 0
      BY <1>1, <3>1, <3>3 DEF Checked, Exists
    <3>5. at \subseteq Files /\ todo \subseteq Files
      BY DEF TypeOK
    <3> QED
      BY <1>1, <3>1, <3>2, <3>4, <3>5
  <2>5. ASSUME NEW p \in Files, Read(p) PROVE Shapes'
    <3>1. /\ pc' = "parse" /\ at' = {p} /\ at = {p} /\ todo' = todo
          /\ \A n \in DOMAIN got' : n \in 1..Complete(p) /\ got'[n] = lines[p][n]
      BY <2>5, Entries DEF Read, ReadSet
    <3>2. \A n \in 1..Complete(p) : lines[p][n].kind # "partial"
      BY CompleteType DEF Complete, EndsPartial, ShapeInv
    <3>3. \A n \in 1..Complete(p) : lines[p][n].kind = "meta" => p \in Codex
      BY CompleteType DEF ShapeInv
    <3>4. \A q \in Files : tail'[q].inode = tail[q].inode
      BY <1>0, <2>5 DEF Read, Position
    <3>5. at \subseteq Files /\ todo \subseteq Files
      BY DEF TypeOK
    <3> QED
      BY <1>1, <3>1, <3>2, <3>3, <3>4, <3>5
  <2>6. ASSUME NEW p \in Files, NEW n \in 1..MaxLines, Parse(p, n) PROVE Shapes'
    BY <1>1, <2>6 DEF Parse
  <2>7. CASE ParsedAll
    BY <1>1, <2>7 DEF ParsedAll
  <2>8. CASE ReturnTurns \/ Deliver \/ EndRound
    BY <1>1, <2>8 DEF ReturnTurns, Deliver, EndRound, memory
  <2> QED
    BY <2>1, <2>2, <2>3, <2>4, <2>5, <2>6, <2>7, <2>8 DEF DrainRound
<1> QED
  BY <1>0, <1>2 DEF ShapeInv, agents, Exists

-----------------------------------------------------------------------------
(* Nothing is skipped.                                                     *)

\* read_line passes every line up to the last it reaches.
LEMMA ReadSetClosed ==
    ASSUME TypeOK, NEW p \in Files, NEW o \in Nat, NEW n \in ReadSet(p, o), NEW m \in o + 1..n
    PROVE  m \in ReadSet(p, o)
<1> DEFINE S(k) == {l \in o + 1..k - 1 : lines[p][l].kind # "oversize"}
<1>1. n \in o + 1..Complete(p) /\ Cardinality(S(n)) < BATCH
  BY DEF ReadSet, Reaches
<1>2. n \in Int /\ Complete(p) \in Int
  <2>1. lines[p] \in Seq(Line)
    BY DEF TypeOK
  <2> QED
    BY <1>1, <2>1 DEF Complete
<1>3. IsFiniteSet(o + 1..n - 1)
  BY <1>2, FS_Interval
<1>4. IsFiniteSet(S(n))
  BY <1>3, FS_Subset
<1>5. S(m) \subseteq S(n)
  BY <1>2
<1>6. IsFiniteSet(S(m)) /\ Cardinality(S(m)) <= Cardinality(S(n))
  BY <1>4, <1>5, FS_Subset
<1>7. Cardinality(S(m)) < BATCH
  <2>1. Cardinality(S(m)) \in Nat /\ Cardinality(S(n)) \in Nat
    BY <1>4, <1>6, FS_CardinalityType
  <2> HIDE DEF S
  <2> QED
    BY <1>1, <1>6, <2>1, Bounds
<1>8. m \in o + 1..Complete(p)
  BY <1>1, <1>2
<1> QED
  BY <1>7, <1>8 DEF ReadSet, Reaches

\* What Checked keeps of a tailer's position.
LEMMA CheckedKeeps ==
    ASSUME TypeOK, NEW p \in Files
    PROVE  /\ Checked(p).inode = inode[p]
           /\ Checked(p).offset # 0 => Checked(p) = tail[p]
BY DEF Checked

\* After a step of tap the positions lie past the same lines of a file as
\* before, and the lines read.
LEMMA ShadowsBack ==
    ASSUME TypeOK, ShapeInv, DrainRound \/ Start \/ Stop,
           NEW q \in Files, NEW i \in DOMAIN lines[q], Shadows(q, i)'
    PROVE  \/ Shadows(q, i) /\ (End => Past(q, i))
           \/ Read(q) /\ i \in ReadSet(q, tail[q].offset)
<1>0. /\ inode'[q] = inode[q] /\ inode[q] # 0
      /\ i \in Nat /\ i > 0
      /\ tail \in [Files -> Position] /\ reg \in [Files -> Position]
      /\ tail[q].offset \in Nat
  <2>1. inode' = inode
    BY DEF DrainRound, Start, Stop, BeginRound, Stat, Read, ReadFails, Parse, ParsedAll,
           ReturnTurns, Deliver, DeliverFails, EndRound, agents
  <2>2. lines[q] \in Seq(Line) /\ inode[q] # 0
    BY DEF TypeOK, ShapeInv, Exists
  <2> QED
    BY <2>1, <2>2, Entries
<1>1. CASE Start
  <2>1. at = {} /\ at' = {} /\ UNCHANGED <<disk, tail>> /\ pc' = "round"
    BY <1>1 DEF Start, memory, ShapeInv
  <2>2. reg' = disk \/ reg'[q].inode = 0
    BY <1>1, LoadType DEF Start, NoEntry
  <2> QED
    BY <1>0, <2>1, <2>2 DEF Shadows, End
<1>2. CASE Stop \/ DeliverFails \/ \E p \in Files : ReadFails(p)
  <2>1. End /\ disk' = disk
    BY <1>2 DEF Stop, DeliverFails, ReadFails
  <2>2. at' = {} /\ reg' = disk /\ tail'[q].inode = 0
    BY <2>1 DEF End, NoEntry
  <2> QED
    BY <1>0, <2>1, <2>2 DEF Shadows, Past
<1>3. CASE BeginRound
  <2>1. at = {} /\ at' = {} /\ pc' = "stat"
    BY <1>3 DEF BeginRound, ShapeInv
  <2>2. /\ reg'[q] = reg[q] \/ (/\ reg'[q].offset = ResumeOffset(reg[q], q)
                                /\ reg'[q].inode = inode[q])
        /\ tail'[q] = tail[q] \/ tail'[q] = reg'[q]
    BY <1>3 DEF BeginRound
  <2>3. disk'[q] = disk[q] \/ disk'[q] = reg'[q]
    BY <1>3 DEF BeginRound, Save
  <2>4. reg'[q].inode = inode[q] /\ reg'[q].offset >= i
          => reg[q].inode = inode[q] /\ reg[q].offset >= i
    BY <1>0, <2>2 DEF ResumeOffset
  <2>5. ~End
    BY <2>1 DEF End
  <2> QED
    BY <1>0, <2>1, <2>2, <2>3, <2>4, <2>5 DEF Shadows
<1>4. ASSUME NEW p \in Files, Stat(p) PROVE Shadows(q, i) /\ ~End
  <2>1. /\ at = {} /\ pc = "stat" /\ reg' = reg /\ disk' = disk /\ got' = got /\ DOMAIN got = {}
        /\ p = q \/ tail'[q] = tail[q]
        /\ at' = {} \/ at' = {p}
        /\ pc' # "down"
    BY <1>0, <1>4 DEF Stat, ShapeInv
  <2>2. p = q => tail'[q] = Checked(q)
    BY <1>0, <1>4 DEF Stat, Exists
  <2>3. tail'[q].offset >= i /\ (p = q \/ tail'[q].inode = inode[q])
          => tail[q].offset >= i /\ tail[q].inode = inode[q]
    BY <1>0, <2>1, <2>2, CheckedKeeps
  <2> QED
    BY <1>0, <2>1, <2>3 DEF Shadows, End
<1>5. ASSUME NEW p \in Files, Read(p)
      PROVE  (Shadows(q, i) /\ ~End) \/ (Read(q) /\ i \in ReadSet(q, tail[q].offset))
  <2>1. /\ at = {p} /\ at' = {p} /\ pc = "read" /\ pc' = "parse" /\ reg' = reg /\ disk' = disk
        /\ DOMAIN got' \subseteq ReadSet(p, tail[p].offset)
        /\ p = q \/ tail'[q] = tail[q]
    BY <1>0, <1>5 DEF Read
  <2>2. PICK last \in ReadSet(p, tail[p].offset) \cup {tail[p].offset} :
          tail'[p].inode = tail[p].inode /\ tail'[p].offset = last
    BY <1>0, <1>5 DEF Read, Position
  <2>3. ASSUME p = q, NEW n \in ReadSet(q, tail[q].offset), n >= i
        PROVE  tail[q].offset >= i \/ i \in ReadSet(q, tail[q].offset)
    <3>1. n \in Int
      BY DEF ReadSet
    <3> QED
      BY <1>0, <2>3, <3>1, ReadSetClosed
  <2>4. CASE i \in ReadSet(q, tail[q].offset) /\ p = q
    BY <1>5, <2>4
  <2>5. CASE i \notin ReadSet(q, tail[q].offset) \/ p # q
    <3>1. p = q /\ tail'[q].offset >= i => tail[q].offset >= i
      BY <2>2, <2>3, <2>5
    <3>2. p = q /\ (\E n \in DOMAIN got' : n >= i) => tail[q].offset >= i
      BY <2>1, <2>3, <2>5
    <3>3. \/ \E f \in {disk, reg} : f[q].inode = inode[q] /\ f[q].offset >= i
          \/ tail'[q].inode = inode[q] /\ tail'[q].offset >= i
          \/ reg[q].inode = inode[q] /\ p = q /\ \E n \in DOMAIN got' : n >= i
      BY <1>0, <2>1 DEF Shadows
    <3>4. tail'[q].inode = tail[q].inode
      BY <2>1, <2>2
    <3>5. Shadows(q, i)
      <4>1. CASE \E f \in {disk, reg} : f[q].inode = inode[q] /\ f[q].offset >= i
        BY <4>1 DEF Shadows
      <4>2. CASE tail'[q].inode = inode[q] /\ tail'[q].offset >= i
        BY <2>1, <3>1, <3>4, <4>2 DEF Shadows
      <4>3. CASE reg[q].inode = inode[q] /\ p = q /\ \E n \in DOMAIN got' : n >= i
        BY <2>1, <3>2, <4>3 DEF Shadows
      <4> QED
        BY <3>3, <4>1, <4>2, <4>3
    <3> QED
      BY <2>1, <3>5 DEF End
  <2> QED
    BY <2>4, <2>5
<1>6. ASSUME NEW p \in Files, NEW n \in 1..MaxLines, Parse(p, n)
      PROVE  Shadows(q, i) /\ ~End
  <2>1. /\ at = {p} /\ at' = {p} /\ pc = "parse" /\ pc' = "parse" /\ tail' = tail
        /\ n \in DOMAIN got /\ DOMAIN got' \subseteq DOMAIN got
        /\ disk' = disk \/ disk' = reg'
    BY <1>6 DEF Parse, Save
  <2>2. /\ p # q => reg'[q] = reg[q]
        /\ reg'[p].inode = reg[p].inode /\ reg'[p].offset = n
    BY <1>0, <1>6 DEF Parse, Register, Position
  <2> QED
    BY <1>0, <2>1, <2>2 DEF Shadows, End
<1>7. CASE ParsedAll
  <2>1. at' = {} /\ pc' = "stat" /\ UNCHANGED <<disk, reg, tail>>
    BY <1>7 DEF ParsedAll
  <2> QED
    BY <1>0, <2>1 DEF Shadows, End
<1>8. CASE ReturnTurns \/ Deliver \/ EndRound
  <2>1. /\ at = {} /\ at' = {} /\ UNCHANGED <<disk, reg, tail>>
        /\ pc' # "down"
    BY <1>8 DEF ReturnTurns, Deliver, EndRound, ShapeInv, memory
  <2> QED
    BY <1>0, <2>1 DEF Shadows, End
<1> QED
  BY <1>1, <1>2, <1>3, <1>4, <1>5, <1>6, <1>7, <1>8 DEF DrainRound

\* After a step of tap the registry, or Read's start, lies past the same lines as
\* before, or past those it was about to pass.
LEMMA PastBack ==
    ASSUME TypeOK, ShapeInv, DrainRound \/ Start \/ Stop,
           NEW q \in Files, NEW i \in DOMAIN lines[q], Past(q, i)'
    PROVE  \/ Past(q, i)
           \/ pc = "stat" /\ Shadows(q, i)
           \/ \E n \in DOMAIN got : Parse(q, n) /\ n >= i /\ Shadows(q, i)
<1>0. /\ inode'[q] = inode[q] /\ inode[q] # 0
      /\ i \in Nat /\ i > 0
      /\ tail \in [Files -> Position] /\ reg \in [Files -> Position]
      /\ tail[q].offset \in Nat
  <2>1. inode' = inode
    BY DEF DrainRound, Start, Stop, BeginRound, Stat, Read, ReadFails, Parse, ParsedAll,
           ReturnTurns, Deliver, DeliverFails, EndRound, agents
  <2>2. lines[q] \in Seq(Line) /\ inode[q] # 0
    BY DEF TypeOK, ShapeInv, Exists
  <2> QED
    BY <2>1, <2>2, Entries
<1>1. CASE Start \/ ParsedAll \/ ReturnTurns \/ Deliver \/ EndRound
  <2>1. /\ pc' # "read" /\ UNCHANGED <<disk, tail>>
    BY <1>1 DEF Start, ParsedAll, ReturnTurns, Deliver, EndRound, memory
  <2>2. reg' = reg \/ reg' = disk \/ reg'[q].inode = 0
    BY <1>1, LoadType DEF Start, NoEntry, ParsedAll, ReturnTurns, Deliver, EndRound
  <2> QED
    BY <1>0, <2>1, <2>2 DEF Past
<1>2. CASE Stop \/ DeliverFails \/ \E p \in Files : ReadFails(p)
  <2>1. disk' = disk /\ at' = {} /\ reg' = disk
    BY <1>2 DEF Stop, DeliverFails, ReadFails, End
  <2> QED
    BY <1>0, <2>1 DEF Past, Ahead
<1>3. CASE BeginRound
  <2>1. pc' = "stat"
    BY <1>3 DEF BeginRound
  <2>2. reg'[q] = reg[q] \/ (/\ reg'[q].offset = ResumeOffset(reg[q], q)
                             /\ reg'[q].inode = inode[q])
    BY <1>3 DEF BeginRound
  <2>3. disk'[q] = disk[q] \/ disk'[q] = reg'[q]
    BY <1>3 DEF BeginRound, Save
  <2>4. reg'[q].inode = inode[q] /\ reg'[q].offset >= i
          => reg[q].inode = inode[q] /\ reg[q].offset >= i
    BY <1>0, <2>2 DEF ResumeOffset
  <2> QED
    BY <1>0, <2>1, <2>3, <2>4 DEF Past
<1>4. ASSUME NEW p \in Files, Stat(p) PROVE Past(q, i) \/ (pc = "stat" /\ Shadows(q, i))
  <2>1. /\ pc = "stat" /\ reg' = reg /\ disk' = disk
        /\ pc' = "read" => at' = {p}
    BY <1>4 DEF Stat
  <2>2. p = q => tail'[q] = Checked(q)
    BY <1>0, <1>4 DEF Stat, Exists
  <2>3. p = q /\ tail'[q].offset >= i => tail[q].offset >= i /\ tail[q].inode = inode[q]
    BY <1>0, <2>2, CheckedKeeps
  <2> QED
    BY <1>0, <2>1, <2>3 DEF Past, Ahead, Shadows
<1>5. ASSUME NEW p \in Files, Read(p) PROVE Past(q, i)
  BY <1>0, <1>5 DEF Read, Past
<1>6. ASSUME NEW p \in Files, NEW n \in 1..MaxLines, Parse(p, n)
      PROVE  Past(q, i) \/ \E m \in DOMAIN got : Parse(q, m) /\ m >= i /\ Shadows(q, i)
  <2>1. /\ at = {p} /\ pc = "parse" /\ pc' = "parse" /\ tail' = tail /\ n \in DOMAIN got
        /\ disk' = disk \/ disk' = reg'
    BY <1>6 DEF Parse, Save
  <2>2. /\ p # q => reg'[q] = reg[q]
        /\ reg'[p].inode = reg[p].inode /\ reg'[p].offset = n
    BY <1>0, <1>6 DEF Parse, Register, Position
  <2>3. \/ \E f \in {disk, reg} : f[q].inode = inode[q] /\ f[q].offset >= i
        \/ reg'[q].inode = inode[q] /\ reg'[q].offset >= i
    BY <1>0, <2>1 DEF Past
  <2> QED
    BY <1>6, <2>1, <2>2, <2>3 DEF Past, Shadows
<1> QED
  BY <1>1, <1>2, <1>3, <1>4, <1>5, <1>6 DEF DrainRound

\* A step of tap leaves the files alone and loses no turn.
LEMMA Identified ==
    ASSUME TypeOK, ShapeInv, DrainRound \/ Start \/ Stop
    PROVE  /\ UNCHANGED agents
           /\ delivered \cup dropped \cup orphaned \cup shadowed \cup OutIds \subseteq
                  (delivered \cup dropped \cup orphaned \cup shadowed \cup OutIds)'
<1>1. UNCHANGED agents
  BY DEF DrainRound, Start, Stop, BeginRound, Stat, Read, ReadFails, Parse, ParsedAll,
         ReturnTurns, Deliver, DeliverFails, EndRound
<1>2. \/ UNCHANGED <<delivered, dropped, orphaned, shadowed, out>>
      \/ /\ delivered \subseteq delivered' /\ UNCHANGED <<orphaned, shadowed>>
         /\ dropped' = dropped \cup (OutIds \ delivered)
      \/ /\ UNCHANGED <<delivered, dropped, shadowed>> /\ orphaned \subseteq orphaned'
         /\ \E t \in Turn : out' \in {out, Append(out, t)}
      \/ /\ delivered' = delivered \cup {Head(out).id} /\ out # <<>> /\ out' = Tail(out)
         /\ UNCHANGED <<dropped, orphaned, shadowed>>
  <2>1. CASE Start \/ BeginRound \/ ParsedAll \/ ReturnTurns \/ EndRound
             \/ \E p \in Files : Stat(p) \/ Read(p)
    BY <2>1 DEF Start, BeginRound, ParsedAll, ReturnTurns, EndRound, Stat, Read, memory, history
  <2>2. CASE Stop \/ DeliverFails \/ \E p \in Files : ReadFails(p)
    <3>1. End
      BY <2>2 DEF Stop, DeliverFails, ReadFails
    <3>2. delivered \subseteq delivered' /\ UNCHANGED <<orphaned, shadowed>>
      BY <2>2 DEF Stop, DeliverFails, ReadFails, Stored
    <3> QED
      BY <3>1, <3>2, EndType
  <2>3. ASSUME NEW p \in Files, NEW n \in 1..MaxLines, Parse(p, n)
        PROVE  /\ UNCHANGED <<delivered, dropped, shadowed>> /\ orphaned \subseteq orphaned'
               /\ \E t \in Turn : out' \in {out, Append(out, t)}
    <3>1. got[n].id \in Ids
      BY <2>3 DEF Parse, TypeOK, Line
    <3>2. [id |-> got[n].id, file |-> p] \in Turn
      BY <3>1 DEF Turn
    <3> QED
      BY <2>3, <3>2 DEF Parse
  <2>4. CASE Deliver
    BY <2>4 DEF Deliver, Stored
  <2> QED
    BY <2>1, <2>2, <2>3, <2>4 DEF DrainRound
<1>3. out \in Seq(Turn)
  BY DEF TypeOK
<1>4. OutIds \subseteq OutIds' \/ OutIds \subseteq delivered' \cup OutIds'
      \/ OutIds \subseteq delivered' \cup dropped'
  <2>1. CASE out' = out
    BY <2>1 DEF OutIds
  <2>2. ASSUME NEW t \in Turn, out' = Append(out, t) PROVE OutIds \subseteq OutIds'
    BY <1>3, <2>2 DEF OutIds
  <2>3. ASSUME out # <<>>, out' = Tail(out), delivered' = delivered \cup {Head(out).id}
        PROVE  OutIds \subseteq delivered' \cup OutIds'
    <3>1. ASSUME NEW j \in DOMAIN out PROVE out[j].id \in delivered' \cup OutIds'
      <4>1. CASE j = 1
        BY <1>3, <2>3, <4>1
      <4>2. CASE j # 1
        <5>1. j - 1 \in DOMAIN out' /\ out'[j - 1] = out[j]
          BY <1>3, <2>3, <4>2
        <5> QED
          BY <5>1 DEF OutIds
      <4> QED
        BY <4>1, <4>2
    <3> QED
      BY <3>1 DEF OutIds
  <2> QED
    BY <1>2, <2>1, <2>2, <2>3
<1> QED
  BY <1>1, <1>2, <1>4

\* What an agent does to the lines and positions of the files.
LEMMA AgentView ==
    ASSUME TypeOK, ShapeInv, NEW p \in Files, Agent(p)
    PROVE  /\ UNCHANGED <<disk, reg, memory, pc, delivered, dropped, orphaned>>
           /\ shadowed \subseteq shadowed'
           /\ \A q \in Files \ {p} : lines'[q] = lines[q] /\ inode'[q] = inode[q]
           /\ DOMAIN lines'[p] # {} => inode'[p] = inode[p]
<1>1. /\ UNCHANGED <<disk, reg, memory, pc, delivered, dropped, orphaned>>
      /\ shadowed \subseteq shadowed'
      /\ \A q \in Files \ {p} : inode'[q] = inode[q]
  BY DEF Agent, Create, BeginLine, FinishLine, Remove, Truncate, history, TypeOK
<1>2. \A q \in Files \ {p} : lines'[q] = lines[q]
  BY NewLine, LineDone, CutLines DEF Agent, Create, TypeOK
<1>3. ASSUME DOMAIN lines'[p] # {} PROVE inode'[p] = inode[p]
  <2>1. CASE Create(p)
    <3>1. lines'[p] = <<>>
      BY <2>1 DEF Create, ShapeInv
    <3> QED
      BY <1>3, <3>1
  <2>2. CASE Remove(p)
    <3>1. lines'[p] = <<>>
      BY <2>2 DEF Remove, TypeOK
    <3> QED
      BY <1>3, <3>1
  <2>3. CASE BeginLine(p) \/ FinishLine(p) \/ Truncate(p)
    BY <2>3 DEF BeginLine, FinishLine, Truncate
  <2> QED
    BY <2>1, <2>2, <2>3 DEF Agent
<1> QED
  BY <1>1, <1>2, <1>3

\* The positions of a file that stays are about the same indices.
LEMMA SameView ==
    ASSUME NEW q, NEW i, UNCHANGED <<disk, reg, memory, pc>>, inode'[q] = inode[q]
    PROVE  (Past(q, i)' <=> Past(q, i)) /\ (Shadows(q, i)' <=> Shadows(q, i))
BY DEF Past, Shadows, Ahead, memory

\* A line begun behind a position is shadowed, and one finished there was.
LEMMA FirmAgents ==
    ASSUME TypeOK, ShapeInv, FirmInv, PartialInv, NEW p \in Files, Agent(p)
    PROVE  FirmInv' /\ PartialInv'
<1>1. \A q \in Files : \A i \in DOMAIN lines'[q] :
        /\ Past(q, i)' <=> Past(q, i)
        /\ Shadows(q, i)' <=> Shadows(q, i)
  BY AgentView, SameView
<1>3. \A q \in Files : DOMAIN lines[q] = 1..Len(lines[q]) /\ Len(lines[q]) \in Nat
  <2>1. \A q \in Files : lines[q] \in Seq(Line)
    BY DEF TypeOK
  <2> QED
    BY <2>1
\* A line that was there.
<1>4. ASSUME NEW q \in Files, NEW i \in DOMAIN lines'[q], i \in DOMAIN lines[q],
             lines'[q][i] = lines[q][i], lines[q][i].kind = "turn"
      PROVE  /\ Past(q, i)' => Firm(q, i)'
             /\ Shadows(q, i)' => Firm(q, i)' \/ InGot(q, i)'
  <2>1. Firm(q, i) => Firm(q, i)'
    BY <1>4, AgentView DEF Firm, OutIds, memory
  <2>2. InGot(q, i) => InGot(q, i)'
    BY <1>4, AgentView DEF InGot, memory
  <2> QED
    BY <1>1, <1>4, <2>1, <2>2 DEF FirmInv
\* The last line, new or just finished.
<1>5. ASSUME NEW i \in DOMAIN lines'[p], i = Len(lines'[p]),
             Shadows(p, i) => lines'[p][i].id \in shadowed'
      PROVE  /\ Past(p, i)' => Firm(p, i)'
             /\ Shadows(p, i)' => Firm(p, i)'
  <2>2. Past(p, i) => Shadows(p, i)
    BY DEF Past, Shadows, Ahead
  <2> QED
    BY <1>1, <1>5, <2>2 DEF Firm
\* A partial line that was there.
<1>6. ASSUME NEW q \in Files, NEW i \in DOMAIN lines'[q], i \in DOMAIN lines[q],
             lines'[q][i] = lines[q][i], lines[q][i].kind = "partial"
      PROVE  lines'[q][i].id \in shadowed' \/ ~Shadows(q, i)'
  BY <1>1, <1>6, AgentView DEF PartialInv
<1>7. CASE Create(p)
  BY <1>4, <1>6, <1>7 DEF Create, FirmInv, PartialInv
<1>8. CASE BeginLine(p)
  <2>0. PICK n \in Nat : n = Len(lines[p]) + 1
    BY <1>3
  <2>1. Shadows(p, n) => lastLine + 1 \in shadowed'
    BY <1>8, <2>0 DEF BeginLine
  <2>2. /\ DOMAIN lines'[p] = 1..n /\ Len(lines'[p]) = n
        /\ \A i \in DOMAIN lines[p] : lines'[p][i] = lines[p][i]
        /\ lines'[p][n].id = lastLine + 1
        /\ \A q \in Files \ {p} : lines'[q] = lines[q]
    BY <1>8, <2>0, NewLine
  <2>3. n \in DOMAIN lines'[p] /\ \A i \in DOMAIN lines'[p] : i = n \/ i \in DOMAIN lines[p]
    BY <1>3, <2>0, <2>2
  <2>4. FirmInv'
    BY <1>4, <1>5, <2>1, <2>2, <2>3 DEF FirmInv
  <2>5. lines'[p][n].id \in shadowed' \/ ~Shadows(p, n)'
    BY <1>1, <2>1, <2>2, <2>3
  <2>6. PartialInv'
    BY <1>6, <2>2, <2>3, <2>5 DEF PartialInv
  <2> QED
    BY <2>4, <2>6
<1>9. CASE FinishLine(p)
  <2> DEFINE n == Len(lines[p])
  <2>1. /\ n \in Nat /\ n > 0 /\ DOMAIN lines'[p] = 1..n /\ DOMAIN lines[p] = 1..n
        /\ Len(lines'[p]) = n
        /\ \A i \in 1..n \ {n} : lines'[p][i] = lines[p][i]
        /\ lines'[p][n].id = lines[p][n].id
        /\ lines[p][n].kind = "partial" /\ lines'[p][n].kind # "partial"
        /\ \A q \in Files \ {p} : lines'[q] = lines[q]
    BY <1>3, <1>9, LineDone
  <2> HIDE DEF n
  <2>2. Shadows(p, n) => lines'[p][n].id \in shadowed'
    <3>1. n \in DOMAIN lines[p]
      BY <2>1
    <3> QED
      BY <2>1, <3>1, AgentView DEF PartialInv
  <2>3. FirmInv'
    BY <1>4, <1>5, <2>1, <2>2 DEF FirmInv
  <2>4. PartialInv'
    BY <1>6, <2>1 DEF PartialInv
  <2> QED
    BY <2>3, <2>4
<1>10. CASE Remove(p) \/ Truncate(p)
  <2>1. /\ \A q \in Files \ {p} : lines'[q] = lines[q]
        /\ \A i \in DOMAIN lines'[p] : i \in DOMAIN lines[p] /\ lines'[p][i] = lines[p][i]
    BY <1>10, CutLines DEF TypeOK
  <2>2. FirmInv'
    BY <1>4, <2>1 DEF FirmInv
  <2>3. PartialInv'
    BY <1>6, <2>1 DEF PartialInv
  <2> QED
    BY <2>2, <2>3
<1> QED
  BY <1>7, <1>8, <1>9, <1>10 DEF Agent

\* A position moves past a turn by having it in hand: the tailer's by Read, the
\* registry's by Parse.
LEMMA FirmTap ==
    ASSUME TypeOK, ShapeInv, FirmInv, PartialInv, DrainRound \/ Start \/ Stop
    PROVE  FirmInv' /\ PartialInv'
<1>1. lines' = lines /\ shadowed' = shadowed
  BY Identified DEF agents, DrainRound, Start, Stop, BeginRound, Stat, Read, ReadFails, Parse,
         ParsedAll, ReturnTurns, Deliver, DeliverFails, EndRound, history
<1>2. \A q \in Files : \A i \in DOMAIN lines[q] : Firm(q, i) => Firm(q, i)'
  BY <1>1, Identified DEF Firm
<1>3. \A q \in Files : lines[q] \in Seq(Line)
  BY DEF TypeOK
<1>4. PartialInv'
  <2> SUFFICES ASSUME NEW q \in Files, NEW i \in DOMAIN lines[q], lines[q][i].kind = "partial",
                      Shadows(q, i)'
               PROVE  lines[q][i].id \in shadowed
    BY <1>1 DEF PartialInv
  <2>1. i = Len(lines[q]) /\ Complete(q) = Len(lines[q]) - 1
    <3>1. i = Len(lines[q]) /\ lines[q] # <<>>
      BY <1>3 DEF ShapeInv
    <3> QED
      BY <3>1 DEF EndsPartial, Complete
  <2>2. i \notin ReadSet(q, tail[q].offset)
    BY <1>3, <2>1 DEF ReadSet
  <2> QED
    BY <2>2, ShadowsBack DEF PartialInv
<1>5. ASSUME NEW q \in Files, NEW i \in DOMAIN lines[q], lines[q][i].kind = "turn",
             InGot(q, i), ~End
      PROVE  Firm(q, i)' \/ InGot(q, i)'
  <2>1. pc = "parse" /\ ~ParsedAll
    BY <1>5 DEF InGot, ShapeInv, ParsedAll
  <2>2. CASE UNCHANGED got
    BY <1>1, <1>5, <2>2 DEF InGot
  <2>3. ASSUME NEW p \in Files, NEW n \in 1..MaxLines, Parse(p, n)
        PROVE  Firm(q, i)' \/ InGot(q, i)'
    <3>1. /\ n \in DOMAIN got /\ got' = [k \in DOMAIN got \ {n} |-> got[k]]
          /\ got[n].kind = "turn" =>
                 \/ out' = Append(out, [id |-> got[n].id, file |-> p])
                 \/ got[n].id \in orphaned'
      BY <2>3 DEF Parse, IsTurn
    <3>2. CASE n # i
      BY <1>1, <1>5, <3>1, <3>2 DEF InGot
    <3>3. CASE n = i
      <4>1. ASSUME out' = Append(out, [id |-> got[n].id, file |-> p])
            PROVE  got[n].id \in OutIds'
        <5>1. out \in Seq(Turn)
          BY DEF TypeOK
        <5>2. /\ Len(out) + 1 \in DOMAIN out'
              /\ out'[Len(out) + 1] = [id |-> got[n].id, file |-> p]
          BY <4>1, <5>1
        <5> QED
          BY <5>2 DEF OutIds
      <4> QED
        BY <1>1, <1>5, <3>1, <3>3, <4>1 DEF InGot, Firm
    <3> QED
      BY <3>2, <3>3
  <2> QED
    BY <1>5, <2>1, <2>2, <2>3 DEF DrainRound, Start, Stop, BeginRound, Stat, Read, ReadFails,
         ParsedAll, ReturnTurns, Deliver, DeliverFails, EndRound, memory
<1>6. ASSUME NEW q \in Files, NEW i \in DOMAIN lines[q], lines[q][i].kind = "turn", Past(q, i)'
      PROVE  Firm(q, i)'
  <2>1. CASE Past(q, i)
    BY <1>2, <1>6, <2>1 DEF FirmInv
  <2>2. CASE pc = "stat" /\ Shadows(q, i)
    BY <1>2, <1>6, <2>2 DEF FirmInv, InGot, ShapeInv
  <2>3. ASSUME NEW n \in DOMAIN got, Parse(q, n), n >= i, Shadows(q, i) PROVE Firm(q, i)'
    <3>1. Firm(q, i) \/ InGot(q, i)
      BY <1>6, <2>3 DEF FirmInv
    <3>2. ASSUME InGot(q, i) PROVE Firm(q, i)'
      <4>1. i = n
        BY <1>3, <2>3, <3>2 DEF InGot, Parse, TypeOK
      <4>2. i \notin DOMAIN got' /\ pc' = "parse"
        BY <2>3, <4>1 DEF Parse
      <4> QED
        BY <1>5, <1>6, <3>2, <4>2 DEF InGot, End
    <3> QED
      BY <1>2, <3>1, <3>2
  <2> QED
    BY <1>6, <2>1, <2>2, <2>3, PastBack
<1>7. ASSUME NEW q \in Files, NEW i \in DOMAIN lines[q], lines[q][i].kind = "turn",
             Shadows(q, i)'
      PROVE  Firm(q, i)' \/ InGot(q, i)'
  <2>1. CASE Shadows(q, i) /\ ~End
    <3>1. Firm(q, i) \/ InGot(q, i)
      BY <1>7, <2>1 DEF FirmInv
    <3> QED
      BY <1>2, <1>5, <1>7, <2>1, <3>1
  <2>2. CASE Past(q, i)
    BY <1>2, <1>7, <2>2 DEF FirmInv
  <2>3. CASE Read(q) /\ i \in ReadSet(q, tail[q].offset)
    BY <1>1, <1>7, <2>3 DEF Read, InGot
  <2> QED
    BY <1>7, <2>1, <2>2, <2>3, ShadowsBack
<1> QED
  BY <1>1, <1>4, <1>6, <1>7 DEF FirmInv

-----------------------------------------------------------------------------
(* Every line has its own id.                                              *)

\* There is no line yet.
LEMMA UniqueInit == Init => UniqueInv
BY DEF Init, UniqueInv, OutIds

\* Ids are numbers, and so is the last one given.
LEMMA IdsType ==
    ASSUME TypeOK
    PROVE  /\ lastLine \in Nat
           /\ \A q \in Files : \A i \in DOMAIN lines[q] :
                  lines[q][i] \in Line /\ lines[q][i].id \in Nat
           /\ \A n \in DOMAIN got : got[n] \in Line /\ got[n].id \in Nat
           /\ \A id \in delivered \cup orphaned \cup misfiled \cup OutIds : id \in Nat
<1>1. lastLine \in Nat
  BY Bounds DEF TypeOK
<1>2. \A q \in Files : \A i \in DOMAIN lines[q] : lines[q][i] \in Line
  <2>1. \A q \in Files : lines[q] \in Seq(Line)
    BY DEF TypeOK
  <2> QED
    BY <2>1
<1>3. \A n \in DOMAIN got : got[n] \in Line
  BY DEF TypeOK
<1>4. \A l \in Line : l.id \in Nat
  BY DEF Line, Ids
<1>5. \A id \in delivered \cup orphaned \cup misfiled \cup OutIds : id \in Nat
  BY OutIdsType DEF TypeOK, Ids
<1> QED
  BY <1>1, <1>2, <1>3, <1>4, <1>5

\* A line keeps its id and its place, or is new.
LEMMA AgentIds ==
    ASSUME TypeOK, NEW p \in Files, Agent(p)
    PROVE  /\ UNCHANGED <<at, got, out, delivered, orphaned, misfiled>>
           /\ lastLine' \in {lastLine, lastLine + 1}
           /\ \A q \in Files : \A i \in DOMAIN lines'[q] :
                  \/ i \in DOMAIN lines[q] /\ lines'[q][i].id = lines[q][i].id
                  \/ /\ q = p /\ i = Len(lines[p]) + 1
                     /\ lines'[q][i].id = lastLine + 1 /\ lastLine' = lastLine + 1
<1>0. \A q \in Files : DOMAIN lines[q] = 1..Len(lines[q])
  <2>1. \A q \in Files : lines[q] \in Seq(Line)
    BY DEF TypeOK
  <2> QED
    BY <2>1
<1>1. CASE Create(p)
  BY <1>1 DEF Create, memory, history
<1>2. CASE BeginLine(p)
  <2>1. UNCHANGED <<at, got, out, delivered, orphaned, misfiled>> /\ lastLine' = lastLine + 1
    BY <1>2 DEF BeginLine, memory
  <2>2. /\ \A q \in Files \ {p} : lines'[q] = lines[q]
        /\ DOMAIN lines'[p] = 1..Len(lines[p]) + 1 /\ DOMAIN lines[p] = 1..Len(lines[p])
        /\ \A i \in DOMAIN lines[p] : lines'[p][i] = lines[p][i]
        /\ lines'[p][Len(lines[p]) + 1].id = lastLine + 1
        /\ Len(lines[p]) \in Nat
    <3>1. lines[p] \in Seq(Line)
      BY DEF TypeOK
    <3> QED
      BY <1>2, <3>1, NewLine
  <2>3. \A i \in DOMAIN lines'[p] : i \in DOMAIN lines[p] \/ i = Len(lines[p]) + 1
    BY <2>2
  <2> QED
    BY <2>1, <2>2, <2>3
<1>3. CASE FinishLine(p)
  <2>1. UNCHANGED <<at, got, out, delivered, orphaned, misfiled, lastLine>>
    BY <1>3 DEF FinishLine, memory, history
  <2>2. /\ \A q \in Files \ {p} : lines'[q] = lines[q]
        /\ DOMAIN lines'[p] = DOMAIN lines[p]
        /\ \A i \in DOMAIN lines[p] : lines'[p][i].id = lines[p][i].id
    BY <1>3, LineDone
  <2> QED
    BY <2>1, <2>2
<1>4. CASE Remove(p) \/ Truncate(p)
  <2>1. UNCHANGED <<at, got, out, delivered, orphaned, misfiled, lastLine>>
    BY <1>4 DEF Remove, Truncate, memory
  <2>2. /\ \A q \in Files \ {p} : lines'[q] = lines[q]
        /\ \A i \in DOMAIN lines'[p] : i \in DOMAIN lines[p] /\ lines'[p][i] = lines[p][i]
    BY <1>4, CutLines DEF TypeOK
  <2> QED
    BY <2>1, <2>2
<1> QED
  BY <1>1, <1>2, <1>3, <1>4 DEF Agent

\* The turn parsed goes to the end, and the turn sent comes from the front.
LEMMA OutStep ==
    ASSUME TypeOK
    PROVE  /\ \A p \in Files, n \in 1..MaxLines : Parse(p, n) =>
                  \A k \in DOMAIN out' :
                      \/ k \in DOMAIN out /\ out'[k] = out[k]
                      \/ /\ out'[k] = [id |-> got[n].id, file |-> p]
                         /\ k = Len(out) + 1 /\ k \notin DOMAIN out
           /\ Deliver =>
                  /\ 1 \in DOMAIN out /\ Head(out) = out[1]
                  /\ \A k \in DOMAIN out' :
                         k \in Nat \ {0} /\ k + 1 \in DOMAIN out /\ out'[k] = out[k + 1]
<1>1. out \in Seq(Turn)
  BY DEF TypeOK
<1>2. ASSUME NEW t, out' = Append(out, t)
      PROVE  \A k \in DOMAIN out' : \/ k \in DOMAIN out /\ out'[k] = out[k]
                                    \/ out'[k] = t /\ k = Len(out) + 1 /\ k \notin DOMAIN out
  BY <1>1, <1>2
<1>3. ASSUME NEW p \in Files, NEW n \in 1..MaxLines, Parse(p, n)
      PROVE  \A k \in DOMAIN out' :
                 \/ k \in DOMAIN out /\ out'[k] = out[k]
                 \/ /\ out'[k] = [id |-> got[n].id, file |-> p]
                    /\ k = Len(out) + 1 /\ k \notin DOMAIN out
  <2>1. CASE out' = out
    BY <2>1
  <2>2. CASE out' = Append(out, [id |-> got[n].id, file |-> p])
    BY <1>2, <2>2
  <2> QED
    BY <1>3, <2>1, <2>2 DEF Parse
<1>4. ASSUME Deliver
      PROVE  /\ 1 \in DOMAIN out /\ Head(out) = out[1]
             /\ \A k \in DOMAIN out' :
                    k \in Nat \ {0} /\ k + 1 \in DOMAIN out /\ out'[k] = out[k + 1]
  <2>1. out # <<>> /\ out' = Tail(out)
    BY <1>4 DEF Deliver
  <2> QED
    BY <1>1, <2>1
<1> QED
  BY <1>3, <1>4

\* A new line gets a new id.
LEMMA UniqueAgents ==
    ASSUME TypeOK, UniqueInv, NEW p \in Files, Agent(p)
    PROVE  UniqueInv'
<1>0. /\ lastLine \in Nat /\ lastLine' \in Nat /\ lastLine <= lastLine'
      /\ OutIds' = OutIds
  BY AgentIds, IdsType DEF OutIds
<1> DEFINE Old(q, i) == i \in DOMAIN lines[q] /\ lines'[q][i].id = lines[q][i].id
           New(q, i) == /\ q = p /\ i = Len(lines[p]) + 1
                        /\ lines'[q][i].id = lastLine + 1 /\ lastLine' = lastLine + 1
<1>1. \A q \in Files : \A i \in DOMAIN lines'[q] : Old(q, i) \/ New(q, i)
  BY AgentIds
<1>2. ASSUME NEW q \in Files, NEW i, Old(q, i)
      PROVE  lines'[q][i].id \in Nat /\ lines'[q][i].id <= lastLine
  BY <1>2, IdsType DEF UniqueInv
<1>3. ASSUME NEW q \in Files, NEW r \in Files, NEW i \in DOMAIN lines'[q],
             NEW j \in DOMAIN lines'[r], lines'[q][i].id = lines'[r][j].id
      PROVE  q = r /\ i = j
  <2>1. CASE Old(q, i) /\ Old(r, j)
    <3>1. lines[q][i].id = lines[r][j].id
      BY <1>3, <2>1
    <3> QED
      BY <2>1, <3>1 DEF UniqueInv
  <2>2. CASE New(q, i) /\ New(r, j)
    BY <2>2
  <2>3. ~(Old(q, i) /\ New(r, j)) /\ ~(New(q, i) /\ Old(r, j))
    BY <1>0, <1>2, <1>3
  <2> QED
    BY <1>1, <2>1, <2>2, <2>3
<1>4. ASSUME NEW q \in Files, NEW i \in DOMAIN lines'[q] PROVE lines'[q][i].id <= lastLine'
  <2>1. CASE Old(q, i)
    BY <1>0, <1>2, <2>1
  <2>2. CASE New(q, i)
    BY <1>0, <2>2
  <2> QED
    BY <1>1, <2>1, <2>2
<1>5. /\ \A id \in (delivered \cup orphaned \cup misfiled \cup OutIds)' : id <= lastLine'
      /\ \A n \in DOMAIN got' : got'[n].id <= lastLine'
  <2>1. \A id \in delivered \cup orphaned \cup misfiled \cup OutIds : id \in Nat /\ id <= lastLine
    BY IdsType DEF UniqueInv
  <2>2. \A n \in DOMAIN got : got[n].id \in Nat /\ got[n].id <= lastLine
    BY IdsType DEF UniqueInv
  <2>3. UNCHANGED <<got, delivered, orphaned, misfiled>>
    BY AgentIds
  <2> QED
    BY <1>0, <2>1, <2>2, <2>3
\* A line with an id that tap holds is an old one.
<1>6. ASSUME NEW q \in Files, NEW i \in DOMAIN lines'[q], NEW id \in Nat, id <= lastLine,
             lines'[q][i].id = id
      PROVE  i \in DOMAIN lines[q] /\ lines[q][i].id = id
  <2>1. ~New(q, i)
    BY <1>0, <1>6
  <2> QED
    BY <1>1, <1>6, <2>1
<1>7. ASSUME NEW n \in DOMAIN got, NEW q \in Files, NEW i \in DOMAIN lines'[q],
             got[n].id = lines'[q][i].id
      PROVE  at = {q}
  <2>1. got[n].id \in Nat /\ got[n].id <= lastLine
    BY IdsType DEF UniqueInv
  <2>2. i \in DOMAIN lines[q] /\ got[n].id = lines[q][i].id
    BY <1>6, <1>7, <2>1
  <2> QED
    BY <2>2 DEF UniqueInv
<1>8. ASSUME NEW j \in DOMAIN out, NEW q \in Files, NEW i \in DOMAIN lines'[q],
             out[j].id = lines'[q][i].id
      PROVE  out[j].file = q
  <2>1. out[j].id \in OutIds
    BY DEF OutIds
  <2>2. out[j].id \in Nat /\ out[j].id <= lastLine
    BY <2>1, IdsType DEF UniqueInv
  <2>3. i \in DOMAIN lines[q] /\ out[j].id = lines[q][i].id
    BY <1>6, <1>8, <2>2
  <2> QED
    BY <2>3 DEF UniqueInv
<1>9. UNCHANGED <<at, got, out>>
  BY AgentIds
<1> HIDE DEF Old, New
<1> QED
  BY <1>3, <1>4, <1>5, <1>7, <1>8, <1>9 DEF UniqueInv

\* Tap takes the ids it holds from the file it reads.
LEMMA UniqueTap ==
    ASSUME TypeOK, ShapeInv, UniqueInv, DrainRound \/ Start \/ Stop
    PROVE  UniqueInv'
<1>0. lines' = lines /\ lastLine' = lastLine
  BY Identified DEF agents
<1> SUFFICES
      /\ \A id \in (delivered \cup orphaned \cup misfiled \cup OutIds)' : id <= lastLine
      /\ \A n \in DOMAIN got' : got'[n].id <= lastLine
      /\ \A n \in DOMAIN got', q \in Files : \A i \in DOMAIN lines[q] :
             got'[n].id = lines[q][i].id => at' = {q}
      /\ \A j \in DOMAIN out', q \in Files : \A i \in DOMAIN lines[q] :
             out'[j].id = lines[q][i].id => out'[j].file = q
  BY <1>0 DEF UniqueInv
<1>1. CASE Start \/ BeginRound \/ ReturnTurns \/ EndRound \/ ParsedAll \/ \E p \in Files : Stat(p)
  <2>1. /\ UNCHANGED <<got, out, delivered, orphaned, misfiled>>
        /\ at' = at \/ DOMAIN got = {}
    BY <1>1 DEF Start, BeginRound, ReturnTurns, EndRound, ParsedAll, Stat, memory, history,
                ShapeInv
  <2> QED
    BY <2>1 DEF UniqueInv, OutIds
<1>2. CASE Stop \/ DeliverFails \/ \E p \in Files : ReadFails(p)
  <2>1. End
    BY <1>2 DEF Stop, DeliverFails, ReadFails
  <2>2. /\ got' = <<>> /\ out' = <<>> /\ UNCHANGED <<orphaned, misfiled>>
        /\ delivered' = delivered \/ (out # <<>> /\ delivered' = delivered \cup {Head(out).id})
    BY <1>2, <2>1, EndType DEF Stop, DeliverFails, ReadFails, Stored
  <2>3. out # <<>> => Head(out).id \in OutIds
    <3>1. out \in Seq(Turn)
      BY DEF TypeOK
    <3>2. out # <<>> => 1 \in DOMAIN out /\ Head(out) = out[1]
      BY <3>1
    <3> QED
      BY <3>2 DEF OutIds
  <2>4. OutIds' = {}
    BY <2>2 DEF OutIds
  <2> QED
    BY <2>2, <2>3, <2>4 DEF UniqueInv
<1>3. ASSUME NEW p \in Files, Read(p) PROVE UniqueInv'
  <2>1. /\ UNCHANGED <<out, delivered, orphaned, misfiled>> /\ at' = {p}
        /\ \A n \in DOMAIN got' : n \in 1..Complete(p) /\ got'[n] = lines[p][n]
    BY <1>3, Entries DEF Read, ReadSet, history
  <2>2. \A n \in DOMAIN got' : n \in DOMAIN lines[p]
    <3>1. lines[p] \in Seq(Line)
      BY DEF TypeOK
    <3> QED
      BY <2>1, <3>1, CompleteType
  <2> QED
    BY <1>0, <2>1, <2>2 DEF UniqueInv, OutIds
<1>4. ASSUME NEW p \in Files, NEW n \in 1..MaxLines, Parse(p, n) PROVE UniqueInv'
  <2>1. /\ at = {p} /\ at' = {p} /\ n \in DOMAIN got /\ delivered' = delivered
        /\ orphaned' \subseteq orphaned \cup {got[n].id}
        /\ misfiled' \subseteq misfiled \cup {got[n].id}
        /\ got' = [k \in DOMAIN got \ {n} |-> got[k]]
    BY <1>4 DEF Parse
  <2>2. \A k \in DOMAIN out' : \/ k \in DOMAIN out /\ out'[k] = out[k]
                               \/ out'[k].id = got[n].id /\ out'[k].file = p
    BY <1>4, OutStep
  <2>3. OutIds' \subseteq OutIds \cup {got[n].id}
    BY <2>2 DEF OutIds
  <2>4. \A q \in Files : \A i \in DOMAIN lines[q] : got[n].id = lines[q][i].id => q = p
    BY <2>1 DEF UniqueInv
  <2>5. \A id \in (delivered \cup orphaned \cup misfiled \cup OutIds)' : id <= lastLine
    BY <2>1, <2>3 DEF UniqueInv
  <2>6. \A k \in DOMAIN got' : k \in DOMAIN got /\ got'[k] = got[k]
    BY <2>1
  <2>7. \A k \in DOMAIN out', q \in Files : \A i \in DOMAIN lines[q] :
          out'[k].id = lines[q][i].id => out'[k].file = q
    BY <2>2, <2>4 DEF UniqueInv
  <2>8. /\ \A k \in DOMAIN got' : got'[k].id <= lastLine
        /\ \A k \in DOMAIN got', q \in Files : \A i \in DOMAIN lines[q] :
               got'[k].id = lines[q][i].id => at' = {q}
    BY <2>1, <2>6 DEF UniqueInv
  <2> QED
    BY <1>0, <2>5, <2>7, <2>8 DEF UniqueInv
<1>5. CASE Deliver
  <2>1. /\ UNCHANGED <<at, got, orphaned, misfiled>> /\ delivered' = delivered \cup {Head(out).id}
    BY <1>5 DEF Deliver, Stored
  <2>2. /\ 1 \in DOMAIN out /\ Head(out) = out[1]
        /\ \A k \in DOMAIN out' : k + 1 \in DOMAIN out /\ out'[k] = out[k + 1]
    BY <1>5, OutStep
  <2>3. Head(out).id \in OutIds /\ OutIds' \subseteq OutIds
    BY <2>2 DEF OutIds
  <2> QED
    BY <1>0, <2>1, <2>2, <2>3 DEF UniqueInv
<1> QED
  BY <1>0, <1>1, <1>2, <1>3, <1>4, <1>5 DEF DrainRound, UniqueInv

-----------------------------------------------------------------------------
(* A header is read before the turns behind it.                            *)

\* No file has a line and nothing is remembered.
LEMMA HeaderInit == Init => HeaderInv
<1> SUFFICES ASSUME Init PROVE HeaderInv
  OBVIOUS
<1>1. \A p \in Files : lines[p] = <<>> /\ tail[p].offset = 0
  BY DEF Init, NoEntry
<1>2. at = {}
  BY DEF Init
<1> QED
  BY <1>1, <1>2, Bounds DEF HeaderInv

\* The first line of a rollout stays its header, and a new line has a new id.
LEMMA HeaderAgents ==
    ASSUME TypeOK, UniqueInv, HeaderInv, NEW p \in Files, Agent(p)
    PROVE  HeaderInv'
<1>0. UNCHANGED <<tail, known, at, got, orphaned, resumed>>
  BY DEF Agent, Create, BeginLine, FinishLine, Remove, Truncate, memory, history
<1>1. \A q \in Files : lines[q] \in Seq(Line)
  BY DEF TypeOK
<1>2. ASSUME NEW q \in Codex, lines'[q] # <<>> PROVE lines'[q][1].kind = "meta"
  <2>0. q \in Files /\ (lines[q] # <<>> => lines[q][1].kind = "meta")
    BY Bounds DEF HeaderInv
  <2>1. lines[q] # <<>> => 1 \in DOMAIN lines[q]
    BY <1>1, <2>0
  <2>2. lines[q] = <<>> => DOMAIN lines[q] = {} /\ Len(lines[q]) = 0
    OBVIOUS
  <2>3. CASE q # p \/ Create(p)
    <3>1. lines'[q] = lines[q]
      BY <2>0, <2>3, NewLine, LineDone, CutLines DEF Agent, Create, TypeOK
    <3> QED
      BY <1>2, <2>0, <3>1
  <2>4. CASE q = p /\ BeginLine(p)
    <3>1. CASE lines[q] = <<>>
      BY <2>4, <3>1, NewLine
    <3>2. CASE lines[q] # <<>>
      BY <2>0, <2>1, <2>4, <3>2, NewLine
    <3> QED
      BY <3>1, <3>2
  <2>5. CASE q = p /\ FinishLine(p)
    <3>1. /\ lines[q] # <<>>
          /\ \A i \in DOMAIN lines[q] \ {Len(lines[q])} : lines'[q][i] = lines[q][i]
          /\ lines[q][Len(lines[q])].kind = "partial"
      BY <2>2, <2>5, LineDone
    <3>2. 1 # Len(lines[q])
      BY <2>0, <3>1
    <3> QED
      BY <2>0, <2>1, <3>1, <3>2
  <2>6. CASE q = p /\ (Remove(p) \/ Truncate(p))
    <3>1. /\ lines' \in [Files -> Seq(Line)]
          /\ \A i \in DOMAIN lines'[p] : i \in DOMAIN lines[p] /\ lines'[p][i] = lines[p][i]
      BY <1>1, <2>6, CutLines DEF TypeOK
    <3>2. lines'[p] \in Seq(Line)
      BY <3>1
    <3>3. 1 \in DOMAIN lines'[p]
      BY <1>2, <2>6, <3>2
    <3> QED
      BY <2>0, <2>2, <2>6, <3>1, <3>3
  <2> QED
    BY <2>3, <2>4, <2>5, <2>6 DEF Agent
<1>3. ASSUME NEW q \in Codex \ resumed, NEW i \in DOMAIN lines'[q]
      PROVE  lines'[q][i].id \notin orphaned
  <2>1. CASE i \in DOMAIN lines[q] /\ lines'[q][i].id = lines[q][i].id
    BY <1>3, <2>1 DEF HeaderInv
  <2>2. CASE lines'[q][i].id = lastLine + 1
    <3>1. lastLine + 1 \notin orphaned
      <4>1. \A id \in orphaned : id \in Nat /\ id <= lastLine
        BY IdsType DEF UniqueInv
      <4> QED
        BY <4>1, IdsType
    <3> QED
      BY <2>2, <3>1
  <2>3. q \in Files
    BY Bounds
  <2> QED
    BY <2>1, <2>2, <2>3, AgentIds
<1> QED
  BY <1>0, <1>2, <1>3 DEF HeaderInv, Headed

\* Tap keeps the header of a file it reads from the start, and drops it last.
LEMMA HeaderTap ==
    ASSUME TypeOK, ShapeInv, UniqueInv, HeaderInv, DrainRound \/ Start \/ Stop
    PROVE  HeaderInv'
<1>0. /\ lines' = lines /\ tail \in [Files -> Position]
      /\ \A p \in Files : tail[p].offset \in Nat
  BY Identified, Entries DEF agents
<1>1. ASSUME HeaderInv, UNCHANGED <<tail, known, orphaned, resumed>>, at' = {} \/ at' = at,
             got' = got, DOMAIN got = {} \/ at' = at
      PROVE  HeaderInv'
  BY <1>0, <1>1 DEF HeaderInv, Headed
<1>2. CASE Start \/ ParsedAll \/ ReturnTurns \/ Deliver \/ EndRound
  BY <1>1, <1>2 DEF Start, ParsedAll, ReturnTurns, Deliver, EndRound, memory, history
<1>3. CASE Stop \/ DeliverFails \/ \E p \in Files : ReadFails(p)
  <2>1. End /\ UNCHANGED <<orphaned, resumed>>
    BY <1>3 DEF Stop, DeliverFails, ReadFails
  <2>2. at' = {} /\ \A p \in Files : tail'[p].offset = 0
    BY <2>1 DEF End, NoEntry
  <2> QED
    BY <1>0, <2>1, <2>2, Bounds DEF HeaderInv
<1>4. CASE BeginRound
  <2>1. /\ UNCHANGED <<known, at, got, orphaned>> /\ at = {}
        /\ resumed \subseteq resumed'
        /\ \A p \in Files : tail'[p] = tail[p] \/ (tail'[p].offset > 0 => p \in resumed')
    BY <1>4 DEF BeginRound, ShapeInv
  <2> QED
    BY <1>0, <2>1, Bounds DEF HeaderInv, Headed
<1>5. ASSUME NEW p \in Files, Stat(p) PROVE HeaderInv'
  <2>1. /\ UNCHANGED <<known, got, orphaned, resumed>> /\ at = {} /\ DOMAIN got = {}
    BY <1>5 DEF Stat, ShapeInv, history
  <2>2. \A q \in Files \ {p} : tail'[q] = tail[q]
    BY <1>0, <1>5 DEF Stat
  <2>3. tail'[p].offset > 0 => tail[p].offset > 0
    <3>1. tail'[p] = IF Exists(p) THEN Checked(p) ELSE tail[p]
      BY <1>0, <1>5 DEF Stat
    <3> QED
      BY <1>0, <3>1, CheckedKeeps
  <2> QED
    BY <1>0, <2>1, <2>2, <2>3, Bounds DEF HeaderInv, Headed
<1>6. ASSUME NEW p \in Files, Read(p) PROVE HeaderInv'
  <2> DEFINE read == ReadSet(p, tail[p].offset)
  <2>1. /\ UNCHANGED <<known, orphaned, resumed>> /\ at = {p} /\ at' = {p} /\ DOMAIN got = {}
        /\ got' = [n \in {k \in read : lines[p][k].kind # "oversize"} |-> lines[p][n]]
    BY <1>6 DEF Read, ShapeInv, history
  <2>2. PICK last \in read \cup {tail[p].offset} :
          /\ \A n \in read : n <= last
          /\ tail' = [tail EXCEPT ![p].offset = last]
    BY <1>6 DEF Read
  <2>3. tail'[p].offset = last /\ \A q \in Files \ {p} : tail'[q] = tail[q]
    BY <1>0, <2>2 DEF Position
  <2>4. ASSUME p \in Codex \ resumed, last > 0, known[p] = 0
        PROVE  1 \in DOMAIN got' /\ got'[1].kind = "meta"
    <3>1. tail[p].offset = 0
      BY <1>0, <2>1, <2>4 DEF HeaderInv, Headed
    <3>2. last \in ReadSet(p, 0) /\ last \in Int
      <4>1. last \in ReadSet(p, 0)
        BY <2>2, <2>4, <3>1
      <4> QED
        BY <4>1 DEF ReadSet
    <3>3. 1 \in ReadSet(p, 0)
      BY <2>4, <3>2, ReadSetClosed
    <3>4. lines[p] # <<>>
      <4>1. Complete(p) >= 1 /\ lines[p] \in Seq(Line)
        BY <3>3, CompleteType DEF ReadSet, TypeOK
      <4> QED
        BY <4>1, CompleteType
    <3>5. lines[p][1].kind = "meta"
      BY <2>4, <3>4 DEF HeaderInv
    <3> QED
      BY <2>1, <3>1, <3>3, <3>5
  <2>5. \A q \in Codex \ resumed : tail'[q].offset > 0 => Headed(q)'
    <3>1. ASSUME NEW q \in Codex \ resumed, q # p, tail'[q].offset > 0 PROVE known[q] # 0
      <4>1. q \in Files
        BY Bounds
      <4>2. Headed(q)
        BY <2>3, <3>1, <4>1 DEF HeaderInv
      <4> QED
        BY <2>1, <3>1, <4>2 DEF Headed
    <3> QED
      BY <2>1, <2>3, <2>4, <3>1 DEF Headed
  <2>6. \A n \in DOMAIN got' : n <= tail'[p].offset
    BY <2>1, <2>2, <2>3
  <2>7. \A q \in Files : at' = {q} => q = p
    BY <2>1
  <2> QED
    BY <1>0, <2>1, <2>5, <2>6, <2>7 DEF HeaderInv
<1>7. ASSUME NEW p \in Files, NEW n \in 1..MaxLines, Parse(p, n) PROVE HeaderInv'
  <2>1. /\ UNCHANGED <<tail, at, resumed>> /\ at = {p} /\ n \in DOMAIN got
        /\ got' = [k \in DOMAIN got \ {n} |-> got[k]]
        /\ \A k \in DOMAIN got : n <= k
        /\ \A q \in Codex : known[q] # 0 => known'[q] # 0
        /\ got[n].kind = "meta" => known'[p] # 0
        /\ orphaned' = orphaned
           \/ (/\ orphaned' = orphaned \cup {got[n].id} /\ got[n].kind = "turn"
               /\ p \in Codex /\ known[p] = 0)
    <3>1. got[n].id # 0 /\ (got[n].kind = "meta" => p \in Codex)
      BY <1>7, IdsType DEF Parse, ShapeInv, TypeOK, Line, Ids
    <3>2. known \in [Codex -> 0..MaxLines]
      BY DEF TypeOK
    <3> QED
      BY <1>7, <3>1, <3>2 DEF Parse, IsTurn, HasSession
  <2>2. 1 \in DOMAIN got => n = 1
    BY <2>1
  <2>3. p \in Codex \ resumed => known[p] # 0 \/ (n = 1 /\ got[1].kind = "meta")
    <3>1. n <= tail[p].offset
      BY <2>1 DEF HeaderInv
    <3>2. tail[p].offset > 0
      BY <1>0, <3>1
    <3> QED
      BY <2>2, <3>2 DEF HeaderInv, Headed
  <2>4. ASSUME NEW q \in Codex \ resumed, NEW i \in DOMAIN lines[q]
        PROVE  lines[q][i].id \notin orphaned'
    <3>1. lines[q][i].id \notin orphaned /\ q \in Files
      BY <2>4, Bounds DEF HeaderInv
    <3>2. lines[q][i].id = got[n].id => q = p
      BY <2>1, <3>1 DEF UniqueInv
    <3> QED
      BY <2>1, <2>3, <3>1, <3>2
  <2>5. ASSUME NEW q \in Codex \ resumed, tail[q].offset > 0 PROVE known'[q] # 0
    <3>1. Headed(q)
      BY <2>5 DEF HeaderInv
    <3> QED
      BY <2>1, <2>2, <3>1 DEF Headed
  <2>6. \A k \in DOMAIN got' : k \in DOMAIN got
    BY <2>1
  <2> QED
    BY <1>0, <2>1, <2>4, <2>5, <2>6 DEF HeaderInv, Headed
<1> QED
  BY <1>2, <1>3, <1>4, <1>5, <1>6, <1>7 DEF DrainRound

-----------------------------------------------------------------------------
(* A turn goes under the session of its file.                              *)

\* Unless it is replaced, a file keeps its inode and its lines, and grows.
LEMMA Grows ==
    ASSUME TypeOK, ShapeInv, NEW p \in Files, Agent(p), p \notin replaced'
    PROVE  /\ Exists(p) => inode'[p] = inode[p] /\ inode'[p] # 0
           /\ DOMAIN lines[p] \subseteq DOMAIN lines'[p]
           /\ \A i \in DOMAIN lines[p] : lines'[p][i].id = lines[p][i].id
           /\ Complete(p) \in Nat /\ Complete(p)' \in Nat /\ Complete(p) <= Complete(p)'
           /\ \A i \in 1..Complete(p) : lines'[p][i] = lines[p][i]
<1>0. /\ lines[p] \in Seq(Line) /\ DOMAIN lines[p] = 1..Len(lines[p]) /\ Len(lines[p]) \in Nat
      /\ Complete(p) \in 0..Len(lines[p])
  <2>1. lines[p] \in Seq(Line)
    BY DEF TypeOK
  <2> QED
    BY <2>1, CompleteType
<1>1. CASE Create(p)
  <2>1. lines' = lines /\ ~Exists(p)
    BY <1>1 DEF Create
  <2>2. Complete(p)' = Complete(p)
    BY <2>1 DEF Complete, EndsPartial
  <2> QED
    BY <1>0, <2>1, <2>2
<1>2. CASE BeginLine(p)
  <2>1. inode' = inode /\ Exists(p) /\ ~EndsPartial(p)
    BY <1>2 DEF BeginLine
  <2>2. /\ Len(lines'[p]) = Len(lines[p]) + 1 /\ DOMAIN lines'[p] = 1..Len(lines[p]) + 1
        /\ \A i \in DOMAIN lines[p] : lines'[p][i] = lines[p][i]
    BY <1>2, NewLine
  <2>3. Complete(p) = Len(lines[p]) /\ Complete(p)' \in {Len(lines[p]), Len(lines[p]) + 1}
    BY <1>0, <2>1, <2>2 DEF Complete
  <2> QED
    BY <1>0, <2>1, <2>2, <2>3 DEF Exists
<1>3. CASE FinishLine(p)
  <2>1. inode' = inode /\ EndsPartial(p)
    BY <1>3 DEF FinishLine
  <2>2. /\ Len(lines[p]) > 0 /\ Len(lines'[p]) = Len(lines[p])
        /\ DOMAIN lines'[p] = 1..Len(lines[p])
        /\ \A i \in DOMAIN lines[p] : lines'[p][i].id = lines[p][i].id
        /\ \A i \in DOMAIN lines[p] \ {Len(lines[p])} : lines'[p][i] = lines[p][i]
        /\ lines'[p][Len(lines[p])].kind # "partial"
    BY <1>3, LineDone
  <2>3. Complete(p) = Len(lines[p]) - 1 /\ Complete(p)' = Len(lines[p])
    BY <1>0, <2>1, <2>2 DEF Complete, EndsPartial
  <2> QED
    BY <1>0, <2>1, <2>2, <2>3 DEF Exists
<1>4. ~Remove(p) /\ ~Truncate(p)
  BY DEF Remove, Truncate
<1> QED
  BY <1>1, <1>2, <1>3, <1>4 DEF Agent

\* No file has a line and nothing is remembered.
LEMMA SessionInit == Init => SessionInv
<1> SUFFICES ASSUME Init PROVE SessionInv
  OBVIOUS
<1>1. \A p \in Codex : lines[p] = <<>> /\ known[p] = 0
  BY Bounds DEF Init
<1>2. at = {}
  BY DEF Init
<1> QED
  BY <1>1, <1>2 DEF SessionInv, Filed, Remembered

\* A line is one that was there, behind the same first line, or the new one of a file
\* whose first line it is or which keeps its first line.
LEMMA LineSessions ==
    ASSUME TypeOK, NEW p \in Files, Agent(p), NEW q \in Files, NEW i \in DOMAIN lines'[q]
    PROVE  \/ /\ i \in DOMAIN lines[q] /\ lines'[q][1].id = lines[q][1].id
              /\ lines'[q][i].id = lines[q][i].id
              /\ lines'[q][i].session = lines[q][i].session
              /\ lines'[q][i].kind = "meta" => lines[q][i].kind = "meta"
           \/ /\ lines'[q][i].id = lastLine + 1 /\ lines'[q][i].session = OwnHeader(q)
              /\ lines[q] = <<>> => i = 1
              /\ lines[q] # <<>> => /\ lines'[q][1].id = lines[q][1].id
                                    /\ lines'[q][i].kind # "meta"
<1>0. /\ \A r \in Files : lines[r] \in Seq(Line)
      /\ \A r \in Files : Len(lines[r]) \in Nat /\ DOMAIN lines[r] = 1..Len(lines[r])
      /\ \A r \in Files : lines[r] # <<>> => Len(lines[r]) > 0
  <2>1. \A r \in Files : lines[r] \in Seq(Line)
    BY DEF TypeOK
  <2> QED
    BY <2>1
<1>1. CASE q # p \/ Create(p)
  <2>1. lines'[q] = lines[q]
    BY <1>1, NewLine, LineDone, CutLines DEF Agent, Create, TypeOK
  <2> QED
    BY <2>1
<1>2. CASE q = p /\ BeginLine(p)
  <2>1. /\ DOMAIN lines'[p] = 1..Len(lines[p]) + 1
        /\ \A k \in DOMAIN lines[p] : lines'[p][k] = lines[p][k]
        /\ lines'[p][Len(lines[p]) + 1].id = lastLine + 1
        /\ lines'[p][Len(lines[p]) + 1].session = OwnHeader(p)
        /\ lines'[p][Len(lines[p]) + 1].kind = "meta" => lines[p] = <<>>
    BY <1>2, NewLine
  <2>2. lines[p] # <<>> => 1 \in DOMAIN lines[p]
    BY <1>0
  <2>3. i \in DOMAIN lines[p] \/ i = Len(lines[p]) + 1
    BY <1>0, <1>2, <2>1
  <2>4. i \in DOMAIN lines[p] => lines[p] # <<>>
    BY <1>0
  <2>5. lines[p] = <<>> => Len(lines[p]) + 1 = 1
    OBVIOUS
  <2>6. CASE i \in DOMAIN lines[p]
    BY <1>2, <2>1, <2>2, <2>4, <2>6
  <2>7. CASE i = Len(lines[p]) + 1
    BY <1>2, <2>1, <2>2, <2>5, <2>7
  <2> QED
    BY <2>3, <2>6, <2>7
<1>3. CASE q = p /\ FinishLine(p)
  <2>1. /\ Len(lines[p]) > 0 /\ DOMAIN lines'[p] = 1..Len(lines[p])
        /\ \A k \in DOMAIN lines[p] : /\ lines'[p][k].id = lines[p][k].id
                                      /\ lines'[p][k].session = lines[p][k].session
        /\ \A k \in DOMAIN lines[p] \ {Len(lines[p])} : lines'[p][k] = lines[p][k]
        /\ lines'[p][Len(lines[p])].kind # "meta"
    BY <1>3, LineDone
  <2>2. 1 \in DOMAIN lines[p] /\ i \in DOMAIN lines[p]
    BY <1>0, <1>3, <2>1
  <2>3. lines'[p][i].kind = "meta" => lines'[p][i] = lines[p][i]
    BY <2>1, <2>2
  <2> QED
    BY <1>3, <2>1, <2>2, <2>3
<1>4. CASE q = p /\ (Remove(p) \/ Truncate(p))
  <2>1. /\ lines' \in [Files -> Seq(Line)]
        /\ \A k \in DOMAIN lines'[p] : k \in DOMAIN lines[p] /\ lines'[p][k] = lines[p][k]
    BY <1>4, CutLines DEF TypeOK
  <2>2. 1 \in DOMAIN lines'[p]
    BY <1>4, <2>1
  <2> QED
    BY <1>4, <2>1, <2>2
<1> QED
  BY <1>1, <1>2, <1>3, <1>4 DEF Agent

\* A file that is only appended to keeps the session it has.
LEMMA SessionAgents ==
    ASSUME TypeOK, ShapeInv, UniqueInv, SessionInv, NEW p \in Files, Agent(p)
    PROVE  SessionInv'
<1>0. /\ UNCHANGED <<known, at, got, misfiled>> /\ replaced \subseteq replaced'
  BY DEF Agent, Create, BeginLine, FinishLine, Remove, Truncate, memory, history
<1>1. ASSUME NEW q \in Codex PROVE Filed(q)'
  <2>1. q \in Files /\ Filed(q)
    BY Bounds DEF SessionInv
  <2> SUFFICES ASSUME NEW i \in DOMAIN lines'[q]
               PROVE  /\ lines'[q][i].session = lines'[q][1].id
                      /\ lines'[q][i].kind = "meta" => lines'[q][i].id = lines'[q][i].session
    BY DEF Filed
  <2>2. CASE lines[q] = <<>> /\ i = 1 /\ lines'[q][i].id = lastLine + 1
             /\ lines'[q][i].session = OwnHeader(q)
    BY <1>1, <2>2 DEF OwnHeader
  <2>3. CASE lines[q] # <<>> /\ lines'[q][i].session = OwnHeader(q)
             /\ lines'[q][1].id = lines[q][1].id /\ lines'[q][i].kind # "meta"
    BY <1>1, <2>3 DEF OwnHeader
  <2>4. CASE /\ i \in DOMAIN lines[q] /\ lines'[q][1].id = lines[q][1].id
             /\ lines'[q][i].id = lines[q][i].id
             /\ lines'[q][i].session = lines[q][i].session
             /\ lines'[q][i].kind = "meta" => lines[q][i].kind = "meta"
    BY <2>1, <2>4 DEF Filed
  <2> QED
    BY <2>1, <2>2, <2>3, <2>4, LineSessions
<1>2. ASSUME NEW q \in Codex \ replaced' PROVE Remembered(q)'
  <2>0. q \in Files /\ Remembered(q)
    BY <1>0, Bounds DEF SessionInv
  <2>1. lines[q] # <<>> => lines'[q] # <<>> /\ lines'[q][1].id = lines[q][1].id
    <3>1. CASE q # p
      BY <2>0, <3>1, AgentView
    <3>2. CASE q = p
      <4>1. lines[q] \in Seq(Line)
        BY <2>0 DEF TypeOK
      <4>2. lines[q] # <<>> => 1 \in DOMAIN lines[q]
        BY <4>1
      <4>3. DOMAIN lines[q] \subseteq DOMAIN lines'[q]
            /\ \A k \in DOMAIN lines[q] : lines'[q][k].id = lines[q][k].id
        BY <1>2, <3>2, Grows
      <4> QED
        BY <4>2, <4>3
    <3> QED
      BY <3>1, <3>2
  <2>2. ASSUME NEW i \in DOMAIN lines'[q] PROVE lines'[q][i].id \notin misfiled
    <3>1. lastLine + 1 \notin misfiled
      <4>1. \A id \in misfiled : id \in Nat /\ id <= lastLine
        BY IdsType DEF UniqueInv
      <4> QED
        BY <4>1, IdsType
    <3>2. \/ i \in DOMAIN lines[q] /\ lines'[q][i].id = lines[q][i].id
          \/ lines'[q][i].id = lastLine + 1
      BY <2>0, <2>2, LineSessions
    <3> QED
      BY <2>0, <3>1, <3>2 DEF Remembered
  <2> QED
    BY <1>0, <2>0, <2>1, <2>2 DEF Remembered
<1> QED
  BY <1>1, <1>2 DEF SessionInv

\* Tap takes the session from the header it reads, and a turn's from what it remembers.
LEMMA SessionTap ==
    ASSUME TypeOK, ShapeInv, UniqueInv, SessionInv, DrainRound \/ Start \/ Stop
    PROVE  SessionInv'
<1>0. /\ lines' = lines /\ replaced' = replaced /\ \A q \in Codex : q \in Files
  <2>1. replaced' = replaced
    BY DEF DrainRound, Start, Stop, BeginRound, Stat, Read, ReadFails, Parse, ParsedAll,
           ReturnTurns, Deliver, DeliverFails, EndRound, history
  <2> QED
    BY <2>1, Identified, Bounds DEF agents
<1>1. \A q \in Codex : Filed(q) /\ Filed(q)'
  BY <1>0 DEF SessionInv, Filed
<1>2. ASSUME NEW q \in Codex \ replaced PROVE Remembered(q)
  BY <1>2 DEF SessionInv
<1>3. ASSUME UNCHANGED <<known, misfiled>>, UNCHANGED <<at, got>> \/ DOMAIN got' = {},
             NEW q \in Codex \ replaced
      PROVE  Remembered(q)'
  BY <1>0, <1>2, <1>3 DEF Remembered
<1>4. ASSUME End, UNCHANGED misfiled, NEW q \in Codex \ replaced PROVE Remembered(q)'
  <2>1. known'[q] = 0 /\ at' = {}
    BY <1>4, EndType
  <2> QED
    BY <1>0, <1>2, <1>4, <2>1 DEF Remembered
<1>5. CASE Start \/ BeginRound \/ ReturnTurns \/ Deliver \/ EndRound \/ ParsedAll
           \/ \E p \in Files : Stat(p)
  <2>1. UNCHANGED <<known, misfiled>> /\ (UNCHANGED <<at, got>> \/ DOMAIN got' = {})
    BY <1>5 DEF Start, BeginRound, ReturnTurns, Deliver, EndRound, ParsedAll, Stat, memory,
                history, ShapeInv
  <2> QED
    BY <1>0, <1>1, <1>3, <2>1 DEF SessionInv
<1>6. CASE Stop \/ DeliverFails \/ \E p \in Files : ReadFails(p)
  <2>1. End /\ UNCHANGED misfiled
    BY <1>6 DEF Stop, DeliverFails, ReadFails
  <2> QED
    BY <1>0, <1>1, <1>4, <2>1 DEF SessionInv
<1>7. ASSUME NEW p \in Files, Read(p), NEW q \in Codex \ replaced PROVE Remembered(q)'
  <2>1. /\ UNCHANGED <<known, misfiled>> /\ at' = {p}
        /\ \A n \in DOMAIN got' : n \in 1..Complete(p) /\ got'[n] = lines[p][n]
    BY <1>7, Entries DEF Read, ReadSet, history
  <2>2. ASSUME q = p, NEW n \in DOMAIN got'
        PROVE  /\ lines[q] # <<>> /\ got'[n].session = lines[q][1].id
               /\ got'[n].kind = "meta" => got'[n].id = got'[n].session
    <3>1. n \in DOMAIN lines[p] /\ lines[p] # <<>>
      <4>1. lines[p] \in Seq(Line) /\ n \in 1..Len(lines[p])
        BY <2>1, <2>2, CompleteType DEF TypeOK
      <4> QED
        BY <4>1
    <3> QED
      BY <1>1, <2>1, <2>2, <3>1 DEF Filed
  <2> QED
    BY <1>0, <1>2, <1>7, <2>1, <2>2 DEF Remembered
<1>8. ASSUME NEW p \in Files, NEW n \in 1..MaxLines, Parse(p, n), NEW q \in Codex \ replaced
      PROVE  Remembered(q)'
  <2>1. /\ at = {p} /\ at' = {p} /\ n \in DOMAIN got
        /\ got' = [k \in DOMAIN got \ {n} |-> got[k]]
        /\ known' = known \/ (got[n].kind = "meta" /\ known' = [known EXCEPT ![p] = got[n].id])
        /\ misfiled' = misfiled
           \/ (/\ misfiled' = misfiled \cup {got[n].id} /\ p \in Codex
               /\ known[p] # 0 /\ known[p] # got[n].session)
    BY <1>8 DEF Parse, IsTurn, HasSession
  <2>2. Remembered(q)
    BY <1>2, <1>8
  <2>3. q = p => /\ lines[p] # <<>> /\ got[n].session = lines[p][1].id
                 /\ got[n].kind = "meta" => got[n].id = got[n].session
                 /\ known[p] # 0 => known[p] = lines[p][1].id
    BY <2>1, <2>2 DEF Remembered
  <2>4. known'[q] # 0 => lines[q] # <<>> /\ known'[q] = lines[q][1].id
    <3>1. CASE known'[q] = known[q]
      BY <2>2, <3>1 DEF Remembered
    <3>2. CASE q = p /\ got[n].kind = "meta" /\ known'[q] = got[n].id
      BY <2>3, <3>2
    <3>3. known \in [Codex -> 0..MaxLines]
      BY DEF TypeOK
    <3> QED
      BY <2>1, <3>1, <3>2, <3>3
  <2>5. ASSUME NEW i \in DOMAIN lines[q] PROVE lines[q][i].id \notin misfiled'
    <3>1. lines[q][i].id \notin misfiled
      BY <2>2 DEF Remembered
    <3>2. lines[q][i].id = got[n].id => q = p
      BY <1>0, <2>1 DEF UniqueInv
    <3> QED
      BY <2>1, <2>3, <3>1, <3>2
  <2>6. \A k \in DOMAIN got' : k \in DOMAIN got /\ got'[k] = got[k]
    BY <2>1
  <2> QED
    BY <1>0, <2>1, <2>2, <2>4, <2>5, <2>6 DEF Remembered
<1> QED
  BY <1>0, <1>1, <1>5, <1>6, <1>7, <1>8 DEF DrainRound, SessionInv

-----------------------------------------------------------------------------
(* No turn is sent twice.                                                  *)

\* Nothing is remembered and nothing is there.
LEMMA OnceInit == Init => OnceInv
<1> SUFFICES ASSUME Init PROVE OnceInv
  OBVIOUS
<1>1. /\ disk = reg /\ ~unsaved /\ repeated = {} /\ at = {} /\ out = <<>>
      /\ \A p \in Files : reg[p] = NoEntry /\ tail[p] = NoEntry /\ lines[p] = <<>>
  BY DEF Init
<1>2. \A p \in Files : Complete(p) = 0
  BY <1>1 DEF Complete, EndsPartial
<1> QED
  BY <1>1, <1>2 DEF OnceInv, Kept, Passed, Queued, NoEntry

\* The new line has an id tap has not met.
LEMMA OnceAgents ==
    ASSUME TypeOK, ShapeInv, UniqueInv, OnceInv, NEW p \in Files, Agent(p)
    PROVE  OnceInv'
<1>0. /\ UNCHANGED <<disk, reg, tail, at, got, out, pc, delivered, repeated, unsaved, lost>>
      /\ replaced \subseteq replaced' /\ OutIds' = OutIds
  BY DEF Agent, Create, BeginLine, FinishLine, Remove, Truncate, memory, history, OutIds
<1> SUFFICES ASSUME NEW q \in Files, q \notin replaced', q \notin lost
             PROVE  Kept(q)' /\ Passed(q)' /\ Queued(q)'
  BY <1>0 DEF OnceInv, Excused
<1>1. Kept(q) /\ Passed(q) /\ Queued(q)
  BY <1>0 DEF OnceInv, Excused
<1>2. CASE q # p
  <2>1. lines'[q] = lines[q] /\ inode'[q] = inode[q]
    BY <1>2, AgentView
  <2>2. Complete(q)' = Complete(q)
    BY <2>1 DEF Complete, EndsPartial
  <2> QED
    BY <1>0, <1>1, <2>1, <2>2 DEF Kept, Passed, Queued, Exists
<1>3. CASE q = p
  <2>1. /\ reg[p].offset \in Nat /\ tail[p].offset \in Nat
        /\ DOMAIN got \subseteq Nat \ {0}
    BY Entries DEF TypeOK
  <2>2. /\ Exists(p) => inode'[p] = inode[p] /\ inode'[p] # 0
        /\ DOMAIN lines[p] \subseteq DOMAIN lines'[p]
        /\ \A i \in DOMAIN lines[p] : lines'[p][i].id = lines[p][i].id
        /\ Complete(p) \in Nat /\ Complete(p)' \in Nat /\ Complete(p) <= Complete(p)'
        /\ \A i \in 1..Complete(p) : lines'[p][i] = lines[p][i]
    BY <1>3, Grows
  <2>3. Kept(p)'
    <3>1. reg[p] = NoEntry \/ (inode'[p] # 0 /\ reg[p].inode = inode'[p])
      BY <1>1, <1>3, <2>2 DEF Kept
    <3>2. reg[p].offset <= Complete(p)' /\ (tail[p].inode # 0 => tail[p].offset <= Complete(p)')
      BY <1>1, <1>3, <2>1, <2>2 DEF Kept
    <3>3. ASSUME at = {p}, NEW n \in DOMAIN got PROVE got[n] = lines'[p][n]
      <4>1. tail[p].inode # 0
        BY <3>3 DEF ShapeInv
      <4>2. n <= tail[p].offset /\ tail[p].offset <= Complete(p) /\ got[n] = lines[p][n]
        BY <1>1, <1>3, <3>3, <4>1 DEF Kept
      <4> QED
        BY <2>1, <2>2, <4>2
    <3> QED
      BY <1>0, <1>1, <1>3, <3>1, <3>2, <3>3 DEF Kept, Exists
  <2>4. Passed(p)'
    <3> SUFFICES ASSUME NEW i \in DOMAIN lines'[p], lines'[p][i].id \in delivered \cup OutIds
                 PROVE  i <= reg[p].offset
      BY <1>0 DEF Passed
    <3>1. lines'[p][i].id # lastLine + 1
      BY IdsType DEF UniqueInv
    <3>2. i \in DOMAIN lines[p] /\ lines'[p][i].id = lines[p][i].id
      BY <3>1, AgentIds
    <3> QED
      BY <1>1, <1>3, <3>2 DEF Passed
  <2>5. Queued(p)'
    BY <1>0, <1>1, <1>3, <2>2 DEF Queued
  <2> QED
    BY <1>3, <2>3, <2>4, <2>5
<1> QED
  BY <1>2, <1>3

\* The index of a line in hand is the place of its id.
LEMMA InPlace ==
    ASSUME TypeOK, ShapeInv, UniqueInv, NEW p \in Files, Kept(p), at = {p}, NEW n \in DOMAIN got
    PROVE  /\ n \in DOMAIN lines[p] /\ n \in Nat /\ n <= Complete(p)
           /\ \A i \in DOMAIN lines[p] : lines[p][i].id = got[n].id => i = n
           /\ lines[p][n].id = got[n].id
<1>1. tail[p].inode # 0
  BY DEF ShapeInv
<1>2. n <= tail[p].offset /\ tail[p].offset <= Complete(p) /\ got[n] = lines[p][n]
  BY <1>1 DEF Kept
<1>3. n \in Nat /\ n > 0 /\ tail[p].offset \in Nat
  BY Entries DEF TypeOK
<1>4. n <= Complete(p) /\ n \in DOMAIN lines[p]
  <2>1. lines[p] \in Seq(Line) /\ Complete(p) \in 0..Len(lines[p]) /\ Len(lines[p]) \in Nat
    BY CompleteType, Entries DEF TypeOK
  <2> QED
    BY <1>2, <1>3, <2>1
<1> QED
  BY <1>2, <1>3, <1>4 DEF UniqueInv

\* The registry is moved and saved before a turn is sent, and only forward.
LEMMA OnceTap ==
    ASSUME TypeOK, ShapeInv, UniqueInv, OnceInv, DrainRound \/ Start \/ Stop
    PROVE  OnceInv'
<1>0. /\ lines' = lines /\ inode' = inode /\ replaced' = replaced
      /\ \A q \in Files : /\ Complete(q)' = Complete(q) /\ (Exists(q)' <=> Exists(q))
                          /\ Complete(q) \in Nat
                          /\ reg[q].offset \in Nat /\ tail[q].offset \in Nat
      /\ reg \in [Files -> Position] /\ tail \in [Files -> Position]
  <2>1. lines' = lines /\ inode' = inode
    BY Identified DEF agents
  <2>2. \A q \in Files : Complete(q)' = Complete(q) /\ (Exists(q)' <=> Exists(q))
    BY <2>1 DEF Complete, EndsPartial, Exists
  <2>3. replaced' = replaced
    BY DEF DrainRound, Start, Stop, BeginRound, Stat, Read, ReadFails, Parse, ParsedAll,
           ReturnTurns, Deliver, DeliverFails, EndRound, history
  <2>4. \A q \in Files : Complete(q) \in Nat
    BY CompleteType, Entries
  <2> QED
    BY <2>1, <2>2, <2>3, <2>4, Entries
<1>1. /\ repeated \subseteq Excused
      /\ \A q \in Files \ Excused : Kept(q) /\ Passed(q) /\ Queued(q)
  BY DEF OnceInv
\* The two registries.
<1>10. (~unsaved' => disk' = reg') /\ (pc' = "down" => ~unsaved')
  <2>0. (~unsaved => disk = reg) /\ (pc = "down" => ~unsaved)
    BY DEF OnceInv
  <2>1. CASE Start
    BY <2>0, <2>1, LoadType DEF Start
  <2>2. CASE Stop \/ DeliverFails \/ \E p \in Files : ReadFails(p)
    BY <2>2 DEF Stop, DeliverFails, ReadFails, End
  <2>3. CASE BeginRound
    <3>1. Found = {} => reg' = reg
      BY <1>0, <2>3 DEF BeginRound
    <3> QED
      BY <2>0, <2>3, <3>1 DEF BeginRound, Save
  <2>4. ASSUME NEW p \in Files, NEW n \in 1..MaxLines, Parse(p, n)
        PROVE  (~unsaved' => disk' = reg') /\ (pc' = "down" => ~unsaved')
    BY <2>4 DEF Parse, Save
  <2>5. CASE ParsedAll \/ ReturnTurns \/ Deliver \/ EndRound \/ \E p \in Files : Stat(p) \/ Read(p)
    <3>1. UNCHANGED <<disk, reg, unsaved>> /\ pc' # "down"
      BY <2>5 DEF ParsedAll, ReturnTurns, Deliver, EndRound, Stat, Read, history
    <3> QED
      BY <2>0, <3>1
  <2> QED
    BY <2>1, <2>2, <2>3, <2>4, <2>5 DEF DrainRound
<1> SUFFICES /\ repeated' \subseteq Excused'
             /\ \A q \in Files \ Excused' : Kept(q)' /\ Passed(q)' /\ Queued(q)'
  BY <1>10 DEF OnceInv
\* Steps that lose no position.
<1>11. ASSUME lost' = lost PROVE Excused' = Excused
  BY <1>0, <1>11 DEF Excused
\* Steps that leave the turns alone.
<1>2. ASSUME UNCHANGED <<out, delivered>>, NEW q \in Files \ Excused,
             reg[q].offset = reg'[q].offset
      PROVE  Passed(q)' /\ Queued(q)'
  <2>1. OutIds' = OutIds
    BY <1>2 DEF OutIds
  <2> QED
    BY <1>0, <1>1, <1>2, <2>1 DEF Passed, Queued
<1>3. CASE ParsedAll \/ ReturnTurns \/ EndRound
  <2>1. /\ UNCHANGED <<disk, reg, tail, got, out, delivered, repeated, lost>>
        /\ at' = at \/ at' = {}
    BY <1>3 DEF ParsedAll, ReturnTurns, EndRound, memory, history
  <2>2. \A q \in Files \ Excused : Kept(q)'
    BY <1>0, <1>1, <2>1 DEF Kept
  <2> QED
    BY <1>1, <1>2, <1>11, <2>1, <2>2
<1>12. CASE Start
  <2>1. /\ UNCHANGED <<disk, tail, at, got, out, delivered, repeated>>
        /\ pc = "down" /\ Excused \subseteq Excused'
    BY <1>0, <1>12, LoadType DEF Start, memory, Excused
  <2>2. disk = reg
    BY <2>1 DEF OnceInv
  <2>3. ASSUME NEW q \in Files \ Excused' PROVE reg'[q] = reg[q]
    BY <1>12, <2>2, <2>3, LoadType DEF Start, Excused
  <2>4. ASSUME NEW q \in Files \ Excused' PROVE Kept(q)' /\ Passed(q)' /\ Queued(q)'
    <3>1. q \in Files \ Excused /\ reg'[q] = reg[q]
      BY <2>1, <2>3, <2>4
    <3>2. Kept(q)'
      BY <1>0, <1>1, <2>1, <3>1 DEF Kept
    <3> QED
      BY <1>2, <2>1, <3>1, <3>2
  <2> QED
    BY <1>1, <2>1, <2>4
<1>4. CASE Stop \/ DeliverFails \/ \E p \in Files : ReadFails(p)
  <2>1. End /\ disk' = disk
    BY <1>4 DEF Stop, DeliverFails, ReadFails
  <2>2. /\ at' = {} /\ out' = <<>> /\ OutIds' = {}
        /\ \A q \in Files : tail'[q].inode = 0
        /\ Excused \subseteq Excused'
    BY <1>0, <2>1, EndType DEF End, NoEntry, OutIds, Excused
  <2>3. ASSUME NEW q \in Files \ Excused' PROVE reg'[q] = reg[q]
    <3>1. reg' = disk /\ (~unsaved => disk = reg)
      BY <2>1 DEF End, OnceInv
    <3>2. unsaved => lost' = lost \cup {r \in Files : disk[r] # reg[r]}
      BY <2>1 DEF End
    <3>3. unsaved => disk[q] = reg[q]
      BY <2>3, <3>2 DEF Excused
    <3> QED
      BY <3>1, <3>3
  <2>4. /\ out # <<>> => 1 \in DOMAIN out /\ Head(out) = out[1] /\ Head(out).id \in OutIds
                         /\ out[1].file \in Files
    <3>1. out \in Seq(Turn)
      BY DEF TypeOK
    <3>2. out # <<>> => 1 \in DOMAIN out /\ Head(out) = out[1]
      BY <3>1
    <3> QED
      BY <3>2, Entries DEF OutIds
  <2>5. \/ UNCHANGED <<delivered, repeated>>
        \/ out # <<>> /\ Stored(Head(out))
    BY <1>4 DEF Stop, DeliverFails, ReadFails
  <2>6. delivered' \subseteq delivered \cup OutIds /\ repeated' \subseteq Excused
    <3>1. CASE out # <<>> /\ Stored(Head(out))
      <4>1. Head(out).id \in delivered => Head(out).file \in Excused
        BY <1>1, <2>4, <3>1 DEF Queued
      <4> QED
        BY <1>1, <2>4, <3>1, <4>1 DEF Stored
    <3> QED
      BY <1>1, <2>5, <3>1
  <2>7. ASSUME NEW q \in Files \ Excused' PROVE Kept(q)' /\ Passed(q)' /\ Queued(q)'
    <3>1. q \in Files \ Excused /\ reg'[q] = reg[q]
      BY <2>2, <2>3, <2>7
    <3>2. Kept(q)'
      BY <1>0, <1>1, <2>2, <3>1 DEF Kept
    <3>3. Passed(q)' /\ Queued(q)'
      BY <1>0, <1>1, <2>2, <2>6, <3>1 DEF Passed, Queued
    <3> QED
      BY <3>2, <3>3
  <2> QED
    BY <2>2, <2>6, <2>7
<1>5. CASE BeginRound
  <2>1. UNCHANGED <<got, out, delivered, repeated, lost>> /\ at = {} /\ at' = {}
    BY <1>5 DEF BeginRound, ShapeInv
  <2>2. ASSUME NEW q \in Files \ Excused, q \in Found
        PROVE  /\ reg'[q].offset = reg[q].offset /\ reg'[q].inode = inode[q] /\ Exists(q)
               /\ tail'[q] = reg'[q]
    <3>1. reg[q] = NoEntry \/ (reg[q].inode = inode[q] /\ reg[q].offset <= Complete(q))
      BY <1>1 DEF Kept
    <3>2. Exists(q)
      BY <2>2 DEF Found
    <3>3. ResumeOffset(reg[q], q) = reg[q].offset
      BY <3>1, <3>2 DEF ResumeOffset, NoEntry, Exists
    <3>4. /\ tail'[q] = [inode |-> inode[q], offset |-> ResumeOffset(reg[q], q)]
          /\ reg'[q] = tail'[q]
      BY <1>5, <2>2 DEF BeginRound
    <3> QED
      BY <3>2, <3>3, <3>4
  <2>3. ASSUME NEW q \in Files \ Excused, q \notin Found
        PROVE  reg'[q] = reg[q] /\ tail'[q] = tail[q]
    BY <1>5, <2>3 DEF BeginRound
  <2>4. \A q \in Files \ Excused : reg'[q].offset = reg[q].offset
    BY <2>2, <2>3
  <2>5. ASSUME NEW q \in Files \ Excused PROVE Kept(q)'
    <3>1. Kept(q)
      BY <1>1
    <3>2. CASE q \in Found
      BY <1>0, <2>1, <2>2, <3>1, <3>2 DEF Kept
    <3>3. CASE q \notin Found
      BY <1>0, <2>1, <2>3, <3>1, <3>3 DEF Kept
    <3> QED
      BY <3>2, <3>3
  <2> QED
    BY <1>1, <1>2, <1>11, <2>1, <2>4, <2>5
<1>6. ASSUME NEW p \in Files, Stat(p)
      PROVE  /\ repeated' \subseteq Excused'
             /\ \A q \in Files \ Excused' : Kept(q)' /\ Passed(q)' /\ Queued(q)'
  <2>1. /\ UNCHANGED <<disk, reg, got, out, delivered, repeated, lost>> /\ DOMAIN got = {}
        /\ p \in todo
    BY <1>6 DEF Stat, ShapeInv, history
  <2>2. ASSUME NEW q \in Files \ Excused PROVE tail'[q] = tail[q]
    <3>1. CASE q # p
      BY <1>0, <1>6, <3>1 DEF Stat
    <3>2. CASE q = p
      <4>1. tail[p].inode # 0
        BY <2>1 DEF ShapeInv
      <4>2. tail[p].inode = reg[p].inode /\ tail[p].offset <= Complete(p)
        BY <1>1, <3>2, <4>1 DEF Kept
      <4>3. reg[p].inode = inode[p]
        BY <1>1, <3>2, <4>1, <4>2 DEF Kept, NoEntry
      <4>4. Checked(p) = tail[p]
        BY <1>0, <4>2, <4>3 DEF Checked
      <4> QED
        BY <1>0, <1>6, <3>2, <4>4 DEF Stat
    <3> QED
      BY <3>1, <3>2
  <2>3. \A q \in Files \ Excused : Kept(q)'
    BY <1>0, <1>1, <2>1, <2>2 DEF Kept
  <2> QED
    BY <1>1, <1>2, <1>11, <2>1, <2>3
<1>7. ASSUME NEW p \in Files, Read(p)
      PROVE  /\ repeated' \subseteq Excused'
             /\ \A q \in Files \ Excused' : Kept(q)' /\ Passed(q)' /\ Queued(q)'
  <2> DEFINE read == ReadSet(p, tail[p].offset)
  <2>1. /\ UNCHANGED <<disk, reg, out, delivered, repeated, lost>> /\ at' = {p} /\ at = {p}
        /\ \A n \in DOMAIN got' : n \in read /\ got'[n] = lines[p][n]
    BY <1>7 DEF Read, history
  <2>2. PICK last \in read \cup {tail[p].offset} :
          /\ \A n \in read : n <= last
          /\ tail' = [tail EXCEPT ![p].offset = last]
    BY <1>7 DEF Read
  <2>3. /\ tail'[p].offset = last /\ tail'[p].inode = tail[p].inode
        /\ \A q \in Files \ {p} : tail'[q] = tail[q]
    BY <1>0, <2>2 DEF Position
  <2>4. \A n \in read : n \in Nat /\ tail[p].offset < n /\ n <= Complete(p)
    BY <1>0 DEF ReadSet
  <2> HIDE DEF read
  <2>5. ASSUME NEW q \in Files \ Excused PROVE Kept(q)'
    <3>1. CASE q # p
      BY <1>0, <1>1, <2>1, <2>3, <3>1 DEF Kept
    <3>2. CASE q = p
      <4>1. /\ reg[p] = NoEntry \/ (Exists(p) /\ reg[p].inode = inode[p])
            /\ reg[p].offset <= Complete(p) /\ tail[p].inode = reg[p].inode
            /\ reg[p].offset <= tail[p].offset /\ tail[p].offset <= Complete(p)
        BY <1>1, <2>1, <3>2 DEF Kept, ShapeInv
      <4>2. last \in Nat /\ tail[p].offset <= last /\ last <= Complete(p)
        BY <1>0, <2>2, <2>4, <4>1
      <4>3. \A n \in DOMAIN got' : reg[p].offset < n /\ n <= last
        BY <1>0, <2>1, <2>2, <2>4, <4>1
      <4> QED
        BY <1>0, <2>1, <2>3, <3>2, <4>1, <4>2, <4>3 DEF Kept
    <3> QED
      BY <3>1, <3>2
  <2> QED
    BY <1>1, <1>2, <1>11, <2>1, <2>5
<1>8. ASSUME NEW p \in Files, NEW n \in 1..MaxLines, Parse(p, n)
      PROVE  /\ repeated' \subseteq Excused'
             /\ \A q \in Files \ Excused' : Kept(q)' /\ Passed(q)' /\ Queued(q)'
  <2>1. /\ at = {p} /\ at' = {p} /\ n \in DOMAIN got
        /\ \A k \in DOMAIN got : n <= k
        /\ UNCHANGED <<tail, delivered, repeated, lost>>
        /\ got' = [k \in DOMAIN got \ {n} |-> got[k]]
    BY <1>8 DEF Parse
  <2>2. /\ reg'[p].inode = reg[p].inode /\ reg'[p].offset = n
        /\ \A q \in Files \ {p} : reg'[q] = reg[q]
    BY <1>0, <1>8 DEF Parse, Register, Position
  <2>3. \A k \in DOMAIN out' :
          \/ k \in DOMAIN out /\ out'[k] = out[k]
          \/ /\ out'[k].id = got[n].id /\ out'[k].file = p
             /\ k = Len(out) + 1 /\ k \notin DOMAIN out
    BY <1>8, OutStep
  <2>4. OutIds' \subseteq OutIds \cup {got[n].id}
    BY <2>3 DEF OutIds
  <2>5. ASSUME NEW q \in Files \ Excused, q # p PROVE Kept(q)' /\ Passed(q)' /\ Queued(q)'
    <3>1. \A i \in DOMAIN lines[q] : lines[q][i].id # got[n].id
      BY <2>1, <2>5 DEF UniqueInv
    <3>2. Kept(q)'
      <4>1. at' # {q} /\ tail' = tail /\ reg'[q] = reg[q] /\ Kept(q)
        BY <1>1, <2>1, <2>2, <2>5
      <4> QED
        BY <1>0, <4>1 DEF Kept
    <3>3. Passed(q)'
      BY <1>0, <1>1, <2>1, <2>2, <2>4, <2>5, <3>1 DEF Passed
    <3>4. Queued(q)'
      <4> SUFFICES ASSUME NEW j \in DOMAIN out', out'[j].file = q
                   PROVE  /\ out'[j].id \notin delivered
                          /\ \E i \in DOMAIN lines[q] :
                                 i <= reg[q].offset /\ lines[q][i].id = out'[j].id
                          /\ \A k \in DOMAIN out' : out'[k].id = out'[j].id => k = j
        BY <1>0, <2>1, <2>2, <2>5 DEF Queued
      <4>1. j \in DOMAIN out /\ out'[j] = out[j]
        BY <2>3, <2>5
      <4>2. /\ out[j].id \notin delivered
            /\ \E i \in DOMAIN lines[q] : i <= reg[q].offset /\ lines[q][i].id = out[j].id
            /\ \A k \in DOMAIN out : out[k].id = out[j].id => k = j
        BY <1>1, <4>1 DEF Queued
      <4>3. out[j].id # got[n].id
        BY <3>1, <4>2
      <4> QED
        BY <2>3, <4>1, <4>2, <4>3
    <3> QED
      BY <3>2, <3>3, <3>4
  <2>6. ASSUME p \notin Excused PROVE Kept(p)' /\ Passed(p)' /\ Queued(p)'
    <3>1. Kept(p) /\ Passed(p) /\ Queued(p)
      BY <1>1, <2>6
    <3>2. /\ n \in DOMAIN lines[p] /\ n \in Nat /\ n <= Complete(p)
          /\ \A i \in DOMAIN lines[p] : lines[p][i].id = got[n].id => i = n
          /\ lines[p][n].id = got[n].id
      BY <2>1, <3>1, InPlace
    <3>3. reg[p].offset < n /\ n <= tail[p].offset
      BY <2>1, <3>1 DEF Kept
    <3>4. DOMAIN got \subseteq Nat /\ DOMAIN lines[p] \subseteq Nat
      <4>1. lines[p] \in Seq(Line)
        BY DEF TypeOK
      <4> QED
        BY <4>1 DEF TypeOK
    <3>5. Kept(p)'
      <4>1. tail[p].inode # 0
        BY <2>1 DEF ShapeInv
      <4>2. tail[p].inode = reg[p].inode /\ tail[p].offset <= Complete(p)
        BY <3>1, <4>1 DEF Kept
      <4>3. Exists(p) /\ reg[p].inode = inode[p]
        BY <3>1, <4>1, <4>2 DEF Kept, NoEntry
      <4>4. \A k \in DOMAIN got' : n < k /\ k <= tail[p].offset /\ got'[k] = lines[p][k]
        BY <2>1, <3>1, <3>2, <3>4 DEF Kept
      <4> QED
        BY <1>0, <2>1, <2>2, <3>2, <3>3, <4>2, <4>3, <4>4 DEF Kept
    <3>6. Passed(p)'
      <4>1. \A i \in DOMAIN lines[p] : lines[p][i].id \in delivered \cup OutIds => i <= n
        BY <1>0, <3>1, <3>2, <3>3, <3>4 DEF Passed
      <4> QED
        BY <1>0, <2>1, <2>2, <2>4, <3>2, <4>1 DEF Passed
    <3>7. got[n].id \notin delivered \cup OutIds
      BY <1>0, <3>1, <3>2, <3>3 DEF Passed
    <3>8. Queued(p)'
      <4> SUFFICES ASSUME NEW j \in DOMAIN out', out'[j].file = p
                   PROVE  /\ out'[j].id \notin delivered
                          /\ \E i \in DOMAIN lines[p] :
                                 i <= n /\ lines[p][i].id = out'[j].id
                          /\ \A k \in DOMAIN out' : out'[k].id = out'[j].id => k = j
        BY <1>0, <2>1, <2>2 DEF Queued
      <4>1. \A k \in DOMAIN out : out[k].id # got[n].id
        BY <3>7 DEF OutIds
      <4>2. CASE j \in DOMAIN out /\ out'[j] = out[j]
        <5>1. /\ out[j].id \notin delivered
              /\ \A k \in DOMAIN out : out[k].id = out[j].id => k = j
          BY <3>1, <4>2 DEF Queued
        <5>2. PICK i \in DOMAIN lines[p] : i <= reg[p].offset /\ lines[p][i].id = out[j].id
          BY <3>1, <4>2 DEF Queued
        <5>3. i <= n
          BY <1>0, <3>2, <3>3, <3>4, <5>2
        <5> QED
          BY <2>3, <4>1, <4>2, <5>1, <5>2, <5>3
      <4>3. CASE /\ out'[j].id = got[n].id /\ j = Len(out) + 1 /\ j \notin DOMAIN out
        <5>1. \A k \in DOMAIN out' : out'[k].id = out'[j].id => k = j
          BY <2>3, <4>1, <4>3
        <5> QED
          BY <3>2, <3>7, <4>3, <5>1
      <4> QED
        BY <2>3, <4>2, <4>3
    <3> QED
      BY <3>5, <3>6, <3>8
  <2> QED
    BY <1>1, <1>11, <2>1, <2>5, <2>6
<1>9. CASE Deliver
  <2>1. UNCHANGED <<disk, reg, tail, at, got, lost>> /\ Stored(Head(out))
    BY <1>9 DEF Deliver
  <2>2. /\ 1 \in DOMAIN out /\ Head(out) = out[1] /\ out[1].file \in Files
        /\ \A k \in DOMAIN out' :
               k \in Nat \ {0} /\ k + 1 \in DOMAIN out /\ out'[k] = out[k + 1]
    BY <1>9, OutStep, Entries
  <2>3. delivered' = delivered \cup {out[1].id} /\ out[1].id \in OutIds /\ OutIds' \subseteq OutIds
    BY <2>1, <2>2 DEF Stored, OutIds
  <2>4. repeated' \subseteq Excused
    <3>1. out[1].id \in delivered => out[1].file \in Excused
      BY <1>1, <2>2 DEF Queued
    <3> QED
      BY <1>1, <2>1, <2>2, <3>1 DEF Stored
  <2>5. \A q \in Files \ Excused : Kept(q)'
    BY <1>0, <1>1, <2>1 DEF Kept
  <2>6. \A q \in Files \ Excused : Passed(q)'
    BY <1>0, <1>1, <2>1, <2>3 DEF Passed
  <2>7. ASSUME NEW q \in Files \ Excused PROVE Queued(q)'
    <3> SUFFICES ASSUME NEW j \in DOMAIN out', out'[j].file = q
                 PROVE  /\ out'[j].id \notin delivered'
                        /\ \E i \in DOMAIN lines[q] :
                               i <= reg[q].offset /\ lines[q][i].id = out'[j].id
                        /\ \A k \in DOMAIN out' : out'[k].id = out'[j].id => k = j
      BY <1>0, <2>1 DEF Queued
    <3>1. j \in Nat \ {0} /\ j + 1 \in DOMAIN out /\ out'[j] = out[j + 1]
      BY <2>2
    <3>2. /\ out[j + 1].id \notin delivered
          /\ \E i \in DOMAIN lines[q] :
                 i <= reg[q].offset /\ lines[q][i].id = out[j + 1].id
          /\ \A k \in DOMAIN out : out[k].id = out[j + 1].id => k = j + 1
      BY <1>1, <3>1 DEF Queued
    <3>3. out[1].id # out[j + 1].id
      <4>1. 1 # j + 1
        BY <3>1
      <4> QED
        BY <2>2, <3>2, <4>1
    <3>4. \A k \in DOMAIN out' : out'[k].id = out'[j].id => k = j
      <4>1. ASSUME NEW k \in DOMAIN out', out'[k].id = out'[j].id PROVE k = j
        <5>1. k \in Nat /\ k + 1 \in DOMAIN out /\ out[k + 1].id = out[j + 1].id
          BY <2>2, <3>1, <4>1
        <5>2. k + 1 = j + 1
          BY <3>2, <5>1
        <5> QED
          BY <3>1, <5>1, <5>2
      <4> QED
        BY <4>1
    <3> QED
      BY <2>3, <3>1, <3>2, <3>3, <3>4
  <2> QED
    BY <1>1, <1>11, <2>1, <2>4, <2>5, <2>6, <2>7
<1> QED
  BY <1>3, <1>4, <1>5, <1>6, <1>7, <1>8, <1>9, <1>12 DEF DrainRound

-----------------------------------------------------------------------------
(* The invariant, and what it implies.                                     *)

\* The inductive invariant.
IInv == /\ TypeOK
        /\ ShapeInv
        /\ FirmInv
        /\ PartialInv
        /\ UniqueInv
        /\ HeaderInv
        /\ SessionInv
        /\ OnceInv

\* No file has a line.
LEMMA FirmInit == Init => FirmInv /\ PartialInv
BY DEF Init, FirmInv, PartialInv

\* The parts are inductive together.
LEMMA Invariance == Spec => []IInv
<1>1. Init => IInv
  BY TypeInit, ShapeInit, FirmInit, UniqueInit, HeaderInit, SessionInit, OnceInit
     DEF IInv
<1>2. IInv /\ [Next]_vars => IInv'
  <2> SUFFICES ASSUME IInv, [Next]_vars PROVE IInv'
    OBVIOUS
  <2> USE DEF IInv
  <2>1. CASE DrainRound \/ Start \/ Stop
    BY <2>1, TypeTap, ShapeTap, FirmTap, UniqueTap, HeaderTap, SessionTap,
       OnceTap
  <2>2. ASSUME NEW p \in Files, Agent(p) PROVE IInv'
    BY <2>2, TypeAgents, ShapeAgents, FirmAgents, UniqueAgents, HeaderAgents,
       SessionAgents, OnceAgents
  <2>3. CASE UNCHANGED vars
    <3>1. TypeOK' /\ ShapeInv'
      <4>1. ShapeInv'
        BY <2>3 DEF vars, ShapeInv, Exists
      <4>2. TypeOK'
        BY <2>3 DEF vars, TypeOK
      <4> QED
        BY <4>1, <4>2
    <3>2. FirmInv' /\ PartialInv'
      BY <2>3 DEF vars, FirmInv, PartialInv, Firm, InGot, Past, Shadows, Ahead, OutIds
    <3>3. UniqueInv' /\ HeaderInv' /\ SessionInv'
      <4>1. UniqueInv' /\ HeaderInv'
        BY <2>3 DEF vars, UniqueInv, HeaderInv, Headed, OutIds
      <4>2. SessionInv'
        BY <2>3 DEF vars, SessionInv, Filed, Remembered
      <4> QED
        BY <4>1, <4>2
    <3>4. OnceInv'
      BY <2>3 DEF vars, OnceInv, Excused, Kept, Passed, Queued, OutIds, Complete, EndsPartial, Exists
    <3> QED
      BY <3>1, <3>2, <3>3, <3>4
  <2> QED
    BY <2>1, <2>2, <2>3 DEF Next
<1> QED
  BY <1>1, <1>2, PTL DEF Spec

\* Every variable keeps its type: entries stay within the bounds, a turn in hand
\* names a file, only rollouts have a header remembered.
THEOREM TypeCorrect == Spec => []TypeOK
BY Invariance, PTL DEF IInv

\* No position passes a turn of its file unless the turn is stored, in hand, was
\* dropped when tap ended, has no session, or was written behind the position:
\* whatever rotates, fails to be saved, or is killed, in any order.
THEOREM NoneSkipped == Spec => []NothingSkipped
<1>1. IInv => NothingSkipped
  <2> SUFFICES ASSUME IInv, NEW p \in Files, NEW f \in {disk, reg, tail},
                      f[p].inode = inode[p], NEW i \in 1..Complete(p), i <= f[p].offset,
                      lines[p][i].kind = "turn"
               PROVE  \/ lines[p][i].id \in delivered \cup dropped \cup orphaned \cup shadowed
                      \/ InHand(lines[p][i].id)
    BY DEF NothingSkipped, Covered
  <2>1. i \in DOMAIN lines[p]
    <3>1. lines[p] \in Seq(Line)
      BY DEF IInv, TypeOK
    <3>2. Complete(p) \in 0..Len(lines[p])
      BY CompleteType DEF IInv
    <3> QED
      BY <3>1, <3>2
  <2>2. f[p].offset >= i
    BY Entries DEF IInv
  <2>3. Shadows(p, i)
    BY <2>2 DEF Shadows
  <2>4. Firm(p, i) \/ InGot(p, i)
    BY <2>1, <2>3 DEF IInv, FirmInv
  <2> QED
    BY <2>4 DEF Firm, InGot, InHand, OutIds
<1> QED
  BY <1>1, Invariance, PTL

\* The daemon stores no turn twice as long as its file is only appended to and its
\* position in the registry not lost to a failed save or read: not when tap is killed,
\* nor when an answer is lost.
THEOREM StoredOnce == Spec => []OnceUnlessReplaced
<1>1. IInv => OnceUnlessReplaced
  BY DEF IInv, OnceInv, Excused, OnceUnlessReplaced
<1> QED
  BY <1>1, Invariance, PTL

\* A turn of a rollout is parsed without its session only when tap took the file up
\* past its header, and under another one only when the file was replaced.
THEOREM HeaderFirst == Spec => []OwnSession
<1>1. IInv => OwnSession
  <2> SUFFICES ASSUME IInv, NEW p \in Codex, NEW i \in 1..MaxLines, i <= Len(lines[p])
               PROVE  /\ lines[p][i].id \in orphaned => p \in resumed
                      /\ lines[p][i].id \in misfiled => p \in replaced
    BY DEF OwnSession
  <2>1. i \in DOMAIN lines[p]
    <3>1. lines[p] \in Seq(Line)
      BY Bounds DEF IInv, TypeOK
    <3> QED
      BY <3>1
  <2>2. lines[p][i].id \in orphaned => p \in resumed
    BY <2>1 DEF IInv, HeaderInv
  <2>3. lines[p][i].id \in misfiled => p \in replaced
    BY <2>1 DEF IInv, SessionInv, Remembered
  <2> QED
    BY <2>2, <2>3
<1> QED
  BY <1>1, Invariance, PTL
=============================================================================
