-------------------------------- MODULE Tap ---------------------------------
(***************************************************************************)
(* The tap: a process that tails the session files of coding agents and    *)
(* sends each turn to the daemon.  Agents append lines, and remove,        *)
(* recreate and truncate files at any time.  Tap remembers a position per  *)
(* file: in the tailer, in the registry in memory, and in the registry on  *)
(* disk, which is saved as each line is parsed and so before the turn is   *)
(* sent.  Tap ends with any error, when it is told to, or when it is       *)
(* killed; started again it resumes from the registry on disk.             *)
(*                                                                         *)
(* One source with several files is modelled (ClaudeCodeSource or          *)
(* CodexSource, which differ in where a turn's session comes from).  Lines *)
(* are of one length, so a byte offset is a number of lines; a line that   *)
(* still lacks its newline is "partial".  JSON and the mapper are left out:*)
(* a line is a turn, a session header, something else, too long, or not    *)
(* UTF-8, and a session is the id of its header line.                      *)
(***************************************************************************)
EXTENDS Integers, Sequences, FiniteSets

CONSTANTS
    Files,        \* paths under the discovery root
    Codex,        \* those that are Codex rollouts
    Kinds,        \* what agents write after a header, "partial" first or not
    Inodes,       \* inode numbers, which the file system may use again
    BATCH,        \* lines returned by one read_available_lines
    REDISCOVER,   \* rediscover_every
    MaxLines,     \* bound: lines ever begun
    MaxReplaced,  \* bound: removals and truncations
    MaxStarts,    \* bound: times tap is started
    MaxFaults     \* bound: errors of the sink and of saving or reading the registry

ASSUME TapAssumption ==
    /\ Codex \subseteq Files
    /\ Kinds \subseteq {"turn", "other", "oversize", "garbled", "partial"}
    /\ Inodes \subseteq Nat \ {0}
    /\ BATCH \in Nat \ {0}
    /\ REDISCOVER \in Nat \ {0}
    /\ {MaxLines, MaxReplaced, MaxStarts, MaxFaults} \subseteq Nat

VARIABLES
    inode,      \* per path: its inode, 0 when there is no file
    lines,      \* per path: its lines, each with an id, a kind and a session
    lastLine,   \* the last line id given
    removals,   \* removals and truncations so far
    disk,       \* the registry file: per path [inode, offset]
    reg,        \* the registry in memory
    tail,       \* the tailers; inode 0 in these three means no entry
    known,      \* session_meta: per rollout the session last read, 0 for none
    ticks,      \* read_next calls, modulo REDISCOVER
    pc,         \* where tap is
    todo,       \* paths read_next has still to visit
    at,         \* the path it is reading, as a set of at most one
    got,        \* lines read and not yet parsed, by their next_offset
    out,        \* turns parsed and not yet sent
    starts,     \* times started
    faults,     \* errors so far
    delivered,  \* history: ids of turns the daemon has stored
    repeated,   \* history: paths a turn of which was stored twice
    dropped,    \* history: ids of turns in hand when tap ended
    orphaned,   \* history: ids of turns parsed without a session
    misfiled,   \* history: ids of turns parsed under the session of another file
    shadowed,   \* history: ids of lines begun behind a remembered position
    replaced,   \* history: paths removed or truncated
    resumed,    \* history: paths opened past their beginning
    unsaved,    \* the registry could not be saved or read, and not saved since
    lost        \* history: paths whose position was lost by that

agents == <<inode, lines, lastLine, removals>>
memory == <<tail, known, ticks, todo, at, got, out>>
history == <<delivered, repeated, dropped, orphaned, misfiled, shadowed,
             replaced, resumed, unsaved, lost>>
vars == <<inode, lines, lastLine, removals, disk, reg, tail, known, ticks, pc,
          todo, at, got, out, starts, faults, delivered, repeated, dropped,
          orphaned, misfiled, shadowed, replaced, resumed, unsaved, lost>>

Ids == 1..MaxLines
Line == [id : Ids, kind : Kinds \cup {"meta"}, session : 0..MaxLines]
Position == [inode : Inodes \cup {0}, offset : 0..MaxLines]
NoEntry == [inode |-> 0, offset |-> 0]
Turn == [id : Ids, file : Files]

TypeOK ==
    /\ inode \in [Files -> Inodes \cup {0}]
    /\ lines \in [Files -> Seq(Line)]
    /\ lastLine \in 0..MaxLines
    /\ removals \in 0..MaxReplaced
    /\ {disk, reg, tail} \subseteq [Files -> Position]
    /\ known \in [Codex -> 0..MaxLines]
    /\ ticks \in 0..REDISCOVER - 1
    /\ pc \in {"down", "round", "stat", "read", "parse", "send"}
    /\ todo \subseteq Files
    /\ at \subseteq Files
    /\ DOMAIN got \subseteq 1..MaxLines
    /\ got \in [DOMAIN got -> Line]
    /\ out \in Seq(Turn)
    /\ starts \in 0..MaxStarts
    /\ faults \in 0..MaxFaults
    /\ delivered \cup dropped \cup orphaned \cup misfiled \cup shadowed \subseteq Ids
    /\ repeated \cup replaced \cup resumed \cup lost \subseteq Files
    /\ unsaved \in BOOLEAN

Init ==
    /\ inode = [p \in Files |-> 0]
    /\ lines = [p \in Files |-> <<>>]
    /\ lastLine = 0
    /\ removals = 0
    /\ disk = [p \in Files |-> NoEntry]
    /\ reg = disk
    /\ tail = disk
    /\ known = [p \in Codex |-> 0]
    /\ ticks = 0
    /\ pc = "down"
    /\ todo = {}
    /\ at = {}
    /\ got = <<>>
    /\ out = <<>>
    /\ starts = 0
    /\ faults = 0
    /\ delivered = {}
    /\ repeated = {}
    /\ dropped = {}
    /\ orphaned = {}
    /\ misfiled = {}
    /\ shadowed = {}
    /\ replaced = {}
    /\ resumed = {}
    /\ unsaved = FALSE
    /\ lost = {}

-----------------------------------------------------------------------------
(* Agents and the file system.                                             *)

Exists(p) == inode[p] # 0

EndsPartial(p) ==
    lines[p] # <<>> /\ lines[p][Len(lines[p])].kind = "partial"

\* Lines with their newline; the file is longer by a partial one.
Complete(p) == IF EndsPartial(p) THEN Len(lines[p]) - 1 ELSE Len(lines[p])

\* Some position remembered under the inode of the file at p lies past index i,
\* or the registry is about to be moved there: its entry keeps the inode the
\* path had when it was opened, whichever file the lines in hand came from and
\* whichever the offset was of that Read will seek to.
Shadows(p, i) ==
    \/ \E f \in {disk, reg, tail} : f[p].inode = inode[p] /\ f[p].offset >= i
    \/ /\ reg[p].inode = inode[p]
       /\ at = {p}
       /\ \/ pc = "read" /\ tail[p].offset >= i
          \/ \E n \in DOMAIN got : n >= i

Create(p) ==
    /\ ~Exists(p)
    /\ \E i \in Inodes : inode' = [inode EXCEPT ![p] = i]
    /\ UNCHANGED <<lines, lastLine, removals, disk, reg, memory, pc, starts,
                   faults, history>>

\* The session of the next line of p: a rollout's lines belong to its header.
OwnHeader(p) ==
    CASE p \notin Codex -> 0
      [] p \in Codex /\ lines[p] = <<>> -> lastLine + 1
      [] p \in Codex /\ lines[p] # <<>> -> lines[p][1].id

\* The next line of a file is begun.  A rollout starts with its header.
BeginLine(p) ==
    LET kind == IF p \in Codex /\ lines[p] = <<>> THEN {"meta"} ELSE Kinds
        i == Len(lines[p]) + 1
    IN  /\ Exists(p)
        /\ ~EndsPartial(p)
        /\ lastLine < MaxLines
        /\ lastLine' = lastLine + 1
        /\ \E k \in kind : lines' = [lines EXCEPT ![p] =
               Append(@, [id |-> lastLine + 1, kind |-> k, session |-> OwnHeader(p)])]
        /\ shadowed' = IF Shadows(p, i) THEN shadowed \cup {lastLine + 1}
                                        ELSE shadowed
        /\ UNCHANGED <<inode, removals, disk, reg, memory, pc, starts, faults,
                       delivered, repeated, dropped, orphaned, misfiled,
                       replaced, resumed, unsaved, lost>>

\* The rest of a partial line.
FinishLine(p) ==
    /\ EndsPartial(p)
    /\ \E k \in Kinds \ {"partial"} :
        lines' = [lines EXCEPT ![p][Len(lines[p])].kind = k]
    /\ UNCHANGED <<inode, lastLine, removals, disk, reg, memory, pc, starts,
                   faults, history>>

Remove(p) ==
    /\ Exists(p)
    /\ removals < MaxReplaced
    /\ removals' = removals + 1
    /\ inode' = [inode EXCEPT ![p] = 0]
    /\ lines' = [lines EXCEPT ![p] = <<>>]
    /\ replaced' = replaced \cup {p}
    /\ UNCHANGED <<lastLine, disk, reg, memory, pc, starts, faults, delivered,
                   repeated, dropped, orphaned, misfiled, shadowed, resumed,
                   unsaved, lost>>

\* Cut to the first n lines, under the same inode.
Truncate(p) ==
    /\ removals < MaxReplaced
    /\ removals' = removals + 1
    /\ \E n \in 0..Len(lines[p]) - 1 :
        lines' = [lines EXCEPT ![p] = SubSeq(@, 1, n)]
    /\ replaced' = replaced \cup {p}
    /\ UNCHANGED <<inode, lastLine, disk, reg, memory, pc, starts, faults,
                   delivered, repeated, dropped, orphaned, misfiled, shadowed,
                   resumed, unsaved, lost>>

-----------------------------------------------------------------------------
(* The registry.                                                           *)

\* A bug: a file read to its end counts as truncated.
ResumeOffsetStrict(e, p) ==
    IF e.inode = inode[p] /\ e.offset < Complete(p) THEN e.offset ELSE 0

\* registry::resume_offset for a registry entry and the file at p.
ResumeOffset(e, p) ==
    IF e.inode = inode[p] /\ e.offset <= Complete(p) THEN e.offset ELSE 0

\* Registry::save: tmp and rename; callers ignore its error.
Save ==
    \/ disk' = reg' /\ unsaved' = FALSE /\ UNCHANGED faults
    \/ /\ faults < MaxFaults
       /\ faults' = faults + 1
       /\ unsaved' = TRUE
       /\ disk' = disk

-----------------------------------------------------------------------------
(* Starting and ending.                                                    *)

\* Registry::load: read_to_string, and an empty registry on any error of it.
Load ==
    \/ reg' = disk /\ UNCHANGED <<faults, unsaved, lost>>
    \/ /\ faults < MaxFaults
       /\ faults' = faults + 1
       /\ reg' = [p \in Files |-> NoEntry]
       /\ unsaved' = TRUE
       /\ lost' = lost \cup {p \in Files : disk[p] # NoEntry}

\* Runner::build: the registry, and a source without tailers.
Start ==
    /\ pc = "down"
    /\ starts < MaxStarts
    /\ starts' = starts + 1
    /\ Load
    /\ pc' = "round"
    /\ UNCHANGED <<agents, disk, memory, delivered, repeated, dropped, orphaned,
                   misfiled, shadowed, replaced, resumed>>

\* The process ends; what it holds in memory is gone.
End ==
    /\ pc' = "down"
    /\ reg' = disk
    /\ lost' = IF unsaved THEN lost \cup {p \in Files : disk[p] # reg[p]} ELSE lost
    /\ unsaved' = FALSE
    /\ tail' = [p \in Files |-> NoEntry]
    /\ known' = [p \in Codex |-> 0]
    /\ ticks' = 0
    /\ todo' = {}
    /\ at' = {}
    /\ got' = <<>>
    /\ out' = <<>>
    /\ dropped' = dropped \cup ({out[i].id : i \in DOMAIN out} \ delivered)

\* Killed, or the shutdown branch of the select!, which drops drain_round
\* wherever it awaits.
Stop ==
    /\ pc # "down"
    /\ starts < MaxStarts
    /\ End
    /\ UNCHANGED <<agents, disk, starts, faults, delivered, repeated, orphaned,
                   misfiled, shadowed, replaced, resumed>>

-----------------------------------------------------------------------------
(* One round: Runner::drain_round and Source::read_next.                   *)

Tailed == {p \in Files : tail[p].inode # 0}

\* What rediscover finds: files without a tailer, when it is its turn.
Found ==
    {p \in Files \ Tailed : Exists(p) /\ (Tailed = {} \/ ticks = 0)}

\* rediscover with JsonlTailer::open_with_registry for each file.  A kill
\* between two of its saves leaves entries that resume at the same offsets.
BeginRound ==
    /\ pc = "round"
    /\ tail' = [p \in Files |->
                   IF p \in Found
                   THEN [inode |-> inode[p], offset |-> ResumeOffset(reg[p], p)]
                   ELSE tail[p]]
    /\ reg' = [p \in Files |-> IF p \in Found THEN tail'[p] ELSE reg[p]]
    /\ \/ Found # {} /\ Save
       \/ Found = {} /\ UNCHANGED <<disk, faults, unsaved>>
    /\ resumed' = resumed \cup {p \in Found : tail'[p].offset > 0}
    /\ ticks' = (ticks + 1) % REDISCOVER
    /\ todo' = {p \in Files : tail'[p].inode # 0}
    /\ pc' = "stat"
    /\ UNCHANGED <<agents, known, at, got, out, starts, delivered, repeated,
                   dropped, orphaned, misfiled, shadowed, replaced, lost>>

\* Rotation or truncation sends the tailer back to 0.
Checked(p) ==
    IF inode[p] # tail[p].inode \/ tail[p].offset > Complete(p)
    THEN [inode |-> inode[p], offset |-> 0]
    ELSE tail[p]

\* The first half of read_available_lines: metadata.
Stat(p) ==
    /\ pc = "stat"
    /\ p \in todo
    /\ todo' = todo \ {p}
    /\ tail' = [tail EXCEPT ![p] = IF Exists(p) THEN Checked(p) ELSE @]
    /\ \/ /\ Exists(p)
          /\ tail'[p].offset < Len(lines[p])
          /\ pc' = "read"
          /\ at' = {p}
       \/ /\ ~Exists(p) \/ tail'[p].offset = Len(lines[p])
          /\ UNCHANGED <<pc, at>>
    /\ UNCHANGED <<agents, disk, reg, known, ticks, got, out, starts, faults,
                   history>>

\* A bug: the offset is not moved over a line that is too long.
ReachesOversize(p, o, n) ==
    \A k \in o + 1..n : lines[p][k].kind # "oversize"

\* read_line gets as far as index n from offset o: fewer than BATCH lines were
\* returned before it.
Reaches(p, o, n) ==
    Cardinality({k \in o + 1..n - 1 : lines[p][k].kind # "oversize"}) < BATCH

\* The lines read from offset o on.
ReadSet(p, o) == {n \in o + 1..Complete(p) : Reaches(p, o, n)}

Garbled(p) ==
    \E n \in ReadSet(p, tail[p].offset) : lines[p][n].kind = "garbled"

\* read_line gets as far as an unfinished line.  Whether that ends inside a
\* character, and so fails, is left open.
MayBeCut(p) == EndsPartial(p) /\ Reaches(p, tail[p].offset, Len(lines[p]))

\* The second half: open, seek, read.  The file may be another one by now.
\* Lines that are too long are passed and not returned.
Read(p) ==
    LET read == ReadSet(p, tail[p].offset)
    IN  /\ pc = "read"
        /\ at = {p}
        /\ Exists(p)
        /\ ~Garbled(p)
        /\ got' = [n \in {k \in read : lines[p][k].kind # "oversize"} |->
                      lines[p][n]]
        /\ \E last \in read \cup {tail[p].offset} :
               /\ \A n \in read : n <= last
               /\ tail' = [tail EXCEPT ![p].offset = last]
        /\ pc' = "parse"
        /\ UNCHANGED <<agents, disk, reg, known, ticks, todo, at, out, starts,
                       faults, history>>

\* It cannot be opened, or a line, or what there is of the last one, is not UTF-8:
\* the error ends tap, and with it the turns of the files before.
ReadFails(p) ==
    /\ pc = "read"
    /\ at = {p}
    /\ ~Exists(p) \/ Garbled(p) \/ MayBeCut(p)
    /\ End
    /\ UNCHANGED <<agents, disk, starts, faults, delivered, repeated, orphaned,
                   misfiled, shadowed, replaced, resumed>>

\* A turn of a rollout is a turn only if the session is known.
HasSession(p) == p \in Codex => known[p] # 0

\* What parse_line and parse_response_item make a turn of.
IsTurn(line, p) == line.kind = "turn" /\ HasSession(p)

\* A bug: the registry is told the end of the batch at once.
RegisterBatch(p, n) == reg' = [reg EXCEPT ![p].offset = tail[p].offset]

\* A bug: one past the end of the line.
RegisterPlusOne(p, n) == reg' = [reg EXCEPT ![p].offset = n + 1]

\* Registry::update with the line's next_offset, whatever became of the line.
Register(p, n) == reg' = [reg EXCEPT ![p].offset = n]

\* The first of the lines in hand is parsed and the registry moved and saved.
Parse(p, n) ==
    LET line == got[n]
    IN  /\ pc = "parse"
        /\ at = {p}
        /\ n \in DOMAIN got
        /\ \A k \in DOMAIN got : n <= k
        /\ got' = [k \in DOMAIN got \ {n} |-> got[k]]
        /\ Register(p, n)
        /\ Save
        /\ known' = IF line.kind = "meta" THEN [known EXCEPT ![p] = line.id]
                                          ELSE known
        /\ out' = IF IsTurn(line, p)
                  THEN Append(out, [id |-> line.id, file |-> p])
                  ELSE out
        /\ orphaned' = IF line.kind = "turn" /\ ~IsTurn(line, p)
                       THEN orphaned \cup {line.id}
                       ELSE orphaned
        /\ misfiled' = IF IsTurn(line, p) /\ p \in Codex /\ known[p] # line.session
                       THEN misfiled \cup {line.id}
                       ELSE misfiled
        /\ UNCHANGED <<agents, tail, ticks, pc, todo, at, starts, delivered,
                       repeated, dropped, shadowed, replaced, resumed, lost>>

\* All lines of this file are parsed: the next tailer.
ParsedAll ==
    /\ pc = "parse"
    /\ DOMAIN got = {}
    /\ at' = {}
    /\ pc' = "stat"
    /\ UNCHANGED <<agents, disk, reg, tail, known, ticks, todo, got, out,
                   starts, faults, history>>

\* A bug: the headers are kept for one call of read_next only.
ReturnTurnsForgetting ==
    /\ pc = "stat"
    /\ todo = {}
    /\ pc' = "send"
    /\ known' = [p \in Codex |-> 0]
    /\ UNCHANGED <<agents, disk, reg, tail, ticks, todo, at, got, out, starts,
                   faults, history>>

\* read_next returns the turns.
ReturnTurns ==
    /\ pc = "stat"
    /\ todo = {}
    /\ pc' = "send"
    /\ UNCHANGED <<agents, disk, reg, memory, starts, faults, history>>

Stored(t) ==
    /\ delivered' = delivered \cup {t.id}
    /\ repeated' = IF t.id \in delivered THEN repeated \cup {t.file}
                                         ELSE repeated

\* Sink::append_event.
Deliver ==
    /\ pc = "send"
    /\ out # <<>>
    /\ Stored(Head(out))
    /\ out' = Tail(out)
    /\ UNCHANGED <<agents, disk, reg, tail, known, ticks, pc, todo, at, got,
                   starts, faults, dropped, orphaned, misfiled, shadowed,
                   replaced, resumed, unsaved, lost>>

\* It returns an error, which ends tap; the daemon may have stored the event.
DeliverFails ==
    /\ pc = "send"
    /\ out # <<>>
    /\ faults < MaxFaults
    /\ faults' = faults + 1
    /\ Stored(Head(out)) \/ UNCHANGED <<delivered, repeated>>
    /\ End
    /\ UNCHANGED <<agents, disk, starts, orphaned, misfiled, shadowed, replaced,
                   resumed>>

\* The round is over; after an empty one tap sleeps.
EndRound ==
    /\ pc = "send"
    /\ out = <<>>
    /\ pc' = "round"
    /\ UNCHANGED <<agents, disk, reg, memory, starts, faults, history>>

-----------------------------------------------------------------------------
DrainRound ==
    \/ BeginRound
    \/ \E p \in Files : Stat(p)
    \/ \E p \in Files : Read(p)
    \/ \E p \in Files : ReadFails(p)
    \/ \E p \in Files, n \in 1..MaxLines : Parse(p, n)
    \/ ParsedAll
    \/ ReturnTurns
    \/ Deliver
    \/ DeliverFails
    \/ EndRound

Agent(p) ==
    Create(p) \/ BeginLine(p) \/ FinishLine(p) \/ Remove(p) \/ Truncate(p)

Next == DrainRound \/ Start \/ Stop \/ \E p \in Files : Agent(p)

Spec == Init /\ [][Next]_vars

\* A started tap goes on by itself: the loop of run sleeps at most
\* POLL_BACKOFF_MAX, and the daemon answers.  Agents and users owe nothing.
FairSpec == Spec /\ WF_vars(DrainRound)

-----------------------------------------------------------------------------
(* What tap promises.                                                      *)

InHand(id) ==
    \/ \E i \in DOMAIN out : out[i].id = id
    \/ \E n \in DOMAIN got : got[n].id = id

\* Every turn among the first n lines of p has gone somewhere.
Covered(p, n, gone) ==
    \A i \in 1..Complete(p) :
        i <= n /\ lines[p][i].kind = "turn" =>
            lines[p][i].id \in delivered \cup gone \/ InHand(lines[p][i].id)

\* A position never passes a turn of the file it is about, unless the turn is
\* stored or in hand, was in hand when tap ended, has no known session, or was
\* written behind a position remembered for this inode.  Neither rotation
\* between metadata and open, nor a save that failed, nor a kill between two
\* saves adds to that.
NothingSkipped ==
    \A p \in Files, f \in {disk, reg, tail} :
        Exists(p) /\ f[p].inode = inode[p] =>
            Covered(p, f[p].offset, dropped \cup orphaned \cup shadowed)

\* Delivery at least once: a turn with a session that the registry on disk has
\* passed is stored or in hand, whatever happens to tap (read_next saves the
\* registry, drain_round sends).
AtLeastOnceDelivery ==
    \A p \in Files :
        Exists(p) /\ disk[p].inode = inode[p] =>
            Covered(p, disk[p].offset, orphaned \cup shadowed)

\* A turn reaches the daemon twice only if its file was removed or truncated, or
\* its position was lost: tap ended after a save that failed and before the next
\* one, or could not read the registry.  The registry is saved before the turn is
\* sent, and no other end of tap and no lost answer makes tap repeat it.
OnceUnlessReplaced == repeated \subseteq replaced \cup lost

\* A turn is dropped for want of a session only in a file tap took up past its
\* header, and sent under another session only in a file that was replaced, where
\* tap goes on past the new header or the old one is still remembered.
OwnSession ==
    \A p \in Codex, i \in 1..MaxLines :
        i <= Len(lines[p]) =>
            /\ lines[p][i].id \in orphaned => p \in resumed
            /\ lines[p][i].id \in misfiled => p \in replaced

\* The turn with this id is in a file and nothing has become of it.
Waiting(id) ==
    /\ id \notin delivered \cup dropped \cup orphaned \cup shadowed
    /\ \E p \in Files : \E i \in DOMAIN lines[p] :
        lines[p][i].id = id /\ lines[p][i].kind = "turn"

\* Every turn written is sent in the end, in files found later and behind
\* batches of other lines too, as long as tap runs and the file is there.
TurnArrives ==
    \A id \in Ids : Waiting(id) ~> (~Waiting(id) \/ pc = "down")
=============================================================================
