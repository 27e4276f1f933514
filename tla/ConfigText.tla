----------------------------- MODULE ConfigText -----------------------------
(* config/writer.py: a configuration file as its lines, how TOML and the    *)
(* loader's reader see them, and how commit and unset edit them in place.   *)
(*                                                                          *)
(* A key is <<table, leaf>>.  A line is a table's header, a key's assignment, *)
(* a comment or blank.  An assignment is plain when KEY_ASSIGN_PATTERN sees  *)
(* it; "effect".dimming or "dimming" = 1 are assignments for TOML alone.    *)
(* Every header is one TABLE_HEADER_PATTERN sees and normalize_table_path   *)
(* brings back to the name split_key_path gives.                            *)
EXTENDS Integers, Sequences, FiniteSets, SequencesExt

NoTable == "top"

Header(table)       == [kind |-> "table", table |-> table]
Assignment(leaf, v) == [kind |-> "key", leaf |-> leaf, value |-> v]
Quoted(leaf, v)     == [kind |-> "quoted", leaf |-> leaf, value |-> v]
Comment             == [kind |-> "comment"]
Blank               == [kind |-> "blank"]

Loose(line) == line.kind \in {"comment", "blank"}

-----------------------------------------------------------------------------
(* What TOML makes of a file *)

Headers(file)     == {i \in DOMAIN file : file[i].kind = "table"}
Assignments(file) == {i \in DOMAIN file : file[i].kind \in {"key", "quoted"}}

TableAt(file, i) ==
  LET above == {j \in Headers(file) : j < i}
  IN  IF above = {} THEN NoTable ELSE file[Max(above)].table

KeyAt(file, i) == <<TableAt(file, i), file[i].leaf>>

(* A table or a key that is defined twice is an error for the whole file.   *)
WellFormed(file) ==
  /\ \A i, j \in Assignments(file) : KeyAt(file, i) = KeyAt(file, j) => i = j
  /\ \A i, j \in Headers(file) : file[i].table = file[j].table => i = j

(* No key is set by a plain assignment and by one in quotes. *)
OneSpelling(file) ==
  \A i, j \in Assignments(file) :
    KeyAt(file, i) = KeyAt(file, j) => file[i].kind = file[j].kind

SettingsOf(file) ==
  [key \in {KeyAt(file, i) : i \in Assignments(file)} |->
     file[CHOOSE i \in Assignments(file) : KeyAt(file, i) = key].value]

TablesOf(file) == {file[i].table : i \in Headers(file)}

-----------------------------------------------------------------------------
(* update_toml_content *)

(* The length of a text without its trailing comments and blank lines.      *)
BodyLen(lines) == Max({0} \cup {i \in DOMAIN lines : ~Loose(lines[i])})

(* Both walks keep what the loop of the code keeps: the lines so far, the   *)
(* current table, the plain keys seen in it, the tables already written to, *)
(* and for unset the keys removed.                                          *)
Beginning == [lines |-> <<>>, table |-> NoTable, seen |-> {},
              written |-> {}, removed |-> {}]

AssignmentsOf(updates, table, leaves) ==
  LET order == SetToSeq(leaves)
  IN  [i \in DOMAIN order |-> Assignment(order[i], updates[<<table, order[i]>>])]

LeavesFor(updates, table) == {key[2] : key \in {k \in DOMAIN updates : k[1] = table}}

(* flush_pending: the keys the ending table lacks go below its last line.   *)
Flushed(walk, updates) ==
  LET body    == BodyLen(walk.lines)
      missing == LeavesFor(updates, walk.table) \ walk.seen
  IN  IF LeavesFor(updates, walk.table) = {} THEN walk
      ELSE [walk EXCEPT
              !.lines = SubSeq(@, 1, body)
                          \o AssignmentsOf(updates, walk.table, missing)
                          \o SubSeq(@, body + 1, Len(@)),
              !.written = @ \cup {walk.table}]

(* Mutant: the keys of an earlier table count as seen in this one. *)
EnteredUnreset(walk, line) ==
  [walk EXCEPT !.lines = Append(@, line), !.table = line.table]

Entered(walk, line) ==
  [walk EXCEPT !.lines = Append(@, line), !.table = line.table, !.seen = {}]

Rewritten(walk, line, updates) ==
  LET key == <<walk.table, line.leaf>>
  IN  [walk EXCEPT !.seen = @ \cup {line.leaf},
         !.lines = Append(@, IF key \in DOMAIN updates
                             THEN [line EXCEPT !.value = updates[key]] ELSE line)]

LineUpdated(walk, line, updates) ==
  CASE line.kind = "table" -> Entered(Flushed(walk, updates), line)
    [] line.kind = "key"   -> Rewritten(walk, line, updates)
    [] OTHER               -> [walk EXCEPT !.lines = Append(@, line)]

WithTable(lines, updates, table) ==
  lines \o (IF lines # <<>> /\ Last(lines) # Blank THEN <<Blank>> ELSE <<>>)
        \o <<Header(table)>>
        \o AssignmentsOf(updates, table, LeavesFor(updates, table))

(* The blank lines at the end go. *)
Trimmed(lines) == SubSeq(lines, 1, Max({0} \cup {i \in DOMAIN lines : lines[i] # Blank}))

(* The lines of the file one after the other, and what its last table lacks. *)
Walked(file, updates) ==
  LET walk[i \in 0..Len(file)] ==
        IF i = 0 THEN Beginning ELSE LineUpdated(walk[i-1], file[i], updates)
  IN  Flushed(walk[Len(file)], updates)

WithTables(lines, updates, tables) ==
  LET new == SetToSeq(tables)
      grown[i \in 0..Len(new)] ==
        IF i = 0 THEN lines ELSE WithTable(grown[i-1], updates, new[i])
  IN  grown[Len(new)]

Updated(file, updates) ==
  LET end == Walked(file, updates)
  IN  Trimmed(WithTables(end.lines, updates, {key[1] : key \in DOMAIN updates} \ end.written))

-----------------------------------------------------------------------------
(* remove_toml_keys *)

LineRemoved(walk, line, keys) ==
  CASE line.kind = "table" -> Entered(walk, line)
    [] line.kind = "key" /\ <<walk.table, line.leaf>> \in keys ->
         [walk EXCEPT !.removed = @ \cup {<<walk.table, line.leaf>>}]
    [] OTHER -> [walk EXCEPT !.lines = Append(@, line)]

Struck(file, keys) ==
  LET walk[i \in 0..Len(file)] ==
        IF i = 0 THEN Beginning ELSE LineRemoved(walk[i-1], file[i], keys)
  IN  walk[Len(file)]

Removed(file, keys) ==
  LET end == Struck(file, keys)
  IN  [lines |-> Trimmed(end.lines), removed |-> end.removed]
=============================================================================
