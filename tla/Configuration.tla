--------------------------- MODULE Configuration ---------------------------
(* The daemon's configuration: config/loader.py resolves the built-in       *)
(* values, the system file, the user's file and the previews of the session *)
(* into one; daemon.py previews, commits, unsets and reloads; the user's    *)
(* file is replaced in one step while an editor may save it as well.        *)
(*                                                                          *)
(* The daemon has one thread, so that nothing but the editor and a crash    *)
(* comes between the steps of a commit.  A missing file is an empty one:    *)
(* reader and writer treat them alike.                                      *)
EXTENDS ConfigText

CONSTANTS
  Tables, Leaves, \* what the headers and the keys of a text may name
  Defaults,       \* the built-in value of every key of the global tables
  OutputTables,   \* outputs.<id>
  OutputLeaves,   \* the leaves such a table may hold
  Coerce,         \* what validate_leaf makes of a value
  Invalid,        \* its None
  MatchKeys,      \* the tables that speak of the display, most specific first
  Texts,          \* what the editor saves
  SystemTexts,
  Payloads,       \* what is previewed and committed
  KeyLists        \* what is unset

(* The lines a text consists of, with values validate_leaf has an answer    *)
(* for: its None for those of no known type.                                *)
Lines ==
  {Header(table) : table \in Tables}
    \cup {Assignment(leaf, v) : leaf \in Leaves, v \in DOMAIN Coerce}
    \cup {Quoted(leaf, v) : leaf \in Leaves, v \in DOMAIN Coerce}
    \cup {Comment, Blank}

ASSUME CoerceAssumption ==
  \A v \in DOMAIN Coerce : Coerce[v] # Invalid =>
    Coerce[v] \in DOMAIN Coerce /\ Coerce[Coerce[v]] = Coerce[v]

(* The built-in values are ones the loader takes as they are; what is       *)
(* previewed or committed is something validate_leaf has an answer for.     *)
ASSUME ValuesAssumption ==
  /\ \A key \in DOMAIN Defaults :
       Coerce[Defaults[key]] = Defaults[key] /\ Defaults[key] # Invalid
  /\ \A updates \in Payloads :
       /\ IsFiniteSet(DOMAIN updates)
       /\ \A key \in DOMAIN updates : updates[key] \in DOMAIN Coerce

ASSUME TextsAssumption ==
  /\ Texts \cup SystemTexts \subseteq Seq(Lines)
  /\ DOMAIN Defaults \cup (OutputTables \X OutputLeaves) \subseteq Tables \X Leaves

(* Nobody saves a text that sets a key both plainly and in quotes.  TOML    *)
(* refuses it, but unset would remove the plain line, find the rest in      *)
(* order and report the key as gone while the quoted line comes into force. *)
ASSUME SpellingAssumption ==
  \A text \in Texts : OneSpelling(text)

VARIABLES
  user, system,   \* the files
  session,        \* _session_overrides
  resolved,       \* config
  job,            \* the write under way
  answer          \* what the last call that succeeded has promised

vars == <<user, system, session, resolved, job, answer>>

Schema == DOMAIN Defaults \cup (OutputTables \X OutputLeaves)

-----------------------------------------------------------------------------
(* ConfigLoader *)

Accepted(settings) ==
  {key \in DOMAIN settings \cap Schema : Coerce[settings[key]] # Invalid}

(* One dict laid over another. *)
Over(above, below) ==
  [key \in DOMAIN above \cup DOMAIN below |->
     IF key \in DOMAIN above THEN above[key] ELSE below[key]]

(* validate_updates *)
Validated(updates) == [key \in Accepted(updates) |-> Coerce[updates[key]]]

(* refused are the keys with a diagnostic of severity error. *)
Builtin == [value |-> Defaults, layer |-> [key \in DOMAIN Defaults |-> "builtin"],
            tables |-> {}, refused |-> {}]

(* Mutant: a value that is refused puts the default over the lower layers. *)
OverlaidResetting(below, layer, settings, tables) ==
  [value   |-> Over(Validated(settings),
                    [key \in DOMAIN below.value |->
                       IF key \in DOMAIN settings \cap DOMAIN Defaults
                       THEN Defaults[key] ELSE below.value[key]]),
   layer   |-> Over([key \in Accepted(settings) |-> layer], below.layer),
   tables  |-> below.tables \cup (tables \cap OutputTables),
   refused |-> below.refused]

Overlaid(below, layer, settings, tables) ==
  [value   |-> Over(Validated(settings), below.value),
   layer   |-> Over([key \in Accepted(settings) |-> layer], below.layer),
   tables  |-> below.tables \cup (tables \cap OutputTables),
   refused |-> below.refused
                 \cup ((DOMAIN settings \cap Schema) \ Accepted(settings))]

FileLayer(below, layer, file) ==
  IF WellFormed(file) THEN Overlaid(below, layer, SettingsOf(file), TablesOf(file))
                      ELSE below

SessionLayer(below, overrides) ==
  Overlaid(below, "session", overrides, {key[1] : key \in Accepted(overrides)})

Resolve(systemFile, userFile, overrides) ==
  SessionLayer(FileLayer(FileLayer(Builtin, "system", systemFile), "user", userFile),
               overrides)

(* resolve_for_output: one table at most speaks for a display. *)
Matching(r) == {i \in DOMAIN MatchKeys : MatchKeys[i] \in r.tables}

Shown(r, leaf) ==
  LET matched == {<<MatchKeys[Min(Matching(r))], leaf>> : i \in Matching(r)}
      own     == matched \cap DOMAIN r.value
  IN  r.value[IF own = {} THEN <<"effect", leaf>> ELSE CHOOSE key \in own : TRUE]

-----------------------------------------------------------------------------
(* The calls *)

NoSettings == [key \in {} |-> Invalid]
Idle       == [step |-> "idle"]
Silent     == [call |-> "none", settings |-> NoSettings]

Promises(call, settings) == answer' = [call |-> call, settings |-> settings]

Init ==
  /\ user \in Texts /\ system \in SystemTexts
  /\ session = NoSettings
  /\ resolved = Resolve(system, user, session)
  /\ job = Idle /\ answer = Silent

Reread == resolved' = Resolve(system, user, session')

(* Mutant: what was previewed first stays. *)
PreviewKeepingOld(updates) ==
  /\ job = Idle
  /\ session' = Over(session, Validated(updates))
  /\ Reread
  /\ Promises("preview", Validated(updates))
  /\ UNCHANGED <<user, system, job>>

Preview(updates) ==
  /\ job = Idle
  /\ session' = Over(Validated(updates), session)
  /\ Reread
  /\ Promises("preview", Validated(updates))
  /\ UNCHANGED <<user, system, job>>

RevertPreview ==
  /\ job = Idle
  /\ session' = NoSettings
  /\ Reread
  /\ Promises("revert", NoSettings)
  /\ UNCHANGED <<user, system, job>>

Reload ==
  /\ job = Idle
  /\ UNCHANGED session
  /\ Reread
  /\ answer' = Silent
  /\ UNCHANGED <<user, system, job>>

(* The text is read and edited in memory; a result TOML refuses is dropped. *)
Begins(call, settings, text) ==
  /\ WellFormed(text)
  /\ job' = [step |-> "write", call |-> call, settings |-> settings,
             base |-> user, text |-> text, temp |-> <<>>]

Commit(updates) ==
  /\ job = Idle
  /\ Accepted(updates) # {}
  /\ \E text \in {Updated(user, Validated(updates))} :
       Begins("commit", Validated(updates), text)
  /\ answer' = Silent
  /\ UNCHANGED <<user, system, session, resolved>>

(* Keys that no line sets are reported as unset already; without any other  *)
(* nothing is written and nothing reloaded.                                 *)
Unset(keys) ==
  /\ job = Idle
  /\ \E edit \in {Removed(user, keys \cap Schema)} :
       /\ edit.removed # {}
       /\ Begins("unset", [key \in edit.removed |-> Invalid], edit.lines)
  /\ answer' = Silent
  /\ UNCHANGED <<user, system, session, resolved>>

(* Mutant: the temporary file replaces the other before it is complete. *)
ReplaceEarly ==
  /\ job.step = "write"
  /\ user' = job.temp
  /\ job' = [job EXCEPT !.step = "reload"]
  /\ UNCHANGED <<system, session, resolved, answer>>

(* Written half way or in full. *)
Write ==
  /\ job.step = "write"
  /\ \E n \in {Len(job.text) \div 2, Len(job.text)} :
       /\ n > Len(job.temp)
       /\ job' = [job EXCEPT !.temp = SubSeq(job.text, 1, n)]
  /\ UNCHANGED <<user, system, session, resolved, answer>>

Replace ==
  /\ job.step = "write" /\ job.temp = job.text
  /\ user' = job.temp
  /\ job' = [job EXCEPT !.step = "reload"]
  /\ UNCHANGED <<system, session, resolved, answer>>

(* Writing, fsync or rename fails: the temporary file goes. *)
WriteFails ==
  /\ job.step = "write"
  /\ job' = Idle
  /\ UNCHANGED <<user, system, session, resolved, answer>>

(* The promise is not held against an editor that saved in between. *)
Reloaded ==
  /\ job.step = "reload"
  /\ UNCHANGED session
  /\ Reread
  /\ job' = Idle
  /\ IF user = job.text THEN Promises(job.call, job.settings) ELSE answer' = Silent
  /\ UNCHANGED <<user, system>>

-----------------------------------------------------------------------------
(* What happens beside the daemon, and to it *)

EditorSaves ==
  /\ user' \in Texts
  /\ UNCHANGED <<system, session, resolved, job, answer>>

Restarted ==
  /\ session' = NoSettings
  /\ Reread
  /\ job' = Idle /\ answer' = Silent
  /\ UNCHANGED <<user, system>>

Next ==
  \/ \E updates \in Payloads : Preview(updates) \/ Commit(updates)
  \/ \E keys \in KeyLists : Unset(keys)
  \/ RevertPreview \/ Reload
  \/ Write \/ Replace \/ WriteFails \/ Reloaded
  \/ EditorSaves \/ Restarted

Spec == Init /\ [][Next]_vars

-----------------------------------------------------------------------------
(* Properties *)

(* What commit and unset make of a text: every setting but those asked for  *)
(* as it was, and the comments where they were among the tables.            *)
Framing(line) == line.kind \in {"table", "comment"}

Frame(file) ==
  LET kept[i \in 0..Len(file)] ==
        IF i = 0 THEN <<>>
        ELSE IF Framing(file[i]) THEN Append(kept[i-1], file[i]) ELSE kept[i-1]
  IN  kept[Len(file)]

Without(settings, keys) ==
  [key \in DOMAIN settings \ keys |-> settings[key]]

ExactEdit(work, text) ==
  /\ WellFormed(text)
  /\ IF work.call = "commit"
     THEN SettingsOf(text) = Over(work.settings, SettingsOf(work.base))
     ELSE SettingsOf(text) = Without(SettingsOf(work.base), DOMAIN work.settings)
  /\ IsPrefix(Frame(work.base), Frame(text))

EditedExactly == job.step # "idle" => ExactEdit(job, job.text)

(* The daemon only ever puts complete and exact edits of what it read in    *)
(* the place of the user's file, whatever fails, ends or is saved by        *)
(* somebody else while it writes.                                           *)
EditsAreExact ==
  [][/\ job' # job => EditedExactly'
     /\ user' # user =>
          \/ EditorSaves
          \/ /\ job.step = "write"
             /\ ExactEdit(job, user')]_vars

(* What a call answered with success stays true until the next one: what    *)
(* was previewed is in force, what was committed is too unless a preview    *)
(* covers it, what was unset comes from elsewhere, and nothing of a         *)
(* reverted preview is left.                                                *)
AnswersHold ==
  /\ answer.call = "preview" =>
       \A key \in DOMAIN answer.settings :
         resolved.value[key] = answer.settings[key]
  /\ answer.call = "commit" =>
       \A key \in DOMAIN answer.settings :
         \/ resolved.layer[key] = "session"
         \/ /\ resolved.layer[key] = "user"
            /\ resolved.value[key] = answer.settings[key]
  /\ answer.call = "unset" =>
       \A key \in DOMAIN answer.settings \cap DOMAIN resolved.layer :
         resolved.layer[key] # "user"
  /\ answer.call = "revert" =>
       \A key \in DOMAIN resolved.layer : resolved.layer[key] # "session"

(* The highest layer with an acceptable value decides, every value that is  *)
(* not acceptable is reported, and neither it nor a file in error changes   *)
(* anything else: what load_resolved_config is meant to resolve.            *)
Sources ==
  <<[layer |-> "session", settings |-> session],
    [layer |-> "user",    settings |-> IF WellFormed(user) THEN SettingsOf(user) ELSE NoSettings],
    [layer |-> "system",  settings |-> IF WellFormed(system) THEN SettingsOf(system) ELSE NoSettings],
    [layer |-> "builtin", settings |-> Defaults]>>

Deciding(key) == {i \in DOMAIN Sources : key \in Accepted(Sources[i].settings)}

HighestDecides ==
  job = Idle => \A r \in {Resolve(system, user, session)} :
    \A key \in Schema :
      /\ key \in DOMAIN r.value <=> Deciding(key) # {}
      /\ Deciding(key) # {} =>
           /\ r.layer[key] = Sources[Min(Deciding(key))].layer
           /\ r.value[key] = Coerce[Sources[Min(Deciding(key))].settings[key]]
      /\ key \in r.refused <=>
           \E i \in DOMAIN Sources :
             key \in DOMAIN Sources[i].settings \ Accepted(Sources[i].settings)

(* remove_toml_keys keeps the header of a table it empties, since "an empty *)
(* table resolves identically to an absent one" (writer.py:141): what a      *)
(* display is shown depends only on the tables that set something.          *)
EmptyIsAbsent ==
  \A leaf \in OutputLeaves :
    Shown(resolved, leaf) =
      Shown([resolved EXCEPT !.tables = {key[1] : key \in DOMAIN resolved.value}], leaf)

(* The loader says of a value it refuses that "the built-in default stands  *)
(* in for the value" (loader.py:144), and the client prints it as the       *)
(* "Substituted Default": where the highest layer to set a global key is    *)
(* refused, the key has its default.                                        *)
Setting(key) == {i \in DOMAIN Sources : key \in DOMAIN Sources[i].settings}

RefusedIsDefault ==
  job = Idle => \A r \in {Resolve(system, user, session)} :
    \A key \in DOMAIN Defaults :
      Min(Setting(key)) \notin Deciding(key) => r.value[key] = Defaults[key]
=============================================================================
