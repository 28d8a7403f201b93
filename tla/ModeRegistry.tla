---------------------------- MODULE ModeRegistry ----------------------------
(***************************************************************************)
(* ModeRegistry of src/rust/neovm-core/src/elisp/mode.rs: major modes     *)
(* with parent links, per-buffer major and minor modes, global minor      *)
(* modes and custom variables and groups.                                 *)
(*                                                                         *)
(* The registry is owned by the single-threaded evaluator: each &mut self *)
(* method is one action, and each &self query (derived_mode_p,            *)
(* font_lock_keywords, is_minor_mode_active, active_minor_modes) is an   *)
(* operator on the state.  A call that returns Err changes nothing and    *)
(* has no action.  Names are model values; the definitions keep only the *)
(* fields the registry's logic reads (parent, whether font-lock defaults *)
(* are present).                                                          *)
(***************************************************************************)
EXTENDS Naturals, Sequences, FiniteSets, SequencesExt

CONSTANTS
    Majors,       \* major mode names, Fundamental among them
    Fundamental,  \* "fundamental-mode"
    Minors,       \* minor mode names
    Buffers,      \* buffer ids
    Vars,         \* custom variable names
    Groups,       \* custom group names
    NoMode,       \* Option::None
    Hangs,        \* the outcome of a walk up a parent chain that never ends
    Patterns,     \* auto-mode-alist patterns, as sequences of characters
    FileNames,    \* file names mode_for_file is asked about
    MaxAuto,      \* bound on the length of auto_mode_alist
    Percents      \* buffer percentages the mode line is rendered with

ASSUME /\ Fundamental \in Majors
       /\ NoMode \notin Majors \cup Minors \cup Groups
       /\ Hangs \notin Majors \cup {NoMode}

\* A registered MajorMode: its parent and whether font_lock is Some.
MajorDef == [parent : Majors \cup {NoMode}, fontLock : BOOLEAN]

VARIABLES
    majors,        \* major_modes: name -> definition, NoMode if absent
    minorReg,      \* the keys of minor_modes
    minorLighter,  \* minor_modes: name -> whether its lighter is Some
    bufferMajor,   \* buffer_major_modes, NoMode if absent
    bufferMinor,   \* buffer_minor_modes (an absent entry is <<>>)
    globalMinor,   \* global_minor_modes
    customVars,    \* the keys of custom_variables
    varGroup,      \* custom_variables: name -> its group (NoMode for None)
    customGroups,  \* the keys of custom_groups
    groupMembers,  \* custom_groups: name -> members
    autoModes      \* auto_mode_alist: <<pattern, mode name>> pairs

custom == <<customVars, varGroup, customGroups, groupMembers, autoModes>>
minor == <<minorReg, minorLighter>>
vars == <<majors, minor, bufferMajor, bufferMinor, globalMinor, custom>>

Registered == {m \in Majors : majors[m] # NoMode}

TypeOK ==
    /\ majors \in [Majors -> MajorDef \cup {NoMode}]
    /\ minorReg \subseteq Minors /\ minorLighter \in [Minors -> BOOLEAN]
    /\ bufferMajor \in [Buffers -> Registered \cup {NoMode}]
    /\ bufferMinor \in [Buffers -> Seq(minorReg)]
    /\ globalMinor \in Seq(minorReg)
    /\ customVars \subseteq Vars /\ varGroup \in [Vars -> Groups \cup {NoMode}]
    /\ customGroups \subseteq Groups /\ groupMembers \in [Groups -> Seq(Vars)]
    /\ autoModes \in Seq(Patterns \X Majors) /\ Len(autoModes) <= MaxAuto

\* ModeRegistry::new with register_fundamental_mode (326-342, 604-617).
Init ==
    /\ majors = [m \in Majors |->
                   IF m = Fundamental THEN [parent |-> NoMode, fontLock |-> FALSE]
                   ELSE NoMode]
    /\ minorReg = {} /\ minorLighter = [n \in Minors |-> FALSE]
    /\ bufferMajor = [b \in Buffers |-> NoMode]
    /\ bufferMinor = [b \in Buffers |-> <<>>]
    /\ globalMinor = <<>>
    /\ customVars = {} /\ varGroup = [v \in Vars |-> NoMode]
    /\ customGroups = {} /\ groupMembers = [g \in Groups |-> <<>>]
    /\ autoModes = <<>>

-----------------------------------------------------------------------------
(* Queries.                                                                *)

\* get_major_mode (363-368)
GetMajorMode(b) == IF bufferMajor[b] = NoMode THEN Fundamental ELSE bufferMajor[b]

Parent(m) == IF majors[m] = NoMode THEN NoMode ELSE majors[m].parent

\* Bug variant: the parent is looked up before the name is compared, so
\* a mode no longer derives from itself.
RECURSIVE DerivedWalkParentFirst(_, _, _)
DerivedWalkParentFirst(cur, anc, fuel) ==
    IF fuel = 0 THEN Hangs
    ELSE IF Parent(cur) = NoMode THEN FALSE
    ELSE IF Parent(cur) = anc THEN TRUE
    ELSE DerivedWalkParentFirst(Parent(cur), anc, fuel - 1)

(* The loop of derived_mode_p (388-398) from `cur`.  A walk that has not   *)
(* ended after visiting every name once more than there are names is on *)
(* a cycle, and the code's loop never returns.                           *)
RECURSIVE DerivedWalk(_, _, _)
DerivedWalk(cur, anc, fuel) ==
    IF fuel = 0 THEN Hangs
    ELSE IF cur = anc THEN TRUE
    ELSE IF Parent(cur) = NoMode THEN FALSE
    ELSE DerivedWalk(Parent(cur), anc, fuel - 1)

Fuel == Cardinality(Majors) + 1

DerivedModeP(m, anc) == DerivedWalk(m, anc, Fuel)

\* Bug variant: only the mode's own font-lock defaults are consulted.
FontLockWalkNoInherit(cur, fuel) ==
    IF fuel = 0 THEN Hangs
    ELSE IF majors[cur] = NoMode THEN NoMode
    ELSE IF majors[cur].fontLock THEN cur
    ELSE NoMode

\* font_lock_keywords (544-558): the first mode up the chain with
\* font-lock defaults (NoMode for None); stops at an unregistered name.
RECURSIVE FontLockWalk(_, _)
FontLockWalk(cur, fuel) ==
    IF fuel = 0 THEN Hangs
    ELSE IF majors[cur] = NoMode THEN NoMode
    ELSE IF majors[cur].fontLock THEN cur
    ELSE IF majors[cur].parent = NoMode THEN NoMode
    ELSE FontLockWalk(majors[cur].parent, fuel - 1)

FontLockKeywords(m) == FontLockWalk(m, Fuel)

\* is_minor_mode_active (446-455): buffer-local first, then global.
IsMinorModeActive(b, n) ==
    n \in ToSet(bufferMinor[b]) \/ n \in ToSet(globalMinor)

\* Bug variant: buffer-local modes appended without the duplicate test.
ActiveMinorModesNoDedup(b) == globalMinor \o bufferMinor[b]

\* active_minor_modes (458-474): global modes first, then the buffer's own
\* that are not already listed.
ActiveMinorModes(b) ==
    globalMinor \o SelectSeq(bufferMinor[b], LAMBDA n : n \notin ToSet(globalMinor))

\* filename_matches_pattern (634-640): a suffix match.
FilenameMatchesPattern(f, p) == IsSuffix(p, f)

\* Bug variant: the list is searched from its end.
ModeForFileLastMatch(f) ==
    LET hits == {i \in DOMAIN autoModes : FilenameMatchesPattern(f, autoModes[i][1])}
    IN IF hits = {} THEN NoMode ELSE autoModes[Max(hits)][2]

\* mode_for_file (372-379): the loop over auto_mode_alist from its front,
\* returning the mode of the first entry whose pattern matches.
RECURSIVE ModeForFileFrom(_, _)
ModeForFileFrom(f, i) ==
    IF i > Len(autoModes) THEN NoMode
    ELSE IF FilenameMatchesPattern(f, autoModes[i][1]) THEN autoModes[i][2]
    ELSE ModeForFileFrom(f, i + 1)

ModeForFile(f) == ModeForFileFrom(f, 1)

-----------------------------------------------------------------------------
(* The mode line.  A string is a sequence of tokens: a literal is its     *)
(* characters, a pretty name or a lighter one token standing for the      *)
(* string the definition carries, other rendered values one token each.   *)

Lit(str) == [kind |-> "Literal", text |-> str]
El(k)    == [kind |-> k, text |-> <<>>]

\* ModeLineFormat::default_format (201-217).
DefaultFormat ==
    << Lit(<<" ">>), El("Modified"), Lit(<<" ">>), El("BufferName"),
       Lit(<<" ", " ">>), El("Position"), Lit(<<" ", " ">>), El("Percentage"),
       Lit(<<" ", " ", "(">>), El("ModeName"), El("MinorModes"), Lit(<<")">>) >>

Pretty(m)  == [pretty |-> m]
Lighter(n) == [lighter |-> n]

\* The lighters of the minor modes in `modes` that are registered with a
\* lighter, in order.
WithLighter(modes) == SelectSeq(modes, LAMBDA n : n \in minorReg /\ minorLighter[n])
Lighters(modes) == LET w == WithLighter(modes) IN [i \in 1..Len(w) |-> Lighter(w[i])]

\* render's ModeName arm (233-240): the definition's pretty_name if the
\* mode is registered, else the mode name.
RenderModeName(b) ==
    LET m == GetMajorMode(b) IN IF majors[m] = NoMode THEN <<m>> ELSE <<Pretty(m)>>

\* Bug variant: only the buffer's own minor modes are shown.
RenderElementLocalOnly(e, b, md, ro, pct) ==
    CASE e.kind = "Literal"    -> e.text
      [] e.kind = "ModeName"   -> RenderModeName(b)
      [] e.kind = "MinorModes" -> Lighters(bufferMinor[b])
      [] e.kind = "BufferName" -> <<"buffer-name">>
      [] e.kind = "Position"   -> <<"line", ":", "col">>
      [] e.kind = "Percentage" ->
            IF pct = 0 THEN <<"Top">> ELSE IF pct >= 100 THEN <<"Bot">> ELSE <<pct, "%">>
      [] e.kind = "Modified"   -> IF ro THEN <<"%%">> ELSE IF md THEN <<"**">> ELSE <<"--">>
      [] e.kind = "ReadOnly"   -> IF ro THEN <<"%%">> ELSE <<"--">>
      [] e.kind = "Encoding"   -> <<"U">>
      [] e.kind = "Eol"        -> <<":LF">>
      [] OTHER                 -> <<"[">> \o e.text \o <<"]">>

\* One element of ModeLineFormat::render (230-293) for buffer b, modified
\* md, read-only ro and percentage pct; a Custom element shows its raw
\* form in brackets.
RenderElement(e, b, md, ro, pct) ==
    CASE e.kind = "Literal"    -> e.text
      [] e.kind = "ModeName"   -> RenderModeName(b)
      [] e.kind = "MinorModes" -> Lighters(ActiveMinorModes(b))
      [] e.kind = "BufferName" -> <<"buffer-name">>
      [] e.kind = "Position"   -> <<"line", ":", "col">>
      [] e.kind = "Percentage" ->
            IF pct = 0 THEN <<"Top">> ELSE IF pct >= 100 THEN <<"Bot">> ELSE <<pct, "%">>
      [] e.kind = "Modified"   -> IF ro THEN <<"%%">> ELSE IF md THEN <<"**">> ELSE <<"--">>
      [] e.kind = "ReadOnly"   -> IF ro THEN <<"%%">> ELSE <<"--">>
      [] e.kind = "Encoding"   -> <<"U">>
      [] e.kind = "Eol"        -> <<":LF">>
      [] OTHER                 -> <<"[">> \o e.text \o <<"]">>

\* ModeLineFormat::render (221-296): the elements' texts concatenated.
Render(fmt, b, md, ro, pct) ==
    FlattenSeq([k \in DOMAIN fmt |-> RenderElement(fmt[k], b, md, ro, pct)])

\* mode_line_string (567-591): parts are the pretty name (or the name of
\* an unregistered mode) and the lighters of the active minor modes,
\* joined and put in parentheses.
ModeLineString(b) ==
    LET major  == GetMajorMode(b)
        pretty == IF majors[major] = NoMode THEN major ELSE Pretty(major)
        parts  == <<pretty>> \o Lighters(ActiveMinorModes(b))
    IN <<"(">> \o parts \o <<")">>

-----------------------------------------------------------------------------
(* Operations.                                                             *)

\* register_major_mode (347-349): insert or replace, any parent allowed.
RegisterMajorMode(m, par, fl) ==
    /\ majors' = [majors EXCEPT ![m] = [parent |-> par, fontLock |-> fl]]
    /\ UNCHANGED <<minor, bufferMajor, bufferMinor, globalMinor,
                   custom>>

\* Bug variant: the contains_key test missing.
SetMajorModeNoCheck(b, m) ==
    /\ bufferMajor' = [bufferMajor EXCEPT ![b] = m]
    /\ UNCHANGED <<majors, minor, bufferMinor, globalMinor, custom>>

\* set_major_mode (353-360)
SetMajorMode(b, m) ==
    /\ m \in Registered
    /\ bufferMajor' = [bufferMajor EXCEPT ![b] = m]
    /\ UNCHANGED <<majors, minor, bufferMinor, globalMinor, custom>>

\* register_minor_mode (404-406): insert or replace, with or without a
\* lighter.
RegisterMinorMode(n, lit) ==
    /\ minorReg' = minorReg \cup {n}
    /\ minorLighter' = [minorLighter EXCEPT ![n] = lit]
    /\ UNCHANGED <<majors, bufferMajor, bufferMinor, globalMinor, custom>>

AddOnce(s, n) == IF n \in ToSet(s) THEN s ELSE Append(s, n)
Without(s, n) == SelectSeq(s, LAMBDA x : x # n)

\* enable_minor_mode (409-421)
EnableMinorMode(b, n) ==
    /\ n \in minorReg
    /\ bufferMinor' = [bufferMinor EXCEPT ![b] = AddOnce(@, n)]
    /\ UNCHANGED <<majors, minor, bufferMajor, globalMinor, custom>>

\* disable_minor_mode (424-428): retain the others.
DisableMinorMode(b, n) ==
    /\ bufferMinor' = [bufferMinor EXCEPT ![b] = Without(@, n)]
    /\ UNCHANGED <<majors, minor, bufferMajor, globalMinor, custom>>

\* toggle_minor_mode (432-443): disable if active (locally or globally),
\* else enable; it returns ~IsMinorModeActive(b, n) of the state before.
ToggleMinorMode(b, n) ==
    /\ n \in minorReg
    /\ IF IsMinorModeActive(b, n) THEN DisableMinorMode(b, n)
                                  ELSE EnableMinorMode(b, n)

ToggleResult(b, n) == ~IsMinorModeActive(b, n)

\* enable_global_minor_mode (480-488)
EnableGlobalMinorMode(n) ==
    /\ n \in minorReg
    /\ globalMinor' = AddOnce(globalMinor, n)
    /\ UNCHANGED <<majors, minor, bufferMajor, bufferMinor, custom>>

\* disable_global_minor_mode (491-493)
DisableGlobalMinorMode(n) ==
    /\ globalMinor' = Without(globalMinor, n)
    /\ UNCHANGED <<majors, minor, bufferMajor, bufferMinor, custom>>

\* register_custom_variable (513-522): listed in its group only if the
\* group is already registered; the definition is inserted or replaced.
RegisterCustomVariable(v, g) ==
    /\ groupMembers' = IF g \in customGroups
                          THEN [groupMembers EXCEPT ![g] = AddOnce(@, v)]
                          ELSE groupMembers
    /\ customVars' = customVars \cup {v}
    /\ varGroup' = [varGroup EXCEPT ![v] = g]
    /\ UNCHANGED <<customGroups, autoModes>>
    /\ UNCHANGED <<majors, minor, bufferMajor, bufferMinor, globalMinor>>

\* register_custom_group (525-527): insert or replace, with the members
\* the caller gives (a defgroup gives none).
RegisterCustomGroup(g) ==
    /\ customGroups' = customGroups \cup {g}
    /\ groupMembers' = [groupMembers EXCEPT ![g] = <<>>]
    /\ UNCHANGED <<majors, minor, bufferMajor, bufferMinor, globalMinor,
                   customVars, varGroup, autoModes>>

\* add_auto_mode (504-506): appended, the mode not checked.
AddAutoMode(p, m) ==
    /\ Len(autoModes) < MaxAuto
    /\ autoModes' = Append(autoModes, <<p, m>>)
    /\ UNCHANGED <<majors, minor, bufferMajor, bufferMinor, globalMinor,
                   customVars, varGroup, customGroups, groupMembers>>

\* remove_buffer (594-597)
RemoveBuffer(b) ==
    /\ bufferMajor' = [bufferMajor EXCEPT ![b] = NoMode]
    /\ bufferMinor' = [bufferMinor EXCEPT ![b] = <<>>]
    /\ UNCHANGED <<majors, minor, globalMinor, custom>>

RegistryNext ==
    \/ \E m \in Majors, par \in Majors \cup {NoMode}, fl \in BOOLEAN :
          RegisterMajorMode(m, par, fl)
    \/ \E b \in Buffers, m \in Majors : SetMajorMode(b, m)
    \/ \E n \in Minors, lit \in BOOLEAN : RegisterMinorMode(n, lit)
    \/ \E b \in Buffers, n \in Minors :
          EnableMinorMode(b, n) \/ DisableMinorMode(b, n) \/ ToggleMinorMode(b, n)
    \/ \E n \in Minors : EnableGlobalMinorMode(n) \/ DisableGlobalMinorMode(n)
    \/ \E v \in Vars, g \in Groups \cup {NoMode} : RegisterCustomVariable(v, g)
    \/ \E g \in Groups : RegisterCustomGroup(g)
    \/ \E b \in Buffers : RemoveBuffer(b)

\* The auto-mode list is read only by mode_for_file.
AutoNext == \E p \in Patterns, m \in Majors : AddAutoMode(p, m)

Next == RegistryNext \/ AutoNext

Spec == Init /\ [][Next]_vars

-----------------------------------------------------------------------------
(* Properties.                                                             *)

\* The names reachable from S through parent links of registered modes:
\* the least fixpoint, a reference independent of the loop's order.
RECURSIVE Reach(_)
Reach(S) ==
    LET S2 == S \cup ({Parent(x) : x \in S} \ {NoMode}) IN
    IF S2 = S THEN S ELSE Reach(S2)

\* anc[m, a]: a is m or one of its ancestors.
Ancestry == [x, y \in Majors |-> y \in Reach({x})]

\* derived_mode_p agrees with ancestry, the reflexive transitive closure
\* of the parent links, whenever it returns, whatever the order modes
\* were registered or re-registered in, with parents that are not (yet)
\* registered (388-398).
DerivedModeCorrect ==
    LET anc == Ancestry IN
    \A m, a \in Majors :
        DerivedModeP(m, a) # Hangs => DerivedModeP(m, a) = anc[m, a]

\* font_lock_keywords returns the nearest ancestor-or-self with font-lock
\* defaults, and None only when no ancestor has them (544-558).
FontLockFromNearest ==
    LET anc == Ancestry
        cand(m) == {r \in Registered : anc[m, r] /\ majors[r].fontLock}
    IN \A m \in Majors :
         LET fl == FontLockKeywords(m) IN
         fl # Hangs =>
            IF cand(m) = {} THEN fl = NoMode
            ELSE fl \in cand(m) /\ \A c \in cand(m) : anc[fl, c]

\* active_minor_modes lists exactly the modes is_minor_mode_active
\* reports, each once, when a mode is enabled both globally and in the
\* buffer in either order (446-474).
ActiveModesExact ==
    \A b \in Buffers :
        /\ ToSet(ActiveMinorModes(b)) = {n \in Minors : IsMinorModeActive(b, n)}
        /\ IsInjective(ActiveMinorModes(b))

\* toggle_minor_mode returns Ok(true) exactly when the mode is active
\* afterwards, as its documentation says (430-431).  A globally enabled
\* mode is "active", so the toggle disables the buffer-local entry, which
\* may not exist, and reports false while the mode stays active.
ToggleReportsResult ==
    [][\A b \in Buffers, n \in Minors :
         ToggleMinorMode(b, n) => IsMinorModeActive(b, n)' = ToggleResult(b, n)]_vars


\* mode_for_file returns the mode of the earliest auto_mode_alist entry
\* whose pattern ends the file name, and None only when none does: an
\* entry added later never shadows an earlier one (372-379, 504-506,
\* 634-640; the test auto_mode_alist_first_match_wins).
AutoModeFirstMatch ==
    \A f \in FileNames :
        LET hits == {i \in DOMAIN autoModes : IsSuffix(autoModes[i][1], f)} IN
        ModeForFile(f) = IF hits = {} THEN NoMode
                         ELSE autoModes[CHOOSE i \in hits : \A j \in hits : i <= j][2]

\* The default mode line ends with mode_line_string: both show the major
\* mode's pretty name and the lighters of every active minor mode,
\* global ones included and each once, whatever the buffer state
\* (render 221-296 with default_format 201-217, mode_line_string 567-591).
ModeLineMatchesRender ==
    \A b \in Buffers, md, ro \in BOOLEAN, pct \in Percents :
        LET line == Render(DefaultFormat, b, md, ro, pct)
            tail == ModeLineString(b)
        IN /\ Len(tail) <= Len(line)
           /\ SubSeq(line, Len(line) - Len(tail) + 1, Len(line)) = tail

=============================================================================
