----------------------------- MODULE Changelog -----------------------------
(***************************************************************************)
(* A release pull request: changelog fragments are folded into a section   *)
(* of CHANGELOG.md (scripts/assemble-changelog.mjs), and the version it    *)
(* carries is checked against its base branch before it is merged          *)
(* (scripts/check-version-bump.mjs).                                       *)
(*                                                                         *)
(* The assembler writes the changelog first and then removes the fragments *)
(* one by one; it may be killed in between, and the release manager then   *)
(* does what its message says.  A line of a fragment is [kind, title]: *)
(* a heading (also an indented one) with its title, a text or a blank.     *)
(***************************************************************************)
EXTENDS Integers, Sequences, SequencesExt, FiniteSets, FiniteSetsExt

-----------------------------------------------------------------------------
(* Version strings and the checks that compare them                         *)
(* (scripts/version-utils.mjs and check-version-bump.mjs).  A version as it *)
(* is written is a record [core, pre, build]: three numbers, the            *)
(* identifiers between "-" and "+", and whether there is a "+".  An         *)
(* identifier is [kind, rank]: a number and its value, a word and its place *)
(* in the order of character codes, or a number written with a leading      *)
(* zero, which the grammar has no place for.                                *)

null == [major |-> 0 - 1]

IsSemver(v) == \A i \in DOMAIN v.pre : v.pre[i].kind # "padded"

\* The build part is matched and left out; a version without prerelease has
\* null there.
parseSemver(v) ==
    IF ~IsSemver(v) THEN null
    ELSE [major |-> v.core[1], minor |-> v.core[2], patch |-> v.core[3], prerelease |-> v.pre]

\* -1, 0 or 1 for two values.
Sign(x, y) == IF x = y THEN 0 ELSE IF x < y THEN -1 ELSE 1

\* Mutation: numbers and words are compared alike.
compareIdentifiersAlike(x, y) == Sign(x.rank, y.rank)

\* One round of the loop of comparePrerelease.
compareIdentifiers(x, y) ==
    CASE x.kind = "number" /\ y.kind = "number" -> Sign(x.rank, y.rank)
      [] x.kind = "number" /\ y.kind # "number" -> -1
      [] x.kind # "number" /\ y.kind = "number" -> 1
      [] OTHER -> Sign(x.rank, y.rank)

\* Mutation: only the positions both have are compared.
comparePrereleaseCommon(a, b) ==
    LET shortest == IF Len(a) < Len(b) THEN Len(a) ELSE Len(b)
        f[i \in 1..(shortest + 1)] ==
            IF i > shortest THEN 0
            ELSE IF compareIdentifiers(a[i], b[i]) # 0 THEN compareIdentifiers(a[i], b[i])
            ELSE f[i + 1]
    IN f[1]

\* The first position that decides; where one list has run out it is lower.
comparePrerelease(a, b) ==
    LET at(i) == IF i > Len(a) THEN -1 ELSE IF i > Len(b) THEN 1
                 ELSE compareIdentifiers(a[i], b[i])
        longest == IF Len(a) > Len(b) THEN Len(a) ELSE Len(b)
        f[i \in 1..(longest + 1)] ==
            IF i > longest THEN 0 ELSE IF at(i) # 0 THEN at(i) ELSE f[i + 1]
    IN f[1]

compareSemver(a, b) ==
    LET field == <<"major", "minor", "patch">>
        pre == CASE a.prerelease = b.prerelease -> 0
                 [] a.prerelease = <<>> /\ b.prerelease # <<>> -> 1
                 [] a.prerelease # <<>> /\ b.prerelease = <<>> -> -1
                 [] OTHER -> comparePrerelease(a.prerelease, b.prerelease)
        f[i \in 1..4] == IF i = 4 THEN pre
                         ELSE IF a[field[i]] # b[field[i]] THEN Sign(a[field[i]], b[field[i]])
                         ELSE f[i + 1]
    IN f[1]

\* check-version-bump.mjs: both versions parse and the pull request's is above
\* the one on its base branch.
VersionBumped(current, base) ==
    /\ parseSemver(current) # null /\ parseSemver(base) # null
    /\ compareSemver(parseSemver(current), parseSemver(base)) > 0

\* The order of semver.org, clause 11, as a relation: the reference the checks
\* are compared with.

Below(x, y) ==
    \/ x.kind = "number" /\ y.kind # "number"
    \/ (x.kind = "number") = (y.kind = "number") /\ x.rank < y.rank

PreBelow(a, b) ==
    \/ IsStrictPrefix(a, b)
    \/ \E i \in DOMAIN a \cap DOMAIN b :
         /\ SubSeq(a, 1, i - 1) = SubSeq(b, 1, i - 1)
         /\ Below(a[i], b[i])

CoreBelow(a, b) == \E i \in 1..3 : SubSeq(a, 1, i - 1) = SubSeq(b, 1, i - 1) /\ a[i] < b[i]

Precedes(v, w) ==
    \/ CoreBelow(v.core, w.core)
    \/ /\ v.core = w.core
       /\ \/ v.pre # <<>> /\ w.pre = <<>>
          \/ v.pre # <<>> /\ w.pre # <<>> /\ PreBelow(v.pre, w.pre)

-----------------------------------------------------------------------------
(* The pull request.                                                        *)

CONSTANTS
    Fragments,     \* names of fragment files, numbers in the order of sort()
    Texts,         \* the texts each fragment may have
    VersionStrings, \* the versions a release manager may write
    FirstVersion   \* the version the base branch starts from

ChangelogConstants ==
    /\ Fragments \subseteq Nat
    /\ VersionStrings \subseteq
          [core : [1..3 -> Nat],
           pre : Seq([kind : {"number", "word", "padded"}, rank : Nat]), build : BOOLEAN]
    /\ FirstVersion \in VersionStrings /\ IsSemver(FirstVersion)

VARIABLES
    changes,    \* .changes: the text of each fragment in it
    nested,     \* fragments that lie in a subdirectory of it
    texts,      \* history: what every fragment said
    changelog,  \* CHANGELOG.md: its sections [version, body], newest first
    package,    \* the version in package.json
    base,       \* the version on the base branch
    toRemove,   \* fragments the running assembler has yet to remove
    leftover    \* fragments a killed one left behind

vars == <<changes, nested, texts, changelog, package, base, toRemove, leftover>>

SECTIONS == <<"Added", "Changed", "Deprecated", "Removed", "Fixed", "Security", "Note">>

Without(f, names) == [n \in DOMAIN f \ names |-> f[n]]
With(f, n, x) == [m \in DOMAIN f \cup {n} |-> IF m = n THEN x ELSE f[m]]

-----------------------------------------------------------------------------
(* Parsing one fragment.                                                    *)

\* Mutation: an indented heading is taken for text.
HeadingOfAtMargin(line) ==
    IF line.kind = "heading" /\ ~line.indented THEN <<line.title>> ELSE <<>>

\* The title of a heading, looked for in the trimmed line.
HeadingOf(line) == IF line.kind = "heading" THEN <<line.title>> ELSE <<>>

\* One line: a heading opens its section, everything else goes under the open
\* one.  ok turns FALSE where the code throws.
ParseLine(p, line) ==
    LET title == HeadingOf(line) IN
    CASE ~p.ok -> p
      [] p.ok /\ title # <<>> ->
           [ok |-> title[1] \in ToSet(SECTIONS) /\ title[1] \notin DOMAIN p.entries,
            section |-> title[1], entries |-> With(p.entries, title[1], <<>>)]
      [] p.ok /\ title = <<>> /\ p.section = "" -> [p EXCEPT !.ok = line.kind = "blank"]
      [] OTHER -> [p EXCEPT !.entries[p.section] = Append(@, line)]

\* The lines of a section without the blank ones at either end.
Trimmed(lines) ==
    LET texty == {i \in DOMAIN lines : lines[i].kind # "blank"}
    IN IF texty = {} THEN <<>> ELSE SubSeq(lines, Min(texty), Max(texty))

parseFragment(text) ==
    LET p == FoldLeft(ParseLine, [ok |-> TRUE, section |-> "", entries |-> <<>>], text)
        trimmed == [t \in DOMAIN p.entries |-> Trimmed(p.entries[t])]
    IN [ok |-> p.ok /\ DOMAIN trimmed # {} /\ \A t \in DOMAIN trimmed : trimmed[t] # <<>>,
        entries |-> trimmed]

-----------------------------------------------------------------------------
(* Assembling them.                                                         *)

\* The fragments directly in the directory, by name.
fragmentFiles == SetToSortSeq(DOMAIN changes, <)

\* The entries of all of them under one title, in the order of the files.
Merged(files, title) ==
    LET of(f) == LET e == parseFragment(changes[f]).entries
                 IN IF title \in DOMAIN e THEN e[title] ELSE <<>>
    IN FlattenSeq([i \in DOMAIN files |-> of(files[i])])

Body(files) ==
    LET held == SelectSeq(SECTIONS, LAMBDA t : Merged(files, t) # <<>>)
    IN [i \in DOMAIN held |-> [title |-> held[i], lines |-> Merged(files, held[i])]]

\* Mutation: a version may get a second section.
alreadyReleasedIgnored == FALSE

alreadyReleased == \E i \in DOMAIN changelog : changelog[i].version = package

\* main() up to the write: nothing to do without a fragment, and no write when
\* one is nested or malformed or the version has its section.
Assemble ==
    /\ toRemove = {} /\ DOMAIN changes # {}
    /\ nested = {}
    /\ \A f \in DOMAIN changes : parseFragment(changes[f]).ok
    /\ ~alreadyReleased
    /\ changelog' = <<[version |-> package, body |-> Body(fragmentFiles)]>> \o changelog
    /\ toRemove' = DOMAIN changes
    /\ UNCHANGED <<changes, nested, texts, package, base, leftover>>

\* rmSync of the next file.
RemoveNext ==
    /\ toRemove # {}
    /\ changes' = Without(changes, {Min(toRemove)})
    /\ toRemove' = toRemove \ {Min(toRemove)}
    /\ UNCHANGED <<nested, texts, changelog, package, base, leftover>>

\* The assembler is killed: the fragments it has not removed stay.
Kill ==
    /\ toRemove # {}
    /\ leftover' = toRemove /\ toRemove' = {}
    /\ UNCHANGED <<changes, nested, texts, changelog, package, base>>

-----------------------------------------------------------------------------
(* What people do around it.                                                *)

\* The lines of a fragment as its own.
Signed(f, text) == [i \in DOMAIN text |-> text[i] @@ [file |-> f, no |-> i]]

\* A feature lands with its fragment, which may have a slash in its name; one
\* that is refused is corrected, and one in a subdirectory is moved up.
Land ==
    \E f \in Fragments : \E t \in Texts[f] :
        /\ toRemove = {} /\ f \notin DOMAIN texts
        /\ texts' = With(texts, f, Signed(f, t))
        /\ \/ changes' = With(changes, f, Signed(f, t)) /\ UNCHANGED nested
           \/ nested' = nested \cup {f} /\ UNCHANGED changes
        /\ UNCHANGED <<changelog, package, base, toRemove, leftover>>

Flatten ==
    \E f \in nested :
        /\ nested' = nested \ {f}
        /\ changes' = With(changes, f, texts[f])
        /\ UNCHANGED <<texts, changelog, package, base, toRemove, leftover>>

Correct ==
    \E f \in DOMAIN changes : \E t \in Texts[f] :
        /\ toRemove = {} /\ ~parseFragment(changes[f]).ok /\ parseFragment(t).ok
        /\ changes' = With(changes, f, Signed(f, t)) /\ texts' = With(texts, f, Signed(f, t))
        /\ UNCHANGED <<nested, changelog, package, base, toRemove, leftover>>

\* What the assembler asks for when it finds the section written: the fragments a
\* killed run left are deleted by hand.  The release manager does that before
\* the version is raised (Bump); the message names raising it first, which over
\* leftovers would tell their changes twice.
CleanUp ==
    /\ leftover # {}
    /\ changes' = Without(changes, leftover) /\ leftover' = {}
    /\ UNCHANGED <<nested, texts, changelog, package, base, toRemove>>

Bump ==
    /\ toRemove = {} /\ leftover = {}
    /\ \E v \in VersionStrings : v # package /\ package' = v
    /\ UNCHANGED <<changes, nested, texts, changelog, base, toRemove, leftover>>

\* The pull request is merged when the check passes; build metadata is not
\* part of the order.
Promote ==
    /\ toRemove = {}
    /\ VersionBumped(package, base)
    /\ base' = package
    /\ UNCHANGED <<changes, nested, texts, changelog, package, toRemove, leftover>>

Init ==
    /\ changes = <<>> /\ nested = {} /\ texts = <<>>
    /\ changelog = <<[version |-> FirstVersion, body |-> <<>>]>>
    /\ package = FirstVersion /\ base = FirstVersion
    /\ toRemove = {} /\ leftover = {}

Next ==
    \/ Assemble \/ RemoveNext \/ Kill
    \/ Land \/ Flatten \/ Correct \/ CleanUp \/ Bump \/ Promote

Spec == Init /\ [][Next]_vars

-----------------------------------------------------------------------------
(* Properties.                                                              *)

\* What a reader of a fragment sees under a title: the lines below its heading
\* and above the next, without the blank ones at the ends.
Under(text, title) ==
    LET heads(i) == {h \in 1..i : text[h].kind = "heading"}
        mine == SelectSeq([i \in DOMAIN text |-> i],
                    LAMBDA i : /\ text[i].kind # "heading"
                               /\ heads(i) # {} /\ text[Max(heads(i))].title = title)
        texty == {i \in ToSet(mine) : text[i].kind = "text"}
        kept == SelectSeq(mine, LAMBDA i : \E j, k \in texty : j <= i /\ i <= k)
    IN [i \in DOMAIN kept |-> text[kept[i]]]

\* The lines one section of the changelog has under a title.
Published(section, title) ==
    FlattenSeq([i \in DOMAIN section.body |->
                    IF section.body[i].title = title THEN section.body[i].lines ELSE <<>>])

\* The sections that have something of a fragment, and those that have all of
\* it, each line under the heading it was written under and in its order.
Mentions(f) ==
    {i \in DOMAIN changelog :
        \E t \in ToSet(SECTIONS) : \E l \in ToSet(Published(changelog[i], t)) : l.file = f}
Holding(f) ==
    {i \in DOMAIN changelog : \A t \in ToSet(SECTIONS) :
        SelectSeq(Published(changelog[i], t), LAMBDA l : l.file = f) = Under(texts[f], t)}

\* What a feature has to say is in one release of the changelog, whole and under
\* its own headings, or still waits to be in one; a run that is killed between
\* the write and the removals neither loses it nor gets it in twice.
SaidOnce ==
    \A f \in DOMAIN texts :
        IF f \in (nested \cup DOMAIN changes) \ (toRemove \cup leftover)
        THEN Mentions(f) = {}
        ELSE Cardinality(Mentions(f)) = 1 /\ Mentions(f) = Holding(f)

\* The check lets a version through exactly when semantic versioning puts it
\* above the one of the base branch: whatever was promoted before, a release
\* never goes back, and a version that is above is not held up.
VersionsAscend ==
    VersionBumped(package, base) <=> IsSemver(package) /\ Precedes(base, package)

=============================================================================
