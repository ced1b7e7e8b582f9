---------------------------- MODULE ManifestUsage ----------------------------
(* Declared dependencies and whether anything uses them                     *)
(* (inventory_manifests and manifest_usage, src/src/deps.rs).               *)
(*                                                                          *)
(* A name is a sequence of words; a spelling is a pair of what joins the    *)
(* words and the words, so that "a-b", "a_b" and "ab" are spellings of one  *)
(* name and a name of one word has one spelling.  A manifest has the tables *)
(* of its format, sets of entries; a text file is a bag of spellings, here  *)
(* a set.                                                                   *)
EXTENDS Integers, Sequences, FiniteSets, SequencesExt

CONSTANT UsageInputs  \* trees: their manifests by path, their imports, their files

(* A tree is finite, and so is a manifest; a name has a word.               *)
ASSUME UsageAssumption ==
  \A t \in UsageInputs :
    /\ t.manifests \in Seq(Range(t.manifests)) /\ IsFiniteSet(t.files)
    /\ \A m \in Range(t.manifests) :
         /\ IsFiniteSet(m.entries)
         /\ \A e \in m.entries : e.name \in Seq(Range(e.name)) \ {<<>>}
    /\ \A f \in t.files : \A w \in f.words : w[2] \in Seq(Range(w[2])) \ {<<>>}

VARIABLES
  declared,   \* the tree
  survey,     \* reading manifests, then done
  inventory,  \* what the manifests read so far declare, and those that cannot be read
  usage       \* the status of each row

usageVars == <<declared, survey, inventory, usage>>

Spelling(join, name) == IF Len(name) = 1 THEN <<"", name>> ELSE <<join, name>>

-----------------------------------------------------------------------------
(* The inventory.                                                           *)

(* What a detail says of its source: the first of the keys it has, in the   *)
(* order the code looks for them.                                           *)
SourceByKeys(keys, ranked) ==
  LET i == SelectInSeq(ranked, LAMBDA k : k[1] \in keys)
  IN  IF i = 0 THEN "Unknown" ELSE ranked[i][2]

(* An entry is a bare version, or a detail with an empty version.           *)
CargoSource(e) ==
  IF e.version = "*" THEN "Wildcard"
  ELSE IF e.version # "" THEN "Registry"
  ELSE SourceByKeys(e.keys, << <<"path", "Path">>, <<"git", "Git">>,
                               <<"workspace", "Workspace">>, <<"version", "Registry">> >>)

(* A version is known by what its text begins with.                         *)
Prefixed == ("*" :> "Wildcard") @@ ("workspace:" :> "Workspace") @@ ("file:" :> "Path")
            @@ ("git" :> "Git") @@ ("@ file:" :> "Path") @@ ("@ git+" :> "Git")

NpmSource(e) ==
  IF e.version = "" THEN "Unknown"
  ELSE IF e.version \in {"*", "workspace:", "file:", "git"} THEN Prefixed[e.version]
  ELSE "Registry"

(* Poetry entries may have keys; every other Python requirement is a line.  *)
PythonSource(e) ==
  IF e.keys # {} THEN SourceByKeys(e.keys, << <<"path", "Path">>, <<"git", "Git">> >>)
  ELSE IF e.version \in {"*", "@ file:", "@ git+"} THEN Prefixed[e.version]
  ELSE "Registry"

EcosystemOf(format) ==
  CASE format = "Cargo.toml"   -> "cargo"
    [] format = "package.json" -> "npm"
    [] format = "go.mod"       -> "go"
    [] OTHER                   -> "python"

CargoScopes == ("dependencies" :> "runtime") @@ ("dev-dependencies" :> "development")
               @@ ("build-dependencies" :> "build") @@ ("workspace" :> "workspace")
               @@ ("target" :> "target")

NpmScopes == ("dependencies" :> "runtime") @@ ("devDependencies" :> "development")
             @@ ("peerDependencies" :> "peer") @@ ("optionalDependencies" :> "optional")

ScopeOf(format, table) ==
  CASE format = "Cargo.toml"   -> CargoScopes[table]
    [] format = "package.json" -> NpmScopes[table]
    [] OTHER -> IF table = "optional-dependencies" THEN "optional" ELSE "runtime"

SourceOf(format, e) ==
  CASE format = "Cargo.toml"   -> CargoSource(e)
    [] format = "package.json" -> NpmSource(e)
    [] format = "go.mod"       -> "Registry"
    [] OTHER                   -> PythonSource(e)

(* Only the structured formats can fail to parse, and they fail before they *)
(* give any row.                                                            *)
Structured == {"Cargo.toml", "package.json", "pyproject.toml"}

Readable(m) == m.readable /\ (m.format \in Structured => m.parses)

(* Poetry lists the interpreter among the dependencies.                     *)
RowsOf(m) ==
  {[manifest |-> m.path, ecosystem |-> EcosystemOf(m.format),
    scope |-> ScopeOf(m.format, e.table), name |-> e.name,
    source |-> SourceOf(m.format, e)] :
     e \in {x \in m.entries : ~(x.table = "poetry" /\ x.name = <<"python">>)}}

ReadManifest ==
  /\ survey = "manifests" /\ inventory.read < Len(declared.manifests)
  /\ LET m == declared.manifests[inventory.read + 1]
         one == [inventory EXCEPT !.read = @ + 1]
     IN  inventory' = IF Readable(m)
                      THEN [one EXCEPT !.rows = @ \cup RowsOf(m), !.analyzed = @ + 1]
                      ELSE [one EXCEPT !.unreadable = Append(@, m.path)]
  /\ UNCHANGED <<declared, survey, usage>>

-----------------------------------------------------------------------------
(* The join with imports and with words.                                    *)

(* How imports may spell the dependency and how texts may.  A package of    *)
(* npm or Go has a path for a name, whose last word alone is a mention.     *)
Roots(dep) ==
  CASE dep.ecosystem = "cargo"  -> {Spelling("_", dep.name), Spelling("", dep.name)}
    [] dep.ecosystem = "python" -> {Spelling("_", dep.name)}
    [] OTHER                    -> {Spelling("/", dep.name)}

Tokens(dep) ==
  LET last == Spelling("", <<Last(dep.name)>>)
  IN  CASE dep.ecosystem = "cargo"  -> Roots(dep)
        [] dep.ecosystem = "npm"    -> {Spelling("/", dep.name), last}
        [] dep.ecosystem = "go"     -> {last}
        [] dep.ecosystem = "python" -> {Spelling("-", dep.name), Spelling("_", dep.name)}

(* Whether finding neither says anything: Python names do not map to        *)
(* modules, and tools npm resolves for development need no import.          *)
MappingReliable(dep) ==
  \/ dep.ecosystem \in {"cargo", "go"}
  \/ dep.ecosystem = "npm" /\ dep.scope # "development"

(* A declaration's "root" spells the package it names; a Go import may name *)
(* a package inside the module.                                             *)
Names(dep, d) ==
  CASE dep.ecosystem = "cargo"  -> d.hint = "RustUse" /\ d.root \in Roots(dep)
    [] dep.ecosystem = "npm"    -> /\ d.hint \in {"Package", "Path"} /\ ~d.relative
                                   /\ d.root \in Roots(dep)
    [] dep.ecosystem = "python" -> d.hint = "Package" /\ d.root \in Roots(dep)
    [] dep.ecosystem = "go"     -> d.hint = "GoPackage" /\ IsPrefix(dep.name, d.root[2])

Matching(dep, declarations) == {d \in declarations : Names(dep, d)}

(* Lock files and manifests do not vouch for the names they declare.        *)
LexicalScanFiles_ReadsManifests(files) == {f \in files : ~f.large /\ ~f.binary}

LexicalScanFiles(files) == {f \in files : ~f.declares /\ ~f.large /\ ~f.binary}

(* What is said where a word is written: hyphens and slashes end a word, so *)
(* "a-b" says "a" and "b" too, and underscores do not.                      *)
Subwords(word) ==
  IF word[1] \in {"-", "/"}
  THEN {Spelling(word[1], SubSeq(word[2], i, j)) : i, j \in DOMAIN word[2]}
  ELSE {word}

Says(f, token) == \E word \in f.words : token \in Subwords(word)

Mentions(dep, files) ==
  Cardinality({p \in LexicalScanFiles(files) \X Tokens(dep) : Says(p[1], p[2])})

RowStatus(dep, declarations, files) ==
  IF Matching(dep, declarations) # {} THEN "Used"
  ELSE IF Mentions(dep, files) > 0 THEN "MentionedOnly"
  ELSE IF MappingReliable(dep) THEN "UnusedCandidate" ELSE "Unmappable"

(* A workspace row has the use of the members' rows of the same name.       *)
Usage(rows, declarations, files) ==
  LET matched == {<<r.ecosystem, r.name>> :
                    r \in {x \in rows : Matching(x, declarations) # {}}}
  IN  [r \in rows |->
         IF r.scope = "workspace" /\ <<r.ecosystem, r.name>> \in matched THEN "Used"
         ELSE RowStatus(r, declarations, files)]

JoinUsage ==
  /\ survey = "manifests" /\ inventory.read = Len(declared.manifests)
  /\ usage' = Usage(inventory.rows, declared.imports, declared.files)
  /\ survey' = "done"
  /\ UNCHANGED <<declared, inventory>>

StatusCounts ==
  [s \in {"Used", "MentionedOnly", "UnusedCandidate", "Unmappable"} |->
     Cardinality({r \in DOMAIN usage : usage[r] = s})]

UsageInit(inputs) ==
  /\ declared \in inputs
  /\ survey = "manifests"
  /\ inventory = [read |-> 0, rows |-> {}, analyzed |-> 0, unreadable |-> <<>>]
  /\ usage = <<>>

UsageNext == ReadManifest \/ JoinUsage

UsageSpec == UsageInit(UsageInputs) /\ [][UsageNext]_usageVars

-----------------------------------------------------------------------------
(* A manifest that cannot be read takes no row of another with it.          *)
InventoryTrue ==
  LET manifests == declared.manifests
      past == 1 .. inventory.read
  IN  /\ inventory.rows = UNION {RowsOf(manifests[i]) : i \in {j \in past : Readable(manifests[j])}}
      /\ inventory.analyzed + Len(inventory.unreadable) = inventory.read

(* How a text may spell a package, which is more than the code looks for:   *)
(* a Go package by its whole path.  A crate counts only as identifiers      *)
(* spell it; UnusedIsUnnamed is about its own name.                         *)
TextJoins(ecosystem) ==
  CASE ecosystem = "cargo"  -> {"_", ""}
    [] ecosystem = "python" -> {"-", "_"}
    [] OTHER                -> {"/"}

(* Nothing in the tree speaks for the dependency: no import, and no text    *)
(* that does not itself declare dependencies.                               *)
Speaks(f) == ~f.declares /\ ~f.large /\ ~f.binary

Unspoken(r) ==
  /\ \A d \in declared.imports : ~Names(r, d)
  /\ \A f \in declared.files : Speaks(f) =>
       \A join \in TextJoins(r.ecosystem) : ~Says(f, Spelling(join, r.name))

(* The rows of one package, of members and of their workspace, agree on     *)
(* whether it is imported; and every row has one status.                    *)
StatusesTrue ==
  LET rows == inventory.rows
  IN  /\ \A r \in rows : usage[r] = "UnusedCandidate" => Unspoken(r) /\ r.ecosystem # "python"
      /\ \A r \in rows : usage[r] = "Unmappable" => Unspoken(r)
      /\ \A r, s \in rows :
           r.ecosystem = s.ecosystem /\ r.name = s.name =>
             (usage[r] = "Used" <=> usage[s] = "Used")
      /\ usage = Usage(rows, declared.imports, {f \in declared.files : Speaks(f)})
      /\ SumFunction(StatusCounts) = Cardinality(rows)

(* A package called unused is imported nowhere, and no text that was read   *)
(* names it, a crate as identifiers spell it and any other as its manifest  *)
(* does; one whose use cannot be told is not called unused; and no manifest *)
(* is passed over in silence (inventory_manifests, manifest_usage).         *)
UsageRight == InventoryTrue /\ (survey = "done" => StatusesTrue)

(* The limitation the report prints (base_limitations, deps.rs): a package  *)
(* is called unused only when its name, as declared, occurs as a word in no *)
(* text that was read.  The code looks for a crate with hyphens under two   *)
(* spellings, of which its name is neither (manifest_usage).                *)
Declared(r) == Spelling(IF r.ecosystem \in {"cargo", "python"} THEN "-" ELSE "/", r.name)

UnusedIsUnnamed ==
  survey = "done" =>
    \A r \in inventory.rows : usage[r] = "UnusedCandidate" =>
      \A f \in declared.files : Speaks(f) => ~Says(f, Declared(r))
=============================================================================
