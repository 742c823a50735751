---------------------------- MODULE IncludeWalk ----------------------------
(***************************************************************************)
(* The include walk of compose/dirs.go. compose-go has merged a project's   *)
(* files by the time minienv sees it, so the walk reads them once more, in  *)
(* depth-first order, to recover which file declares each service. A deploy *)
(* walks twice: LoadServiceDirs, then LoadRawServices, which also keeps     *)
(* each declaration as it was written.                                      *)
(*                                                                          *)
(* compose-go's reading of one file is external: a model is the services    *)
(* and the includes of the files given, the later files' added to the       *)
(* first's. Only names and places are kept of it: of a file its services,   *)
(* those of them with a body, its includes, whether they decode, and        *)
(* whether it reads; of an environment file, whether it reads.              *)
(***************************************************************************)
EXTENDS FiniteSets, Collections, SequencesExt

CONSTANTS
    Trees,    \* [files, envs, root, workingDir, services]: the compose and environment
              \* files as the walk finds them, and the services compose-go loaded before
    Service,
    NoDir     \* an include without project_directory

VARIABLES
    tree,
    withRaw,  \* FALSE in LoadServiceDirs, TRUE in LoadRawServices
    pc,       \* "visit", "next", "check"; "ok" and "err" end
    call,     \* [files, dir, envFiles]: the arguments of the visit being entered
    stack,    \* [dir, includes, taken]: the visits under way, and how many of its includes
              \* each has taken
    visited,
    dirs,     \* ServiceDirs
    raw,      \* RawServices: the files whose declaration was kept
    error

\* A list is a sequence. There are finitely many files; what a file has is compose-go's:
\* its services, and its includes with the paths of each.
IsList(s) == s \in Seq(ToSet(s))

ASSUME TreesAssumption ==
    \A t \in Trees :
        /\ IsList(t.root) /\ IsFiniteSet(DOMAIN t.files)
        /\ \A f \in DOMAIN t.files :
              /\ t.files[f].services \subseteq Service
              /\ t.files[f].bodies \subseteq t.files[f].services
              /\ IsList(t.files[f].includes)
              /\ \A inc \in ToSet(t.files[f].includes) : IsList(inc.paths)

vars == <<tree, withRaw, pc, call, stack, visited, dirs, raw, error>>

Ended == pc \in {"ok", "err"}
Unclaimed == [s \in {} |-> {}]
-----------------------------------------------------------------------------
\* A path is the sequence of its elements; a reference to one is absolute or not.

Clean(path, element) == IF element = ".." THEN Front(path) ELSE Append(path, element)

absoluteTo(dir, ref) ==
    IF ref.abs THEN ref.path ELSE FoldLeft(Clean, dir, ref.path)

\* An include that names no environment file takes the .env of its project, if there is one.
resolveInclude(t, dir, inc) ==
    LET paths == [i \in DOMAIN inc.paths |-> absoluteTo(dir, inc.paths[i])]
        project == IF inc.projectDirectory # NoDir THEN absoluteTo(dir, inc.projectDirectory)
                   ELSE IF paths = <<>> THEN dir ELSE Front(paths[1])
        dotEnv == Append(project, ".env")
    IN [files |-> paths, dir |-> project,
        envFiles |-> IF inc.envFiles # <<>>
                     THEN [i \in DOMAIN inc.envFiles |-> absoluteTo(dir, inc.envFiles[i])]
                     ELSE IF dotEnv \in DOMAIN t.envs THEN <<dotEnv>> ELSE <<>>]

EnvLoads(t, envFiles) == \A e \in ToSet(envFiles) : e \in DOMAIN t.envs /\ t.envs[e]

\* Each of the files is there and is a compose file; a raw model has no environment
\* and so may fail where the interpolated one does not.
Loads(t, visit) ==
    /\ EnvLoads(t, visit.envFiles)
    /\ \A f \in ToSet(visit.files) : f \in DOMAIN t.files /\ t.files[f].reads # "never"

LoadsRaw(t, files) == \A f \in ToSet(files) : t.files[f].reads = "always"

Declares(t, files) == UNION {t.files[f].services : f \in ToSet(files)}

\* claimRaw passes over a service that is no mapping.
DeclaresRaw(t, files) == UNION {t.files[f].bodies : f \in ToSet(files)}

\* includeConfigs: a list, of strings or of what decodes to a configuration.
Decodes(t, files) == \A f \in ToSet(files) : t.files[f].decodes

includeConfigs(t, files) == Joined([i \in DOMAIN files |-> t.files[files[i]].includes])
-----------------------------------------------------------------------------
Start(t) == [files |-> t.root, dir |-> t.workingDir, envFiles |-> <<>>]

Init ==
    /\ tree \in Trees
    /\ withRaw = FALSE /\ pc = "visit" /\ call = Start(tree)
    /\ stack = <<>> /\ visited = {}
    /\ dirs = Unclaimed /\ raw = Unclaimed /\ error = "none"

Fail(kind) ==
    /\ pc' = "err" /\ error' = kind
    /\ UNCHANGED <<tree, withRaw, call, stack>>

\* Mutant of claim: the last file to declare a service gets it.
claimLast(claims, services, owner) ==
    Over([s \in services |-> owner], claims)

\* claimDirs and claimRaw: the first claim wins.
claim(claims, services, owner) ==
    Over(claims, [s \in services |-> owner])

RefuseEmpty ==
    /\ pc = "visit" /\ call.files = <<>>
    /\ Fail("include_decode") /\ UNCHANGED <<visited, dirs, raw>>

RefuseRepeated ==
    /\ pc = "visit" /\ call.files # <<>> /\ call.files[1] \in visited
    /\ Fail("include_cycle") /\ UNCHANGED <<visited, dirs, raw>>

Enters == pc = "visit" /\ call.files # <<>> /\ call.files[1] \notin visited

\* Mutant of Mark: the walk marks every file it is given, not the first alone.
MarkAll == visited' = visited \union ToSet(call.files)

\* Mutant of Mark: a file is not remembered.
MarkNone == UNCHANGED visited

Mark == visited' = visited \union {call.files[1]}

Claim ==
    /\ dirs' = claim(dirs, Declares(tree, call.files), call.dir)
    /\ raw' = IF withRaw THEN claim(raw, DeclaresRaw(tree, call.files), call.files) ELSE raw

FailModel ==
    /\ Enters /\ ~Loads(tree, call)
    /\ Mark
    /\ Fail("include_model") /\ UNCHANGED <<dirs, raw>>

FailRawModel ==
    /\ Enters /\ Loads(tree, call) /\ withRaw /\ ~LoadsRaw(tree, call.files)
    /\ Mark
    /\ dirs' = claim(dirs, Declares(tree, call.files), call.dir)
    /\ Fail("raw_model") /\ UNCHANGED raw

FailIncludes ==
    /\ Enters /\ Loads(tree, call) /\ (withRaw => LoadsRaw(tree, call.files))
    /\ ~Decodes(tree, call.files)
    /\ Mark /\ Claim
    /\ Fail("include_decode")

Enter ==
    /\ Enters /\ Loads(tree, call) /\ (withRaw => LoadsRaw(tree, call.files))
    /\ Decodes(tree, call.files)
    /\ Mark /\ Claim
    /\ stack' = Append(stack, [dir |-> call.dir, taken |-> 0,
                               includes |-> includeConfigs(tree, call.files)])
    /\ pc' = "next"
    /\ UNCHANGED <<tree, withRaw, call, error>>

\* The visit on top of the stack has includes left to range over.
HasMore == Last(stack).taken < Len(Last(stack).includes)

\* resolveInclude refuses an include without a path with the error visit has for it.
NextInclude ==
    /\ pc = "next" /\ HasMore
    /\ call' = resolveInclude(tree, Last(stack).dir, Last(stack).includes[Last(stack).taken + 1])
    /\ stack' = [stack EXCEPT ![Len(stack)].taken = @ + 1]
    /\ pc' = "visit"
    /\ UNCHANGED <<tree, withRaw, visited, dirs, raw, error>>

Return ==
    /\ pc = "next" /\ ~HasMore
    /\ stack' = Front(stack)
    /\ pc' = IF Len(stack) = 1 THEN "check" ELSE "next"
    /\ UNCHANGED <<tree, withRaw, call, visited, dirs, raw, error>>

FailMissing ==
    /\ pc = "check" /\ \E s \in tree.services : s \notin DOMAIN dirs
    /\ Fail("service_dir_missing") /\ UNCHANGED <<visited, dirs, raw>>

\* LoadRawServices starts a walk of its own; what it claims of dirs is dropped.
Found ==
    /\ pc = "check" /\ tree.services \subseteq DOMAIN dirs
    /\ IF withRaw
       THEN pc' = "ok" /\ UNCHANGED <<withRaw, call, visited, dirs>>
       ELSE /\ pc' = "visit" /\ withRaw' = TRUE /\ call' = Start(tree)
            /\ visited' = {} /\ dirs' = Unclaimed
    /\ UNCHANGED <<tree, stack, raw, error>>

Finished == Ended /\ UNCHANGED vars

Next ==
    \/ RefuseEmpty \/ RefuseRepeated
    \/ FailModel \/ FailRawModel \/ FailIncludes \/ Enter
    \/ NextInclude \/ Return
    \/ FailMissing \/ Found
    \/ Finished

Spec == Init /\ [][Next]_vars
-----------------------------------------------------------------------------
\* What the walk should find, said of addresses: the address of a visit is the sequence
\* of the includes that lead to it, each by its position in its includer.

Child(t, node, i) == resolveInclude(t, node.dir, includeConfigs(t, node.files)[i])

Node(t, address) ==
    LET node[n \in 0..Len(address)] ==
          IF n = 0 THEN Start(t) ELSE Child(t, node[n - 1], address[n])
    IN node[Len(address)]

Readable(t, node) == node.files # <<>> /\ Loads(t, node) /\ Decodes(t, node.files)

\* The addresses, and those one include further.
Below(t, as) ==
    as \union UNION {{Append(a, i) : i \in DOMAIN includeConfigs(t, Node(t, a).files)} :
                        a \in {b \in as : Readable(t, Node(t, b))}}

\* A path of includes longer than there are files meets a file twice.
Addresses(t) ==
    LET level[n \in 0..Cardinality(DOMAIN t.files)] ==
          IF n = 0 THEN {<<>>} ELSE Below(t, level[n - 1])
    IN level[Cardinality(DOMAIN t.files)]

\* a is visited before b, were every include followed: the includer before what it
\* includes, one include before the next.
Before(a, b) ==
    \/ Len(a) < Len(b) /\ \A j \in DOMAIN a : a[j] = b[j]
    \/ \E k \in DOMAIN a \intersect DOMAIN b :
          a[k] < b[k] /\ \A j \in 1..(k - 1) : a[j] = b[j]

Earliest(as) == CHOOSE a \in as : \A b \in as \ {a} : Before(a, b)

Declarers(t, s) == {a \in Addresses(t) : s \in Declares(t, Node(t, a).files)}
RawDeclarers(t, s) == {a \in Addresses(t) : s \in DeclaresRaw(t, Node(t, a).files)}

\* What stops a visit that reads its files.
Fault(t, keepsRaw, node) ==
    IF ~Loads(t, node) THEN "include_model"
    ELSE IF keepsRaw /\ ~LoadsRaw(t, node.files) THEN "raw_model"
    ELSE IF ~Decodes(t, node.files) THEN "include_decode"
    ELSE "none"

\* What the visit at a fails with, if it gets there.
Problem(t, keepsRaw, a) ==
    LET node == Node(t, a)
    IN IF node.files = <<>> THEN "include_decode"
       ELSE IF \E b \in Addresses(t) : Before(b, a) /\ Node(t, b).files # <<>>
                                       /\ Node(t, b).files[1] = node.files[1] THEN "include_cycle"
       ELSE Fault(t, keepsRaw, node)

Kind == {"include_decode", "include_cycle", "include_model", "raw_model",
         "service_dir_missing", "none"}
-----------------------------------------------------------------------------
\* Types; both maps only ever hold services, owned by something the walk has read.
IncludeTypeOK ==
    /\ tree \in Trees /\ withRaw \in BOOLEAN
    /\ pc \in {"visit", "next", "check", "ok", "err"}
    /\ DOMAIN dirs \subseteq Service /\ DOMAIN raw \subseteq DOMAIN dirs
    /\ \A s \in DOMAIN raw : raw[s] # <<>> /\ raw[s][1] \in visited
    /\ visited \subseteq {Node(tree, a).files[1] :
                       a \in {b \in Addresses(tree) : Node(tree, b).files # <<>>}}
    /\ error \in Kind /\ (error = "none" <=> pc # "err")

\* Each service ends up with the directory of the visit that, of all that declare it,
\* comes first - the includer before what it includes, one include before the next - and
\* LoadRawServices keeps the first declaration that has a body. Where the first has one,
\* copy paths, git tags and the host-value split of a service are all taken from one file.
OwnerIsFirstDeclarer ==
    pc \in {"check", "ok"} =>
        /\ DOMAIN dirs = UNION {Declares(tree, Node(tree, a).files) : a \in Addresses(tree)}
        /\ \A s \in DOMAIN dirs : dirs[s] = Node(tree, Earliest(Declarers(tree, s))).dir
        /\ withRaw =>
              /\ DOMAIN raw = UNION {DeclaresRaw(tree, Node(tree, a).files) : a \in Addresses(tree)}
              /\ \A s \in DOMAIN raw : raw[s] = Node(tree, Earliest(RawDeclarers(tree, s))).files

\* The walk succeeds exactly when every include can be followed and no compose file is
\* reached twice, and otherwise fails with the problem that comes first. A file two
\* others include is reported as a cycle although there is none, which is what the code
\* does: visited is never unmarked.
ReportsFirstProblem ==
    Ended =>
        LET problems == {a \in Addresses(tree) : Problem(tree, withRaw, a) # "none"}
        IN error = IF problems # {} THEN Problem(tree, withRaw, Earliest(problems))
                   ELSE IF tree.services \subseteq DOMAIN dirs THEN "none"
                   ELSE "service_dir_missing"
=============================================================================
