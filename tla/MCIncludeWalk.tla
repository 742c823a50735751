--------------------------- MODULE MCIncludeWalk ---------------------------
(* Compose files a walk meets: includes that nest, share, repeat and fail. *)
EXTENDS IncludeWalk

CONSTANTS web, api, db

Rel(path) == [abs |-> FALSE, path |-> path]
Abs(path) == [abs |-> TRUE, path |-> path]
Include(refs) == [paths |-> refs, projectDirectory |-> NoDir, envFiles |-> <<>>]
IncludeFrom(dir, refs) == [Include(refs) EXCEPT !.projectDirectory = dir]
IncludeWith(env, refs) == [Include(refs) EXCEPT !.envFiles = <<env>>]
File(services, includes) ==
    [services |-> services, bodies |-> services, includes |-> includes,
     decodes |-> TRUE, reads |-> "always"]

Main == <<"p", "compose">>
Other == <<"p", "other", "compose">>
Deep == <<"p", "other", "deep", "compose">>
Base == <<"p", "base", "compose">>

ToOther == Rel(<<"other", "compose">>)
ToDeep == Rel(<<"deep", "compose">>)
ToBase == Rel(<<"base", "compose">>)

Tree(files, services) ==
    [files |-> files, envs |-> <<"p", "other", ".env">> :> TRUE, root |-> <<Main>>,
     workingDir |-> <<"p">>, services |-> services]

Nested == Tree(
    (Main :> File({web}, <<Include(<<ToOther>>)>>))
    @@ (Other :> File({web, api}, <<Include(<<ToDeep>>)>>))
    @@ (Deep :> File({api, db}, <<>>)), {web, api, db})

\* project_directory moves what a nested include is relative to.
Moved == Tree(
    (Main :> File({web}, <<IncludeFrom(Rel(<<"other">>), <<ToBase>>)>>))
    @@ (Base :> File({api}, <<Include(<<ToDeep>>)>>))
    @@ (Deep :> File({db}, <<Include(<<Rel(<<"..", "..", "late">>)>>)>>))
    @@ (<<"p", "late">> :> File({api, db}, <<>>)), {web, api, db})

Diamond == Tree(
    (Main :> File({}, <<Include(<<ToOther>>), Include(<<ToBase>>)>>))
    @@ (Other :> File({web}, <<Include(<<Abs(Deep)>>)>>))
    @@ (Base :> File({api}, <<Include(<<Abs(Deep)>>)>>))
    @@ (Deep :> File({db}, <<>>)), {web, api, db})

\* One include of two files, the second of them included alone as well.
Pair == Tree(
    (Main :> File({web}, <<Include(<<ToOther, ToBase>>), Include(<<ToBase>>)>>))
    @@ (Other :> File({api}, <<>>))
    @@ (Base :> File({db}, <<Include(<<ToDeep>>)>>))
    @@ (<<"p", "other", "deep", "compose">> :> File({db}, <<>>))
    @@ (<<"p", "base", "deep", "compose">> :> File({db}, <<>>)), {web, api, db})

Siblings == Tree(
    (Main :> File({}, <<Include(<<ToOther>>), Include(<<ToBase>>)>>))
    @@ (Other :> File({web, api}, <<>>))
    @@ (Base :> File({api, db}, <<>>)), {web, api, db})

\* The files were edited after compose-go had loaded them.
CycleSince == Tree(
    (Main :> File({web}, <<Include(<<ToOther>>)>>))
    @@ (Other :> File({api}, <<Include(<<Rel(<<"..", "compose">>)>>)>>)), {web, api})

RemovedSince == Tree(
    (Main :> File({web}, <<Include(<<ToOther>>)>>))
    @@ (Other :> File({}, <<>>)), {web, api})

GoneSince == Tree(
    (Main :> File({web}, <<Include(<<ToOther>>), Include(<<>>)>>)), {web, api})

NoPathSince == Tree(
    (Main :> File({web}, <<Include(<<>>), Include(<<ToOther>>)>>)), {web})

OnlyInterpolated == Tree(
    (Main :> File({web}, <<Include(<<ToOther>>)>>))
    @@ (Other :> [File({api}, <<>>) EXCEPT !.reads = "interpolated"]), {web, api})

Unreadable == [Nested EXCEPT !.files[Deep].reads = "never"]

\* web and api have no body where they are declared first.
NoBody == [Nested EXCEPT !.files[Main].bodies = {}, !.files[Other].bodies = {web}]

\* The .env that Other takes by default, and one that is named.
DotEnvSince == [Nested EXCEPT !.envs = <<"p", "other", ".env">> :> FALSE]

EnvFile(envs) == [Tree(
    (Main :> File({web}, <<IncludeWith(Rel(<<"dev">>), <<ToOther>>)>>))
    @@ (Other :> File({api}, <<>>)), {web, api}) EXCEPT !.envs = envs]

\* An include key that is no list.
NoListSince == [Nested EXCEPT !.files[Other].decodes = FALSE]

MCTrees == {Nested, Moved, Diamond, Pair, Siblings, CycleSince, RemovedSince,
            GoneSince, NoPathSince, OnlyInterpolated, Unreadable,
            [Nested EXCEPT !.root = <<>>], NoBody, DotEnvSince,
            EnvFile(<<"p", "dev">> :> TRUE), EnvFile(<<"p", "other", ".env">> :> TRUE),
            NoListSince}
=============================================================================
