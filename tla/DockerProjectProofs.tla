------------------------ MODULE DockerProjectProofs ------------------------
(***************************************************************************)
(* Theorems about the run of minienv deploy to a Docker host, for every set *)
(* of editions of the compose file, of accounts and of environments.        *)
(***************************************************************************)
EXTENDS DockerProject, InductionLemmas

-----------------------------------------------------------------------------
(* The rewrites of a project, for any project p and any resolved services rs. *)

Fields(image, build, ports, volumes, dependsOn, labels) ==
    [image |-> image, build |-> build, ports |-> ports, volumes |-> volumes,
     dependsOn |-> dependsOn, files |-> labels]

\* Every service of it has these fields.
IsProject(p) ==
    \A s \in DOMAIN p : \E a, b, c, d, e, f : p[s] = Fields(a, b, c, d, e, f)

\* What a service mounts of its copies.
Mounts(s, rs) ==
    IF s \in DOMAIN rs /\ ~rs[s].skip
    THEN {Bind(copyRemotePath(s, c), c.containerPath) : c \in rs[s].copies}
    ELSE {}

\* The fields of a service that was put together.
LEMMA FieldsGiven ==
    ASSUME NEW a, NEW b, NEW c, NEW d, NEW e, NEW f
    PROVE  LET r == Fields(a, b, c, d, e, f)
           IN /\ r.image = a /\ r.build = b /\ r.ports = c /\ r.volumes = d
              /\ r.dependsOn = e /\ r.files = f
  BY DEF Fields

\* Removing services leaves the others as they are but for their edges.
LEMMA RemovesServices ==
    ASSUME NEW p, IsProject(p), NEW names
    PROVE  LET removed == RemoveServices(p, names)
           IN /\ DOMAIN removed = DOMAIN p \ names
              /\ \A s \in DOMAIN p \ names :
                    removed[s] = Fields(p[s].image, p[s].build, p[s].ports, p[s].volumes,
                                        p[s].dependsOn \ names, p[s].files)
<1>1. DOMAIN RemoveServices(p, names) = DOMAIN p \ names
  BY DEF RemoveServices
<1>2. ASSUME NEW s \in DOMAIN p \ names
      PROVE  RemoveServices(p, names)[s]
                 = Fields(p[s].image, p[s].build, p[s].ports, p[s].volumes,
                          p[s].dependsOn \ names, p[s].files)
  <2>1. PICK a, b, c, d, e, f : p[s] = Fields(a, b, c, d, e, f)
    BY DEF IsProject
  <2>2. RemoveServices(p, names)[s] = [p[s] EXCEPT !.dependsOn = p[s].dependsOn \ names]
    BY DEF RemoveServices
  <2> QED BY <2>1, <2>2 DEF Fields
<1> QED BY <1>1, <1>2

\* After the clearing rewrites nothing local is left, and nothing else is touched.
LEMMA ClearsLocal ==
    ASSUME NEW p, IsProject(p)
    PROVE  LET cleared == ClearServiceVolumes(ClearLocal(p))
           IN /\ DOMAIN cleared = DOMAIN p
              /\ \A s \in DOMAIN p :
                    cleared[s] = Fields(p[s].image, "none", <<>>,
                                        {v \in p[s].volumes : v.type # "bind"},
                                        p[s].dependsOn, FALSE)
<1> DEFINE cleared == ClearServiceVolumes(ClearLocal(p))
<1>1. DOMAIN cleared = DOMAIN p
  BY DEF ClearLocal, ClearServiceVolumes
<1>2. ASSUME NEW s \in DOMAIN p
      PROVE  cleared[s] = Fields(p[s].image, "none", <<>>,
                                 {v \in p[s].volumes : v.type # "bind"}, p[s].dependsOn, FALSE)
  <2> DEFINE r1 == [p[s] EXCEPT !.build = "none"]
  <2> DEFINE r2 == [r1 EXCEPT !.ports = <<>>]
  <2> DEFINE r3 == [r2 EXCEPT !.files = FALSE]
  <2> DEFINE kept == {v \in p[s].volumes : v.type # "bind"}
  <2> DEFINE r4 == [r3 EXCEPT !.volumes = kept]
  <2>1. PICK a, b, c, d, e, f : p[s] = Fields(a, b, c, d, e, f)
    BY DEF IsProject
  <2>2. p[s].image = a /\ p[s].volumes = d /\ p[s].dependsOn = e
    BY <2>1 DEF Fields
  <2>3. ClearLocal(p)[s] = r3
    BY DEF ClearLocal
  <2>4. cleared[s] = [ClearLocal(p)[s] EXCEPT
                         !.volumes = {v \in ClearLocal(p)[s].volumes : v.type # "bind"}]
    BY DEF ClearServiceVolumes, ClearLocal
  <2> HIDE DEF cleared
  <2>5. r1 = Fields(a, "none", c, d, e, f)
    BY <2>1 DEF Fields
  <2> HIDE DEF r1
  <2>6. r2 = Fields(a, "none", <<>>, d, e, f)
    BY <2>5 DEF Fields
  <2> HIDE DEF r2
  <2>7. \A x : [r2 EXCEPT !.files = x] = Fields(a, "none", <<>>, d, e, x)
    BY <2>6, SMT DEF Fields
  <2>8. r3 = Fields(a, "none", <<>>, d, e, FALSE)
    BY <2>7, Zenon
  <2> HIDE DEF r3
  <2>9. PICK y : y = FALSE
    OBVIOUS
  <2>10. r3 = Fields(a, "none", <<>>, d, e, y)
    BY <2>8, <2>9, Zenon
  <2>11. r3.volumes = d /\ \A x : [r3 EXCEPT !.volumes = x] = Fields(a, "none", <<>>, x, e, y)
    BY <2>10, SMT DEF Fields
  <2> QED BY <2>2, <2>3, <2>4, <2>9, <2>11, Zenon
<1> QED BY <1>1, <1>2

\* Copies are mounted next to what is there.
LEMMA BindsCopies ==
    ASSUME NEW p, IsProject(p), NEW rs
    PROVE  LET bound == bindCopies(p, rs)
           IN /\ DOMAIN bound = DOMAIN p
              /\ \A s \in DOMAIN p :
                    bound[s] = Fields(p[s].image, p[s].build, p[s].ports,
                                      p[s].volumes \union Mounts(s, rs), p[s].dependsOn,
                                      p[s].files)
<1> DEFINE bound == bindCopies(p, rs)
<1>1. DOMAIN bound = DOMAIN p
  BY DEF bindCopies
<1>2. ASSUME NEW s \in DOMAIN p
      PROVE  bound[s] = Fields(p[s].image, p[s].build, p[s].ports,
                               p[s].volumes \union Mounts(s, rs), p[s].dependsOn, p[s].files)
  <2>1. PICK a, b, c, d, e, f : p[s] = Fields(a, b, c, d, e, f)
    BY DEF IsProject
  <2>2. CASE s \in DOMAIN rs /\ ~rs[s].skip
    <3>1. bound[s] = [p[s] EXCEPT !.volumes = p[s].volumes \union Mounts(s, rs)]
      BY <2>2 DEF bindCopies, Mounts
    <3> QED BY <2>1, <3>1 DEF Fields
  <2>3. CASE ~(s \in DOMAIN rs /\ ~rs[s].skip)
    <3>1. bound[s] = p[s] /\ p[s].volumes \union Mounts(s, rs) = p[s].volumes
      BY <2>3 DEF bindCopies, Mounts
    <3> QED BY <2>1, <3>1 DEF Fields
  <2> QED BY <2>2, <2>3
<1> QED BY <1>1, <1>2

\* The agent comes next to every service that is there and depends on all of them.
LEMMA InjectsAgent ==
    ASSUME NEW p, Agent \notin DOMAIN p
    PROVE  LET injected == InjectNgrokService(p)
           IN /\ DOMAIN injected = DOMAIN p \union {Agent}
              /\ \A s \in DOMAIN p : injected[s] = p[s]
              /\ injected[Agent].image = AgentImage
              /\ injected[Agent].dependsOn = DOMAIN p
  BY DEF InjectNgrokService, Put

\* Images are filled in where there is none, and the other fields stay.
LEMMA SetsImages ==
    ASSUME NEW p, NEW rs
    PROVE  LET set == SetImages(p, rs)
           IN /\ DOMAIN set = DOMAIN p
              /\ \A s \in DOMAIN p :
                    /\ p[s].image # NoImage => set[s] = p[s]
                    /\ p[s].image = NoImage =>
                          set[s] = [p[s] EXCEPT !.image = [repository |-> rs[s].image.repository,
                                                           tag |-> rs[s].image.tag]]
  BY DEF SetImages, Imageless

\* out is p after the whole of the rewrites.
IsRendered(out, p, rs, publishes) ==
    LET kept == DOMAIN p \ Skipped(rs)
    IN /\ DOMAIN out = kept \union (IF publishes THEN {Agent} ELSE {})
       /\ \A s \in kept :
             /\ out[s].build = "none" /\ out[s].ports = <<>> /\ ~out[s].files
             /\ out[s].volumes = {v \in p[s].volumes : v.type # "bind"} \union Mounts(s, rs)
             /\ out[s].dependsOn = p[s].dependsOn \ Skipped(rs)
             /\ out[s].image # NoImage
             /\ p[s].image # NoImage => out[s].image = p[s].image
             /\ p[s].image = NoImage =>
                   /\ s \in DOMAIN rs
                   /\ out[s].image = [repository |-> rs[s].image.repository,
                                      tag |-> rs[s].image.tag]
       /\ publishes => out[Agent].image # NoImage /\ out[Agent].dependsOn = kept

\* The rewrites, when no image is missing.
LEMMA Rendering ==
    ASSUME NEW p, IsProject(p), Agent \notin DOMAIN p, NEW rs, NEW publishes \in BOOLEAN,
           imageError(Arranged(p, rs, publishes), rs) = "none"
    PROVE  IsRendered(modifyComposeContent(p, rs, publishes), p, rs, publishes)
<1> DEFINE gone == Skipped(rs)
<1> DEFINE kept == DOMAIN p \ gone
<1> DEFINE removed == RemoveServices(p, gone)
<1> DEFINE cleared == ClearServiceVolumes(ClearLocal(removed))
<1> DEFINE bound == bindCopies(cleared, rs)
<1> DEFINE arranged == Arranged(p, rs, publishes)
<1> DEFINE out == SetImages(arranged, rs)
<1> DEFINE rest(s) == {v \in p[s].volumes : v.type # "bind"}
<1>1. /\ DOMAIN removed = kept
      /\ \A s \in kept : removed[s] = Fields(p[s].image, p[s].build, p[s].ports, p[s].volumes,
                                             p[s].dependsOn \ gone, p[s].files)
  <2> HIDE DEF gone
  <2> QED BY RemovesServices, Zenon
<1>2. IsProject(removed)
  <2> HIDE DEF removed, kept
  <2>1. ASSUME NEW s \in kept
        PROVE  \E a, b, c, d, e, f : removed[s] = Fields(a, b, c, d, e, f)
    BY <1>1, Zenon
  <2> QED BY <1>1, <2>1 DEF IsProject
<1>3. \A s \in kept : /\ removed[s].image = p[s].image /\ removed[s].volumes = p[s].volumes
                      /\ removed[s].dependsOn = p[s].dependsOn \ gone
  <2> HIDE DEF removed, kept
  <2> QED BY <1>1, SMT DEF Fields
<1>4. /\ DOMAIN cleared = kept
      /\ \A s \in kept : cleared[s] = Fields(removed[s].image, "none", <<>>,
                                             {v \in removed[s].volumes : v.type # "bind"},
                                             removed[s].dependsOn, FALSE)
  <2> HIDE DEF removed, kept
  <2> QED BY <1>1, <1>2, ClearsLocal, Zenon
<1>5. \A s \in kept : cleared[s] = Fields(p[s].image, "none", <<>>, rest(s),
                                          p[s].dependsOn \ gone, FALSE)
  <2> HIDE DEF removed, kept, cleared
  <2> QED BY <1>3, <1>4, Zenon
<1>6. IsProject(cleared)
  <2> HIDE DEF cleared, kept, rest
  <2>1. ASSUME NEW s \in kept
        PROVE  \E a, b, c, d, e, f : cleared[s] = Fields(a, b, c, d, e, f)
    BY <1>5, Zenon
  <2> QED BY <1>4, <2>1 DEF IsProject
<1>7. PICK no : no = FALSE
  OBVIOUS
<1>8. \A s \in kept : cleared[s] = Fields(p[s].image, "none", <<>>, rest(s),
                                          p[s].dependsOn \ gone, no)
  <2> HIDE DEF cleared, kept, rest
  <2> QED BY <1>5, <1>7, Zenon
<1>9. \A s \in kept : /\ cleared[s].image = p[s].image /\ cleared[s].build = "none"
                      /\ cleared[s].ports = <<>> /\ cleared[s].volumes = rest(s)
                      /\ cleared[s].dependsOn = p[s].dependsOn \ gone
                      /\ cleared[s].files = no
  <2> SUFFICES ASSUME NEW s \in kept
               PROVE  /\ cleared[s].image = p[s].image /\ cleared[s].build = "none"
                      /\ cleared[s].ports = <<>> /\ cleared[s].volumes = rest(s)
                      /\ cleared[s].dependsOn = p[s].dependsOn \ gone
                      /\ cleared[s].files = no
    OBVIOUS
  <2> HIDE DEF cleared, kept, rest, gone
  <2>1. cleared[s] = Fields(p[s].image, "none", <<>>, rest(s), p[s].dependsOn \ gone, no)
    BY <1>8
  <2> QED BY <2>1 DEF Fields
<1>10. /\ DOMAIN bound = kept
       /\ \A s \in kept : bound[s] = Fields(cleared[s].image, cleared[s].build, cleared[s].ports,
                                            cleared[s].volumes \union Mounts(s, rs),
                                            cleared[s].dependsOn, cleared[s].files)
  <2> HIDE DEF cleared, kept
  <2> QED BY <1>4, <1>6, BindsCopies, Zenon
<1>11. \A s \in kept : bound[s] = Fields(p[s].image, "none", <<>>, rest(s) \union Mounts(s, rs),
                                         p[s].dependsOn \ gone, no)
  <2> HIDE DEF cleared, kept, rest, bound
  <2> QED BY <1>9, <1>10, Zenon
<1>12. /\ DOMAIN arranged = kept \union (IF publishes THEN {Agent} ELSE {})
       /\ \A s \in kept : arranged[s] = bound[s]
       /\ publishes => /\ arranged[Agent].image = AgentImage
                       /\ arranged[Agent].dependsOn = kept
  <2>1. arranged = IF publishes THEN InjectNgrokService(bound) ELSE bound
    BY DEF Arranged
  <2> HIDE DEF arranged, bound, kept
  <2>2. Agent \notin DOMAIN bound
    BY <1>10 DEF kept
  <2> QED BY <1>10, <2>1, <2>2, InjectsAgent
<1>13. /\ DOMAIN out = DOMAIN arranged
       /\ \A s \in DOMAIN arranged :
             /\ arranged[s].image # NoImage => out[s] = arranged[s]
             /\ arranged[s].image = NoImage =>
                   out[s] = [arranged[s] EXCEPT !.image = [repository |-> rs[s].image.repository,
                                                           tag |-> rs[s].image.tag]]
  <2> HIDE DEF arranged
  <2> QED BY SetsImages
<1>14. \A s \in DOMAIN arranged :
          arranged[s].image = NoImage =>
              s \in DOMAIN rs /\ rs[s].image.repository # "" /\ rs[s].image.tag # NoTag
  <2>1. imageError(arranged, rs) = "none"
    OBVIOUS
  <2> HIDE DEF arranged
  <2> QED BY <2>1 DEF imageError, Imageless
<1>15. ASSUME NEW s \in kept
       PROVE  /\ out[s].build = "none" /\ out[s].ports = <<>> /\ ~out[s].files
              /\ out[s].volumes = rest(s) \union Mounts(s, rs)
              /\ out[s].dependsOn = p[s].dependsOn \ gone
              /\ out[s].image # NoImage
              /\ p[s].image # NoImage => out[s].image = p[s].image
              /\ p[s].image = NoImage =>
                    /\ s \in DOMAIN rs
                    /\ out[s].image = [repository |-> rs[s].image.repository,
                                       tag |-> rs[s].image.tag]
  <2> DEFINE vs == rest(s) \union Mounts(s, rs)
  <2> DEFINE ds == p[s].dependsOn \ gone
  <2> HIDE DEF arranged, bound, kept, rest, gone, vs, ds
  <2>1. s \in DOMAIN arranged /\ arranged[s] = Fields(p[s].image, "none", <<>>, vs, ds, no)
    BY <1>11, <1>12 DEF vs, ds
  <2>2. arranged[s].image = p[s].image
    BY <2>1 DEF Fields
  <2> HIDE DEF out
  <2>3. CASE p[s].image # NoImage
    <3>1. out[s] = Fields(p[s].image, "none", <<>>, vs, ds, no)
      BY <1>13, <2>1, <2>2, <2>3, Zenon
    <3>2. out[s].build = "none" /\ out[s].ports = <<>> /\ out[s].files = no
          /\ out[s].volumes = vs /\ out[s].dependsOn = ds /\ out[s].image = p[s].image
      BY <3>1 DEF Fields
    <3> QED BY <1>7, <2>3, <3>2 DEF vs, ds
  <2>4. CASE p[s].image = NoImage
    <3> DEFINE new == [repository |-> rs[s].image.repository, tag |-> rs[s].image.tag]
    <3>1. out[s] = [arranged[s] EXCEPT !.image = new]
      BY <1>13, <2>1, <2>2, <2>4, Zenon
    <3>2. new # NoImage /\ s \in DOMAIN rs
      BY <1>14, <2>1, <2>2, <2>4 DEF NoImage
    <3> HIDE DEF new
    <3>3. out[s] = Fields(new, "none", <<>>, vs, ds, no)
      BY <2>1, <3>1, SMT DEF Fields
    <3>4. out[s].build = "none" /\ out[s].ports = <<>> /\ out[s].files = no
          /\ out[s].volumes = vs /\ out[s].dependsOn = ds /\ out[s].image = new
      BY <3>3 DEF Fields
    <3>5. p[s].image # NoImage => out[s].image = p[s].image
      BY <2>4
    <3> QED BY <1>7, <3>2, <3>4, <3>5 DEF vs, ds, new
  <2> QED BY <2>3, <2>4
<1>16. publishes => out[Agent].image # NoImage /\ out[Agent].dependsOn = kept
  <2> HIDE DEF arranged, kept, out
  <2>1. AgentImage # NoImage
    BY DEF AgentImage, NoImage
  <2> QED BY <1>12, <1>13, <2>1
<1>17. DOMAIN out = kept \union (IF publishes THEN {Agent} ELSE {})
  <2> HIDE DEF arranged, kept, out
  <2> QED BY <1>12, <1>13
<1>18. modifyComposeContent(p, rs, publishes) = out
  BY DEF modifyComposeContent
<1> HIDE DEF out, arranged
<1> QED BY <1>15, <1>16, <1>17, <1>18 DEF IsRendered
-----------------------------------------------------------------------------
(* The run. Types first.                                                    *)

Steps == {"load", "init", "resolve", "build", "render", "up", "lookup", "done"}

\* The types with what they rest on: where the run is, and that the paging stops in time.
TypeInv ==
    /\ PipelineTypeOK
    /\ pc \in Steps
    /\ pc \in {"load", "init"} => services = NoServices
    /\ lookup = "paging" => followed < MaxPages
    /\ lookup = "none" => followed = 0

\* Init reads an edition.
ReadInv == project = NoServices \/ \E e \in Editions : project = e.services

\* What is known of the services of an edition.
LEMMA ReadServices ==
    ASSUME ReadInv, NEW s \in DOMAIN project
    PROVE  /\ project[s].dir \in Dirs /\ project[s].ports \in Seq(Nat)
           /\ project[s].image \in [repository : STRING,
                                    tag : [name : STRING, sha : {"", "+git"}]]
           /\ project[s].ngrok \in [port : Nat, trafficPolicy : STRING, url : STRING]
  BY EditionsAssumption DEF ReadInv, NoServices

\* A run that has not begun is well typed and has read nothing.
LEMMA InitTypes == Init => TypeInv /\ ReadInv
<1> SUFFICES ASSUME Init PROVE TypeInv /\ ReadInv
  OBVIOUS
<1> USE PipelineAssumption, MaxPagesAssumption
<1>1. head \in [Dirs -> Shas \union {""}]
  <2>1. (CHOOSE sha \in Shas : TRUE) \in Shas
    OBVIOUS
  <2> QED BY <2>1 DEF Init
<1>2. /\ files \in Editions /\ changes = 0 /\ pc = "load" /\ outcome = "none"
      /\ project = NoServices /\ services = NoServices /\ cache = [d \in {} |-> ""]
      /\ lookup = "none" /\ followed = 0
  BY DEF Init, PagingInit
<1>3. DOMAIN cache = {} /\ DOMAIN services = {} /\ DOMAIN project = {}
  BY <1>2 DEF NoServices
<1>4. PipelineTypeOK
  <2>1. changes \in 0..MaxChanges /\ followed \in 0..MaxPages
    BY <1>2
  <2>2. (outcome = "none" <=> pc # "done") /\ lookup \in {"none", "paging", "found", "failed"}
    BY <1>2
  <2>3. \A d \in DOMAIN cache : d \in Dirs /\ cache[d] \in Shas
    BY <1>3
  <2>4. /\ DOMAIN services \subseteq DOMAIN project
        /\ pc \in {"build", "render", "up", "lookup"} => DOMAIN services = DOMAIN project
    BY <1>3
  <2> QED BY <1>1, <1>2, <2>1, <2>2, <2>3, <2>4 DEF PipelineTypeOK
<1> QED BY <1>2, <1>4 DEF TypeInv, Steps, ReadInv

\* A map with one more key.
LEMMA Puts ==
    ASSUME NEW map, NEW key, NEW value
    PROVE  LET put == Put(map, key, value)
           IN /\ DOMAIN put = DOMAIN map \union {key}
              /\ put[key] = value
              /\ \A k \in DOMAIN map : k # key => put[k] = map[k]
  BY DEF Put

\* ResolveService by cases.
LEMMA Resolving ==
    ASSUME NEW s, ResolveService(s)
    PROVE  /\ pc = "resolve" /\ s \in DOMAIN project \ DOMAIN services
           /\ \/ /\ AsksGit(project[s]) /\ ShortSha(project[s].dir) # ""
                 /\ cache' = Put(cache, project[s].dir, ShortSha(project[s].dir))
              \/ /\ ~AsksGit(project[s]) \/ ShortSha(project[s].dir) = ""
                 /\ cache' = cache
           /\ \/ /\ resolve(project[s]).error = "none" /\ pc' = "resolve" /\ outcome' = outcome
                 /\ services' = Put(services, s, resolve(project[s]).service)
              \/ /\ resolve(project[s]).error # "none" /\ pc' = "done"
                 /\ outcome' = resolve(project[s]).error
                 /\ services' = NoServices
           /\ UNCHANGED <<world, dockerExt, project, pushed, content, pagingVars>>
  BY Zenon DEF ResolveService, End, Proceed

\* The variables of the types but for those that most steps leave alone.
LEMMA QuietTypes ==
    ASSUME TypeInv, ReadInv,
           UNCHANGED <<world, project, services, cache, pagingVars>>,
           pc' \in Steps, pc' \in {"load", "init"} => services = NoServices, outcome' = "none" <=> pc' # "done",
           pc' \in {"build", "render", "up", "lookup"} => DOMAIN services = DOMAIN project
    PROVE  TypeInv' /\ ReadInv'
<1>1. PipelineTypeOK'
  BY DEF TypeInv, PipelineTypeOK, world, pagingVars
<1> QED BY <1>1 DEF TypeInv, ReadInv, world, pagingVars

\* Every step keeps the types and what is known of what was read.
LEMMA NextTypes ==
    ASSUME TypeInv, ReadInv, [Next]_vars
    PROVE  TypeInv' /\ ReadInv'
<1> USE PipelineAssumption, MaxPagesAssumption
<1>1. CASE Edit
  <2>0. changes < MaxChanges /\ changes' = changes + 1 /\ changes \in 0..MaxChanges
    BY <1>1 DEF Edit, Changing, TypeInv, PipelineTypeOK
  <2>1. changes' \in 0..MaxChanges
    BY <2>0
  <2> QED BY <1>1, <2>1 DEF Edit, TypeInv, PipelineTypeOK, ReadInv, pagingVars
<1>2. ASSUME NEW d \in Dirs, Commit(d) PROVE TypeInv' /\ ReadInv'
  <2>0. changes < MaxChanges /\ changes' = changes + 1 /\ changes \in 0..MaxChanges
    BY <1>2 DEF Commit, Changing, TypeInv, PipelineTypeOK
  <2>1. changes' \in 0..MaxChanges
    BY <2>0
  <2>2. head' \in [Dirs -> Shas \union {""}]
    BY <1>2 DEF Commit, TypeInv, PipelineTypeOK
  <2> QED BY <1>2, <2>1, <2>2 DEF Commit, TypeInv, PipelineTypeOK, ReadInv, pagingVars
<1>3. CASE LoadCore
  <2>1. pc' \in {"init", "done"} /\ (outcome' = "none" <=> pc' # "done")
    BY <1>3 DEF LoadCore, End, Proceed, TypeInv, PipelineTypeOK
  <2>2. services = NoServices
    BY <1>3 DEF LoadCore, TypeInv
  <2> QED BY <1>3, <2>1, <2>2, QuietTypes DEF LoadCore, Steps
<1>4. CASE InitDeployer
  <2>1. \/ pc' = "done" /\ outcome' # "none" /\ UNCHANGED project
        \/ pc' = "resolve" /\ outcome' = "none" /\ project' = files.services
    BY <1>4 DEF InitDeployer, End, Proceed, TypeInv, PipelineTypeOK
  <2>2. CASE UNCHANGED project
    <3>1. pc' \in {"resolve", "done"} /\ (outcome' = "none" <=> pc' # "done")
      BY <2>1
    <3> QED BY <1>4, <2>2, <3>1, QuietTypes DEF InitDeployer, Steps
  <2>3. CASE pc' = "resolve" /\ outcome' = "none" /\ project' = files.services
    <3>1. ReadInv'
      BY <2>3 DEF ReadInv, TypeInv, PipelineTypeOK
    <3>2. DOMAIN services' \subseteq DOMAIN project'
      BY <1>4 DEF InitDeployer, TypeInv, NoServices
    <3> QED BY <1>4, <2>3, <3>1, <3>2
            DEF InitDeployer, TypeInv, PipelineTypeOK, Steps, world, pagingVars
  <2> QED BY <2>1, <2>2, <2>3
<1>5. ASSUME NEW s \in DOMAIN project, ResolveService(s) PROVE TypeInv' /\ ReadInv'
  <2>1. /\ pc = "resolve" /\ outcome = "none"
        /\ UNCHANGED <<files, head, changes, project, lookup, followed>>
    BY <1>5, Resolving DEF TypeInv, PipelineTypeOK, world, pagingVars
  <2>2. pc' \in {"resolve", "done"} /\ (outcome' = "none" <=> pc' # "done")
    BY <1>5, <2>1, Resolving
  <2>3. DOMAIN services' \subseteq DOMAIN project'
    <3>1. CASE services' = NoServices
      BY <3>1 DEF NoServices
    <3>2. CASE services' = Put(services, s, resolve(project[s]).service)
      <4>1. DOMAIN services' = DOMAIN services \union {s}
        BY <3>2, Puts, Zenon
      <4> QED BY <2>1, <4>1 DEF TypeInv, PipelineTypeOK
    <3> QED BY <1>5, <3>1, <3>2, Resolving
  <2>4. \A d \in DOMAIN cache' : d \in Dirs /\ cache'[d] \in Shas
    <3>1. ShortSha(project[s].dir) \in Shas \union {""}
      BY ReadServices DEF ShortSha, TypeInv, PipelineTypeOK
    <3>2. CASE cache' = cache
      BY <3>2 DEF TypeInv, PipelineTypeOK
    <3>3. CASE /\ cache' = Put(cache, project[s].dir, ShortSha(project[s].dir))
               /\ ShortSha(project[s].dir) # ""
      <4>1. \A d \in DOMAIN cache : d \in Dirs /\ cache[d] \in Shas
        BY DEF TypeInv, PipelineTypeOK
      <4>2. project[s].dir \in Dirs /\ ShortSha(project[s].dir) \in Shas
        BY <3>1, <3>3, ReadServices
      <4>3. /\ DOMAIN cache' = DOMAIN cache \union {project[s].dir}
            /\ cache'[project[s].dir] = ShortSha(project[s].dir)
            /\ \A k \in DOMAIN cache : k # project[s].dir => cache'[k] = cache[k]
        BY <3>3 DEF Put
      <4> QED BY <4>1, <4>2, <4>3
    <3> QED BY <1>5, <3>2, <3>3, Resolving
  <2> QED BY <2>1, <2>2, <2>3, <2>4 DEF TypeInv, PipelineTypeOK, ReadInv, Steps
<1>6. CASE Resolved
  <2>1. pc' = "build" /\ outcome' = "none" /\ DOMAIN services = DOMAIN project
    BY <1>6 DEF Resolved, Proceed, TypeInv, PipelineTypeOK
  <2> QED BY <1>6, <2>1, QuietTypes DEF Resolved, Steps
<1>7. CASE BuildAndPush
  <2>1. pc' = "render" /\ outcome' = "none" /\ DOMAIN services = DOMAIN project
    BY <1>7 DEF BuildAndPush, Proceed, TypeInv, PipelineTypeOK
  <2> QED BY <1>7, <2>1, QuietTypes DEF BuildAndPush, Steps
<1>8. CASE FailBuild
  <2>1. pc' = "done" /\ outcome' # "none"
    BY <1>8 DEF FailBuild, End
  <2> QED BY <1>8, <2>1, QuietTypes DEF FailBuild, Steps
<1>9. CASE Render
  <2>1. /\ pc' \in {"lookup", "up", "done"} /\ (outcome' = "none" <=> pc' # "done")
        /\ DOMAIN services = DOMAIN project
    BY <1>9 DEF Render, Proceed, End, TypeInv, PipelineTypeOK
  <2> QED BY <1>9, <2>1, QuietTypes DEF Render, Steps
<1>10. CASE Up
  <2>1. /\ pc' \in {"lookup", "done"} /\ (outcome' = "none" <=> pc' # "done")
        /\ DOMAIN services = DOMAIN project
    BY <1>10 DEF Up, Proceed, End, TypeInv, PipelineTypeOK
  <2> QED BY <1>10, <2>1, QuietTypes DEF Up, Steps
<1>11. CASE PublishedServiceUrls
  <2>1. /\ UNCHANGED <<files, head, changes, pc, project, services, cache, outcome>>
        /\ pc = "lookup"
    BY <1>11 DEF PublishedServiceUrls, world
  <2>2. /\ lookup' \in {"paging", "found", "failed"} /\ followed' \in 0..MaxPages
        /\ lookup' = "paging" => followed' < MaxPages
    <3>1. followed \in 0..MaxPages
      BY DEF TypeInv, PipelineTypeOK
    <3>2. CASE BeginLookup(env.apiKey)
      BY <3>1, <3>2 DEF BeginLookup, TypeInv
    <3>3. CASE CollectPage(PublishedNames)
      <4>1. lookup = "paging" /\ followed' = followed + 1 /\ followed < MaxPages
        BY <3>3 DEF CollectPage, TypeInv
      <4>2. lookup' = "found" \/ (lookup' = "paging" /\ followed + 1 < MaxPages)
        BY <3>1, <3>3, <4>1 DEF CollectPage, LastPage
      <4> QED BY <3>1, <4>1, <4>2
    <3>4. CASE FailPage(PublishedNames)
      BY <3>1, <3>4 DEF FailPage
    <3> QED BY <1>11, <3>2, <3>3, <3>4 DEF PublishedServiceUrls
  <2> QED BY <2>1, <2>2 DEF TypeInv, PipelineTypeOK, ReadInv, Steps
<1>12. CASE printPublishedUrls
  <2>1. pc' = "done" /\ outcome' = "ok"
    BY <1>12 DEF printPublishedUrls, End
  <2> QED BY <1>12, <2>1, QuietTypes DEF printPublishedUrls, Steps
<1>13. CASE UNCHANGED vars
  <2> QED BY <1>13, QuietTypes DEF vars, world, Steps, TypeInv, PipelineTypeOK, pagingVars
<1> QED BY <1>1, <1>2, <1>3, <1>4, <1>5, <1>6, <1>7, <1>8, <1>9, <1>10, <1>11, <1>12, <1>13
        DEF Next, Exited

\* The variables of the run keep their types, and the paging stops at its cap.
THEOREM PipelineTypeCorrect == Spec => []PipelineTypeOK
<1>1. Init => TypeInv /\ ReadInv
  BY InitTypes
<1>2. TypeInv /\ ReadInv /\ [Next]_vars => TypeInv' /\ ReadInv'
  BY NextTypes
<1>3. TypeInv => PipelineTypeOK
  BY DEF TypeInv
<1> QED BY <1>1, <1>2, <1>3, PTL DEF Spec
-----------------------------------------------------------------------------
(* What is resolved, as the project was read and the SHAs were cached.      *)

\* An image that resolves has a repository and a tag; +git stands for the SHA given.
LEMMA ImageResolves ==
    ASSUME NEW image \in [repository : STRING, tag : [name : STRING, sha : {"", "+git"}]],
           NEW ref, NEW sha, resolveServiceImage(image, ref, sha).error = "none"
    PROVE  LET resolved == resolveServiceImage(image, ref, sha)
           IN /\ resolved.repository # "" /\ resolved.tag # NoTag
              /\ ~ref.digest
              /\ image.tag.sha = "+git" => resolved.tag.sha = sha /\ sha # ""
              /\ image = NoImage => [repository |-> resolved.repository, tag |-> resolved.tag]
                                        = WithTag(ImageOf(ref))
<1> DEFINE parsed == parseImageRef(ref)
<1> DEFINE repository == First(image.repository, parsed.repository)
<1> DEFINE tag == IF image.tag # NoTag THEN image.tag ELSE parsed.tag
<1>1. /\ parsed.error = "none" /\ ~(tag.sha = "+git" /\ sha = "")
      /\ repository # "" /\ tag # NoTag
  <2> HIDE DEF parsed, repository, tag
  <2>1. resolveServiceImage(image, ref, sha).error
            = IF parsed.error # "none" THEN parsed.error
              ELSE IF tag.sha = "+git" /\ sha = "" THEN "git_short_sha"
              ELSE IF repository = "" THEN "image_repository_missing"
              ELSE IF tag = NoTag THEN "image_tag_missing"
              ELSE "none"
    BY DEF resolveServiceImage, parsed, repository, tag
  <2> QED BY <2>1
<1>2. /\ resolveServiceImage(image, ref, sha).repository = repository
      /\ resolveServiceImage(image, ref, sha).tag = expandGitTag(tag, sha)
  <2> HIDE DEF parsed, repository, tag
  <2> QED BY DEF resolveServiceImage, parsed, repository, tag
<1>3. ~ref.digest
  BY <1>1 DEF parseImageRef
<1>4. image.tag.sha = "+git" => tag = image.tag
  <2>1. NoTag.sha = "" /\ "+git" # ""
    BY DEF NoTag, Tag
  <2> QED BY <2>1, Zenon
<1>5. tag.sha = "+git" => tag = image.tag
  BY DEF parseImageRef, NoTag, Tag
<1>6. tag.sha = "+git" => expandGitTag(tag, sha).sha = sha
  <2> HIDE DEF tag
  <2> QED BY <1>5 DEF expandGitTag
<1>7. expandGitTag(tag, sha) # NoTag
  <2> HIDE DEF tag
  <2> QED BY <1>1, <1>6 DEF expandGitTag, NoTag, Tag
<1>8. ASSUME image = NoImage
      PROVE  [repository |-> repository, tag |-> expandGitTag(tag, sha)] = WithTag(ImageOf(ref))
  <2>1. repository = ref.repository /\ ref.repository # ""
    BY <1>1, <1>8 DEF NoImage, First, parseImageRef
  <2>2. tag = Tag(First(ref.tag, "latest"))
    BY <1>8, <2>1 DEF NoImage, NoTag, parseImageRef
  <2>3. expandGitTag(tag, sha) = tag
    <3> HIDE DEF tag
    <3> QED BY <2>2 DEF expandGitTag, Tag
  <2>4. tag = IF Tag(ref.tag) = NoTag THEN Tag("latest") ELSE Tag(ref.tag)
    <3> HIDE DEF tag
    <3>1. CASE ref.tag = ""
      BY <2>2, <3>1 DEF First, NoTag
    <3>2. CASE ref.tag # ""
      <4>1. Tag(ref.tag).name = ref.tag /\ NoTag.name = ""
        BY DEF Tag, NoTag
      <4> QED BY <2>2, <3>2, <4>1, Zenon DEF First
    <3> QED BY <3>1, <3>2
  <2>5. WithTag(ImageOf(ref))
            = [repository |-> ref.repository,
               tag |-> IF Tag(ref.tag) = NoTag THEN Tag("latest") ELSE Tag(ref.tag)]
    BY DEF WithTag, ImageOf
  <2> HIDE DEF repository, tag
  <2> QED BY <2>1, <2>3, <2>4, <2>5
<1> HIDE DEF repository, tag
<1> QED BY <1>1, <1>2, <1>3, <1>4, <1>6, <1>7, <1>8

\* A port that is in bounds is the same once it went through uint16.
LEMMA NarrowsNothing ==
    ASSUME NEW ports \in Seq(Nat), ~InvalidPorts(ports)
    PROVE  {Narrow(p) : p \in Range(ports)} = Range(ports)
<1>1. 2^16 = 65536
  OBVIOUS
<1>2. \A p \in Range(ports) : p \in Nat /\ \E i \in DOMAIN ports : p = ports[i]
  BY DEF Range
<1>3. \A i \in DOMAIN ports : ~(ports[i] > 65535)
  BY <1>1 DEF InvalidPorts, MaxUint16
<1>4. \A p \in Range(ports) : p \in Nat /\ p <= 65535
  BY <1>2, <1>3
<1>5. \A p \in Nat : p <= 65535 => p % 65536 = p
  OBVIOUS
<1>6. \A p \in Range(ports) : Narrow(p) = p
  BY <1>1, <1>4, <1>5 DEF Narrow
<1>7. {Narrow(p) : p \in Range(ports)} = Range(ports)
  <2> HIDE DEF Range
  <2> QED BY <1>6
<1> QED BY <1>7

\* A port that ngrok exposes is one the service lists, as it is written there.
LEMMA NgrokResolves ==
    ASSUME NEW ports \in Seq(Nat), ~InvalidPorts(ports), NEW enabled,
           NEW ngrok \in [port : Nat, trafficPolicy : STRING, url : STRING],
           resolveNgrok("", ngrok, {Narrow(p) : p \in Range(ports)}, enabled).error = "none"
    PROVE  LET resolved == resolveNgrok("", ngrok, {Narrow(p) : p \in Range(ports)}, enabled).ngrok
           IN resolved.port # 0 => resolved.port = ngrok.port /\ ngrok.port \in Range(ports)
<1>1. {Narrow(p) : p \in Range(ports)} = Range(ports)
  BY NarrowsNothing, Zenon
<1> DEFINE numbers == Range(ports)
<1>2. resolveNgrok("", ngrok, numbers, enabled).error = "none"
  BY <1>1
<1> HIDE DEF numbers
<1>3. LET resolved == resolveNgrok("", ngrok, numbers, enabled).ngrok
      IN resolved.port # 0 => resolved.port = ngrok.port /\ ngrok.port \in numbers
  BY <1>2 DEF resolveNgrok, NoNgrok
<1> QED BY <1>1, <1>3 DEF numbers

\* What a resolved service r has of svc, as the project was read.
Follows(r, svc) ==
    /\ r.skip = svc.skip
    /\ r.copies = {[hostPath |-> c.hostPath, containerPath |-> c.containerPath] :
                      c \in Range(svc.copies)}
    /\ r.ngrok.port # 0 => svc.ngrok.port \in Range(svc.ports)
    /\ r.image = [repository |-> r.image.repository, tag |-> r.image.tag]
    /\ ~svc.skip => /\ ~svc.ref.digest /\ r.image.repository # "" /\ r.image.tag # NoTag
                    /\ svc.image = NoImage => r.image = WithTag(ImageOf(svc.ref))

\* The SHA in its tag is the one the cache has for its directory.
TagInv ==
    \A s \in DOMAIN services :
        AsksGit(project[s]) => /\ project[s].dir \in DOMAIN cache
                               /\ services[s].image.tag.sha = cache[project[s].dir]

ResolvedInv == \A s \in DOMAIN services : Follows(services[s], project[s])

\* A service that is resolved without an error is what its declaration says.
LEMMA ServiceResolves ==
    ASSUME ReadInv, NEW s \in DOMAIN project, resolve(project[s]).error = "none"
    PROVE  LET svc == project[s]
               r == resolve(svc).service
           IN /\ Follows(r, svc)
              /\ AsksGit(svc) => /\ ShortSha(svc.dir) # ""
                                 /\ r.image.tag.sha = ShortSha(svc.dir)
<1> DEFINE svc == project[s]
<1> DEFINE sha == ShortSha(svc.dir)
<1> DEFINE image == IF svc.skip
                    THEN [error |-> "none", repository |-> svc.image.repository,
                          tag |-> svc.image.tag]
                    ELSE resolveServiceImage(svc.image, svc.ref, sha)
<1> DEFINE copy == resolveCopy(svc.copies)
<1> DEFINE ngrok == resolveNgrok("", svc.ngrok, {Narrow(p) : p \in Range(svc.ports)}, env.token)
<1> DEFINE r == resolve(svc).service
<1>1. /\ resolve(svc).error = IF image.error # "none" THEN image.error
                              ELSE IF copy.error # "none" THEN copy.error
                              ELSE IF InvalidPorts(svc.ports) THEN "invalid_port"
                              ELSE ngrok.error
      /\ r = [skip |-> svc.skip, copies |-> copy.copies, ngrok |-> ngrok.ngrok,
              image |-> [repository |-> image.repository, tag |-> image.tag]]
  <2> HIDE DEF svc
  <2>1. resolve(svc) =
            [error |-> IF image.error # "none" THEN image.error
                       ELSE IF copy.error # "none" THEN copy.error
                       ELSE IF InvalidPorts(svc.ports) THEN "invalid_port"
                       ELSE ngrok.error,
             service |-> [skip |-> svc.skip, copies |-> copy.copies, ngrok |-> ngrok.ngrok,
                          image |-> [repository |-> image.repository, tag |-> image.tag]]]
    BY DEF resolve
  <2> HIDE DEF image, copy, ngrok
  <2> QED BY <2>1
<1>2. image.error = "none" /\ ~InvalidPorts(svc.ports) /\ ngrok.error = "none"
  <2> HIDE DEF image, copy, ngrok, svc
  <2> QED BY <1>1 DEF svc
<1>3. /\ r.skip = svc.skip /\ r.copies = copy.copies /\ r.ngrok = ngrok.ngrok
      /\ r.image = [repository |-> image.repository, tag |-> image.tag]
  <2> HIDE DEF image, copy, ngrok, svc
  <2> QED BY <1>1
<1>4. /\ svc.ports \in Seq(Nat)
      /\ svc.image \in [repository : STRING, tag : [name : STRING, sha : {"", "+git"}]]
      /\ svc.ngrok \in [port : Nat, trafficPolicy : STRING, url : STRING]
  BY ReadServices
<1>5. r.ngrok.port # 0 => svc.ngrok.port \in Range(svc.ports)
  <2> HIDE DEF svc, r
  <2>1. ngrok.ngrok.port # 0 => svc.ngrok.port \in Range(svc.ports)
    BY <1>2, <1>4, NgrokResolves
  <2> HIDE DEF ngrok
  <2> QED BY <1>3, <2>1
<1>6. r.copies = {[hostPath |-> c.hostPath, containerPath |-> c.containerPath] :
                     c \in Range(svc.copies)}
  <2>1. copy.copies = {[hostPath |-> c.hostPath, containerPath |-> c.containerPath] :
                          c \in Range(svc.copies)}
    BY DEF resolveCopy
  <2> HIDE DEF copy, r, svc
  <2> QED BY <1>3, <2>1
<1>7. ~svc.skip => /\ ~svc.ref.digest /\ image.repository # "" /\ image.tag # NoTag
                   /\ svc.image.tag.sha = "+git" => image.tag.sha = sha /\ sha # ""
                   /\ svc.image = NoImage => [repository |-> image.repository, tag |-> image.tag]
                                                 = WithTag(ImageOf(svc.ref))
  <2> HIDE DEF svc, sha
  <2> SUFFICES ASSUME ~svc.skip
               PROVE  /\ ~svc.ref.digest /\ image.repository # "" /\ image.tag # NoTag
                      /\ svc.image.tag.sha = "+git" => image.tag.sha = sha /\ sha # ""
                      /\ svc.image = NoImage =>
                            [repository |-> image.repository, tag |-> image.tag]
                                = WithTag(ImageOf(svc.ref))
    OBVIOUS
  <2>1. image = resolveServiceImage(svc.image, svc.ref, sha)
    OBVIOUS
  <2>2. resolveServiceImage(svc.image, svc.ref, sha).error = "none"
    <3> HIDE DEF image
    <3> QED BY <1>2, <2>1
  <2>3. LET resolved == resolveServiceImage(svc.image, svc.ref, sha)
        IN /\ resolved.repository # "" /\ resolved.tag # NoTag
           /\ ~svc.ref.digest
           /\ svc.image.tag.sha = "+git" => resolved.tag.sha = sha /\ sha # ""
           /\ svc.image = NoImage =>
                 [repository |-> resolved.repository, tag |-> resolved.tag]
                     = WithTag(ImageOf(svc.ref))
    BY <1>4, <2>2, ImageResolves
  <2> HIDE DEF image
  <2> QED BY <2>1, <2>3, Zenon
<1>8. r.image.repository = image.repository /\ r.image.tag = image.tag
  <2> HIDE DEF image, r, svc, copy, ngrok, sha
  <2> QED BY <1>3
<1>9. Follows(r, svc)
  <2> HIDE DEF image, r, svc, copy, ngrok, sha
  <2> QED BY <1>3, <1>5, <1>6, <1>7, <1>8 DEF Follows
<1>10. AsksGit(svc) => sha # "" /\ r.image.tag.sha = sha
  <2> HIDE DEF image, r, svc, sha
  <2> QED BY <1>7, <1>8 DEF AsksGit
<1> QED BY <1>9, <1>10

\* What a step does to what is resolved: nothing, more of it, or the end of it.
LEMMA NextResolved ==
    ASSUME TypeInv, ReadInv, ResolvedInv, TagInv, [Next]_vars
    PROVE  ResolvedInv' /\ TagInv'
<1>1. ASSUME NEW s \in DOMAIN project, ResolveService(s) PROVE ResolvedInv' /\ TagInv'
  <2>1. CASE services' = NoServices
    BY <2>1 DEF ResolvedInv, TagInv, NoServices
  <2>2. CASE /\ resolve(project[s]).error = "none"
             /\ services' = Put(services, s, resolve(project[s]).service)
    <3> DEFINE r == resolve(project[s]).service
    <3>1. /\ Follows(r, project[s])
          /\ AsksGit(project[s]) => /\ ShortSha(project[s].dir) # ""
                                    /\ r.image.tag.sha = ShortSha(project[s].dir)
      BY <2>2, ServiceResolves
    <3> HIDE DEF r
    <3>2. /\ DOMAIN services' = DOMAIN services \union {s} /\ services'[s] = r
          /\ \A t \in DOMAIN services : t # s => services'[t] = services[t]
      BY <2>2 DEF Put, r
    <3>3. project' = project
      BY <1>1, Resolving
    <3>4. ResolvedInv'
      BY <3>1, <3>2, <3>3, Zenon DEF ResolvedInv
    <3>5. \A d \in DOMAIN cache : d \in DOMAIN cache' /\ cache'[d] = cache[d]
      <4>1. CASE cache' = cache
        BY <4>1
      <4>2. CASE cache' = Put(cache, project[s].dir, ShortSha(project[s].dir))
        BY <4>2 DEF Put, ShortSha
      <4> QED BY <1>1, <4>1, <4>2, Resolving
    <3>6. AsksGit(project[s]) => /\ project[s].dir \in DOMAIN cache'
                                 /\ cache'[project[s].dir] = ShortSha(project[s].dir)
      <4> SUFFICES ASSUME AsksGit(project[s])
                   PROVE  /\ project[s].dir \in DOMAIN cache'
                          /\ cache'[project[s].dir] = ShortSha(project[s].dir)
        OBVIOUS
      <4>1. cache' = Put(cache, project[s].dir, ShortSha(project[s].dir))
        BY <1>1, <3>1, Resolving
      <4> QED BY <4>1 DEF Put
    <3>7. ASSUME NEW t \in DOMAIN services', AsksGit(project[t])
          PROVE  /\ project[t].dir \in DOMAIN cache'
                 /\ services'[t].image.tag.sha = cache'[project[t].dir]
      <4>1. CASE t = s
        BY <3>1, <3>2, <3>6, <3>7, <4>1
      <4>2. CASE t # s
        BY <3>2, <3>5, <3>7, <4>2 DEF TagInv
      <4> QED BY <4>1, <4>2
    <3> QED BY <3>3, <3>4, <3>7, Zenon DEF TagInv, AsksGit
  <2> QED BY <1>1, <2>1, <2>2, Resolving
<1>2. CASE InitDeployer
  BY <1>2 DEF InitDeployer, TypeInv, ResolvedInv, TagInv, NoServices
<1>3. CASE UNCHANGED <<project, services, cache>>
  BY <1>3 DEF ResolvedInv, TagInv, Follows, AsksGit
<1> QED BY <1>1, <1>2, <1>3
        DEF Next, vars, Edit, Commit, LoadCore, Resolved, BuildAndPush, FailBuild, Render, Up,
            PublishedServiceUrls, printPublishedUrls, Exited
-----------------------------------------------------------------------------
(* What is sent: the files as they are, rewritten by what was resolved.     *)

BuiltIsPushed == ~env.dryRun => \A s \in Built : services[s].image \in pushed

Publishes == Published # {}

ContentInv ==
    /\ pc \in {"load", "init", "resolve", "build", "render"} => content = Nothing
    /\ pc = "render" => BuiltIsPushed
    /\ content # Nothing =>
          /\ DOMAIN services = DOMAIN project
          /\ BuiltIsPushed
          /\ content = modifyComposeContent(Reloaded, services, Publishes)
          /\ imageError(Arranged(Reloaded, services, Publishes), services) = "none"

\* Once it is rendered, neither the files nor what was resolved change any more.
LEMMA SettledContent ==
    ASSUME ContentInv, UNCHANGED <<files, env, project, services, pushed, content>>,
           pc' \in {"load", "init", "resolve", "build"} => content = Nothing,
           pc' = "render" => pc = "render"
    PROVE  ContentInv'
<1>1. Built' = Built /\ Published' = Published /\ Reloaded' = Reloaded
  BY DEF Built, Kept, Published, Reloaded, ImageOf
<1>2. BuiltIsPushed' = BuiltIsPushed
  BY <1>1 DEF BuiltIsPushed
<1> QED BY <1>1, <1>2 DEF ContentInv, Publishes

\* Every step keeps what is known of the content that was rendered.
LEMMA NextContent ==
    ASSUME TypeInv, ContentInv, [Next]_vars
    PROVE  ContentInv'
<1>1. CASE Edit
  BY <1>1 DEF Edit, Changing, ContentInv, BuiltIsPushed, Built, Kept
<1>2. ASSUME NEW d \in Dirs, Commit(d) PROVE ContentInv'
  BY <1>2, SettledContent DEF Commit, ContentInv
<1>3. CASE LoadCore
  BY <1>3 DEF LoadCore, End, Proceed, ContentInv
<1>4. CASE InitDeployer
  BY <1>4 DEF InitDeployer, End, Proceed, ContentInv
<1>5. ASSUME NEW s \in DOMAIN project, ResolveService(s) PROVE ContentInv'
  BY <1>5, Resolving DEF ContentInv
<1>6. CASE Resolved
  BY <1>6 DEF Resolved, Proceed, ContentInv
<1>7. CASE BuildAndPush
  <2>1. /\ pc' = "render" /\ content' = Nothing
        /\ UNCHANGED <<env, project, services>>
    BY <1>7 DEF BuildAndPush, Proceed, ContentInv, world
  <2>2. Built' = Built
    BY <2>1 DEF Built, Kept
  <2>3. ~env.dryRun => \A s \in Built : services[s].image \in pushed'
    BY <1>7 DEF BuildAndPush
  <2> QED BY <2>1, <2>2, <2>3 DEF ContentInv, BuiltIsPushed
<1>8. CASE FailBuild
  BY <1>8 DEF FailBuild, End, ContentInv
<1>9. CASE Render
  <2> DEFINE error == IF files.broken THEN "reload_project"
                      ELSE imageError(Arranged(Reloaded, services, Publishes), services)
  <2>1. /\ pc = "render" /\ content = Nothing /\ DOMAIN services = DOMAIN project
        /\ BuiltIsPushed
        /\ UNCHANGED <<files, env, project, services, pushed>>
    BY <1>9 DEF Render, ContentInv, TypeInv, PipelineTypeOK, world
  <2>2. pc' # "render" /\ pc' \notin {"load", "init", "resolve", "build"}
    BY <1>9 DEF Render, End, Proceed
  <2>3. \/ error # "none" /\ content' = content
        \/ error = "none" /\ content' = modifyComposeContent(Reloaded, services, Publishes)
    BY <1>9, Zenon DEF Render, Publishes
  <2>4. Built' = Built /\ Publishes' = Publishes /\ Reloaded' = Reloaded
    BY <2>1 DEF Built, Kept, Published, Publishes, Reloaded, ImageOf
  <2>5. BuiltIsPushed'
    BY <2>1, <2>4 DEF BuiltIsPushed
  <2>6. CASE error # "none" /\ content' = content
    BY <2>1, <2>2, <2>6 DEF ContentInv
  <2>7. CASE error = "none" /\ content' = modifyComposeContent(Reloaded, services, Publishes)
    <3>1. imageError(Arranged(Reloaded, services, Publishes), services) = "none"
      BY <2>7
    <3> QED BY <2>1, <2>2, <2>4, <2>5, <2>7, <3>1 DEF ContentInv
  <2> QED BY <2>3, <2>6, <2>7
<1>10. CASE Up
  BY <1>10, SettledContent DEF Up, End, Proceed, world
<1>11. CASE PublishedServiceUrls
  BY <1>11, SettledContent DEF PublishedServiceUrls, world
<1>12. CASE printPublishedUrls
  BY <1>12, SettledContent DEF printPublishedUrls, End, world
<1>13. CASE UNCHANGED vars
  BY <1>13, SettledContent DEF vars, ContentInv
<1> QED BY <1>1, <1>2, <1>3, <1>4, <1>5, <1>6, <1>7, <1>8, <1>9, <1>10, <1>11, <1>12, <1>13
        DEF Next, Exited

\* No service has the agent's name: the agent would take its place.
NoServiceIsAgent == \A e \in Editions : Agent \notin DOMAIN e.services

\* What is sent, service by service.
LEMMA SentServices ==
    ASSUME TypeInv, ContentInv, content # Nothing, NoServiceIsAgent
    PROVE  /\ IsRendered(content, Reloaded, services, Publishes)
           /\ Remote = DOMAIN Reloaded \ Skipped(services)
           /\ \A s \in DOMAIN Reloaded : Reloaded[s].dependsOn \subseteq DOMAIN Reloaded
<1> DEFINE p == Reloaded
<1> DEFINE kept == DOMAIN p \ Skipped(services)
<1>1. files \in Editions
  BY DEF TypeInv, PipelineTypeOK
<1>2. DOMAIN p = DOMAIN files.services
  BY DEF Reloaded
<1>3. Agent \notin DOMAIN p
  BY <1>1, <1>2 DEF NoServiceIsAgent
<1>4. IsProject(p)
  <2> SUFFICES ASSUME NEW s \in DOMAIN p
               PROVE  \E a, b, c, d, e, f : p[s] = Fields(a, b, c, d, e, f)
    BY DEF IsProject
  <2> DEFINE svc == files.services[s]
  <2>1. p[s] = Fields(ImageOf(svc.ref), svc.build, svc.ports, svc.volumes, svc.dependsOn,
                      svc.files)
    BY DEF Reloaded, Fields
  <2> HIDE DEF p, svc
  <2> QED BY <2>1, Zenon
<1>5. \A s \in DOMAIN p : p[s].dependsOn \subseteq DOMAIN p
  <2>1. \A s \in DOMAIN p : p[s].dependsOn = files.services[s].dependsOn
    BY DEF Reloaded
  <2> HIDE DEF p
  <2> QED BY <1>1, <1>2, <2>1, EditionsAssumption
<1>6. Publishes \in BOOLEAN
  BY DEF Publishes
<1>7. /\ content = modifyComposeContent(p, services, Publishes)
      /\ imageError(Arranged(p, services, Publishes), services) = "none"
  BY DEF ContentInv
<1> HIDE DEF p
<1>8. IsRendered(content, p, services, Publishes)
  BY <1>3, <1>4, <1>6, <1>7, Rendering
<1>9. DOMAIN content = kept \union (IF Publishes THEN {Agent} ELSE {})
  BY <1>8 DEF IsRendered
<1>10. Remote = kept
  BY <1>3, <1>9 DEF Remote
<1> QED BY <1>5, <1>8, <1>10 DEF p

\* What renders without an error can be brought up on the host as it is.
LEMMA RenderedIsSendable ==
    ASSUME TypeInv, ContentInv, NoServiceIsAgent
    PROVE  RenderedProject
<1> SUFFICES ASSUME content # Nothing PROVE RenderedProject
  BY DEF RenderedProject
<1> DEFINE kept == DOMAIN Reloaded \ Skipped(services)
<1>1. /\ Remote = kept
      /\ DOMAIN content = kept \union (IF Publishes THEN {Agent} ELSE {})
      /\ Publishes => content[Agent].image # NoImage /\ content[Agent].dependsOn = kept
  BY SentServices DEF IsRendered
<1>2. \A s \in kept : /\ content[s].build = "none" /\ content[s].ports = <<>>
                      /\ ~content[s].files /\ content[s].image # NoImage
                      /\ content[s].dependsOn \subseteq kept
  <2>1. \A s \in kept : /\ content[s].build = "none" /\ content[s].ports = <<>>
                        /\ ~content[s].files /\ content[s].image # NoImage
                        /\ content[s].dependsOn = Reloaded[s].dependsOn \ Skipped(services)
    BY SentServices DEF IsRendered
  <2> QED BY <2>1, SentServices
<1>3. \A s \in kept : content[s].volumes = {v \in Reloaded[s].volumes : v.type # "bind"}
                                               \union Mounts(s, services)
  BY SentServices DEF IsRendered
<1> HIDE DEF kept
<1>4. \A s \in DOMAIN content :
          content[s].dependsOn \subseteq DOMAIN content /\ content[s].image # NoImage
  BY <1>1, <1>2
<1>5. ASSUME NEW s \in kept, NEW v \in content[s].volumes, v.type = "bind"
      PROVE  s \in Kept /\ \E c \in services[s].copies :
                              v = Bind(copyRemotePath(s, c), c.containerPath)
  <2>1. v \in Mounts(s, services)
    BY <1>3, <1>5
  <2>2. s \in DOMAIN services /\ ~services[s].skip
    BY <2>1 DEF Mounts
  <2>3. \E c \in services[s].copies : v = Bind(copyRemotePath(s, c), c.containerPath)
    BY <2>1, <2>2 DEF Mounts
  <2>4. s \in Kept
    BY <2>2 DEF Kept, Skipped
  <2> QED BY <2>3, <2>4
<1>6. Agent \in DOMAIN content <=> Publishes
  <2>1. Agent \notin kept
    BY <1>1 DEF Remote
  <2> QED BY <1>1, <2>1
<1> QED BY <1>1, <1>2, <1>4, <1>5, <1>6 DEF RenderedProject, Publishes

\* Without an edit in between, what is sent is what was resolved.
LEMMA RenderedAsResolved ==
    ASSUME TypeInv, ReadInv, ResolvedInv, TagInv, ContentInv, NoServiceIsAgent
    PROVE  DeployedAsResolved
<1> SUFFICES ASSUME content # Nothing, files.services = project PROVE DeployedAsResolved
  BY DEF DeployedAsResolved
<1>1. DOMAIN services = DOMAIN project /\ BuiltIsPushed
  BY DEF ContentInv
<1>2. DOMAIN Reloaded = DOMAIN project
  BY DEF Reloaded
<1>3. Remote = Kept
  BY <1>1, <1>2, SentServices DEF Kept
<1>4. ASSUME NEW s \in Kept
      PROVE  s \in DOMAIN project /\ s \in DOMAIN services /\ ~project[s].skip
             /\ ~services[s].skip /\ Follows(services[s], project[s])
  BY <1>1 DEF Kept, Skipped, ResolvedInv, Follows
<1>5. ASSUME NEW s \in Kept
      PROVE  {v.target : v \in {w \in content[s].volumes : w.type = "bind"}}
                 = {c.containerPath : c \in Range(project[s].copies)}
  <2> DEFINE copies == services[s].copies
  <2>1. s \in DOMAIN Reloaded \ Skipped(services)
    BY <1>1, <1>2 DEF Kept
  <2>2. content[s].volumes = {v \in Reloaded[s].volumes : v.type # "bind"} \union Mounts(s, services)
    BY <2>1, SentServices DEF IsRendered
  <2>3. Mounts(s, services) = {Bind(copyRemotePath(s, c), c.containerPath) : c \in copies}
    BY <1>4 DEF Mounts
  <2>4. \A v \in Mounts(s, services) : v.type = "bind"
    BY <2>3 DEF Bind
  <2>5. {w \in content[s].volumes : w.type = "bind"} = Mounts(s, services)
    BY <2>2, <2>4
  <2>6. {v.target : v \in Mounts(s, services)} = {c.containerPath : c \in copies}
    <3>1. \A c \in copies : Bind(copyRemotePath(s, c), c.containerPath).target = c.containerPath
      BY DEF Bind
    <3> HIDE DEF copies
    <3>2. ASSUME NEW c \in copies PROVE \E v \in Mounts(s, services) : v.target = c.containerPath
      BY <2>3, <3>1
    <3>3. ASSUME NEW v \in Mounts(s, services) PROVE \E c \in copies : v.target = c.containerPath
      BY <2>3, <3>1
    <3> QED BY <3>2, <3>3
  <2>7. copies = {[hostPath |-> c.hostPath, containerPath |-> c.containerPath] :
                     c \in Range(project[s].copies)}
    BY <1>4 DEF Follows
  <2> HIDE DEF copies
  <2>8. {c.containerPath : c \in copies} = {c.containerPath : c \in Range(project[s].copies)}
    <3> DEFINE pair(c) == [hostPath |-> c.hostPath, containerPath |-> c.containerPath]
    <3> DEFINE declared == Range(project[s].copies)
    <3>1. copies = {pair(c) : c \in declared} /\ \A c \in declared : pair(c).containerPath = c.containerPath
      BY <2>7
    <3> HIDE DEF pair, declared
    <3>2. ASSUME NEW c \in declared PROVE \E d \in copies : d.containerPath = c.containerPath
      BY <3>1
    <3>3. ASSUME NEW d \in copies PROVE \E c \in declared : d.containerPath = c.containerPath
      BY <3>1
    <3>4. {c.containerPath : c \in copies} = {c.containerPath : c \in declared}
      BY <3>2, <3>3
    <3> QED BY <3>4 DEF declared
  <2> QED BY <2>5, <2>6, <2>8
<1>6. ASSUME NEW s \in Published PROVE project[s].ngrok.port \in Range(project[s].ports)
  BY DEF Published, ResolvedInv, Follows
<1>7. ASSUME NEW s \in Kept, project[s].build = "file", ~env.dryRun
      PROVE  \/ WithTag(content[s].image) \in pushed
             \/ /\ project[s].ref # NoRef /\ project[s].image # NoImage
                /\ content[s].image = ImageOf(project[s].ref)
  <2> DEFINE resolved == services[s].image
  <2>1. s \in DOMAIN Reloaded \ Skipped(services)
    BY <1>1, <1>2 DEF Kept
  <2>2. Reloaded[s].image = ImageOf(project[s].ref)
    BY <1>2, <1>4 DEF Reloaded
  <2>3. /\ resolved = [repository |-> resolved.repository, tag |-> resolved.tag]
        /\ resolved.tag # NoTag /\ s \in Built
    BY <1>4, <1>7 DEF Built, Follows
  <2>4. Reloaded[s].image = NoImage => content[s].image = resolved
    BY <2>1, <2>3, SentServices DEF IsRendered
  <2>5. CASE Reloaded[s].image = NoImage
    <3>1. WithTag(content[s].image) = resolved
      <4> HIDE DEF resolved
      <4> QED BY <2>3, <2>4, <2>5 DEF WithTag
    <3> QED BY <1>1, <1>7, <2>3, <3>1 DEF BuiltIsPushed
  <2>6. CASE Reloaded[s].image # NoImage
    <3>1. content[s].image = ImageOf(project[s].ref)
      BY <2>1, <2>2, <2>6, SentServices DEF IsRendered
    <3>2. ImageOf(NoRef) = NoImage
      BY DEF ImageOf, NoRef, NoImage, NoTag
    <3>3. project[s].ref # NoRef
      BY <2>2, <2>6, <3>2
    <3>4. CASE project[s].image = NoImage
      <4>1. WithTag(content[s].image) = resolved
        BY <1>4, <3>1, <3>4 DEF Follows
      <4> QED BY <1>1, <1>7, <2>3, <4>1 DEF BuiltIsPushed
    <3> QED BY <3>1, <3>3, <3>4
  <2> QED BY <2>5, <2>6
<1>8. ASSUME NEW s \in Kept, NEW t \in Kept, project[s].image.tag.sha = "+git",
             project[t].image.tag.sha = "+git", project[s].dir = project[t].dir
      PROVE  services[s].image.tag.sha = services[t].image.tag.sha
  <2>1. AsksGit(project[s]) /\ AsksGit(project[t])
    BY <1>4, <1>8 DEF AsksGit, Follows
  <2> QED BY <1>4, <1>8, <2>1 DEF TagInv
<1>9. \A s, t \in {r \in Kept : project[r].image.tag.sha = "+git"} :
          project[s].dir = project[t].dir =>
              services[s].image.tag.sha = services[t].image.tag.sha
  BY <1>8
<1> QED BY <1>3, <1>5, <1>6, <1>7, <1>9, Zenon DEF DeployedAsResolved
-----------------------------------------------------------------------------
PipelineInv == TypeInv /\ ReadInv /\ ResolvedInv /\ TagInv /\ ContentInv

\* The invariant holds in every behaviour.
LEMMA PipelineInvariant == Spec => []PipelineInv
<1>1. Init => PipelineInv
  <2> SUFFICES ASSUME Init PROVE PipelineInv
    OBVIOUS
  <2>1. ResolvedInv /\ TagInv
    BY DEF Init, NoServices, ResolvedInv, TagInv
  <2>2. ContentInv
    BY DEF Init, ContentInv
  <2> QED BY <2>1, <2>2, InitTypes DEF PipelineInv
<1>2. PipelineInv /\ [Next]_vars => PipelineInv'
  BY NextTypes, NextResolved, NextContent DEF PipelineInv
<1> QED BY <1>1, <1>2, PTL DEF Spec

\* Whatever is edited and committed while it runs, the project that is sent names nothing
\* that only the developer's machine has, and every service of it has an image.
THEOREM ProjectIsSendable ==
    ASSUME NoServiceIsAgent
    PROVE  Spec => []RenderedProject
<1>1. PipelineInv => RenderedProject
  BY RenderedIsSendable DEF PipelineInv
<1> QED BY <1>1, PipelineInvariant, PTL

\* With the files as they were, it has the services, copies and ports as they were
\* resolved, the images this run has pushed, or the compose file's where the extension names
\* one too, and one SHA for each directory.
THEOREM DeploysWhatItResolved ==
    ASSUME NoServiceIsAgent
    PROVE  Spec => []DeployedAsResolved
<1>1. PipelineInv => DeployedAsResolved
  BY RenderedAsResolved DEF PipelineInv
<1> QED BY <1>1, PipelineInvariant, PTL
-----------------------------------------------------------------------------
(* The lookup. a is an account, w the way through its pages.                *)

IsWay(a, w) ==
    /\ w \in [1..MaxPages -> DOMAIN a \union {NoPage}]
    /\ w[1] = FirstPage
    /\ \A i \in 2..MaxPages :
          w[i] = IF w[i - 1] = NoPage THEN NoPage ELSE a[w[i - 1]].next

\* There is a way through any account, of any length.
LEMMA WayExists ==
    ASSUME NEW a \in Accounts, NEW n \in Nat, n >= 1
    PROVE  \E w \in [1..n -> DOMAIN a \union {NoPage}] :
               w = [i \in 1..n |-> IF i = 1 THEN FirstPage
                                   ELSE IF w[i - 1] = NoPage THEN NoPage ELSE a[w[i - 1]].next]
<1> DEFINE Pages == DOMAIN a \union {NoPage}
<1> DEFINE Next_(p) == IF p = NoPage THEN NoPage ELSE a[p].next
<1> DEFINE Leads(k, w) == w = [i \in 1..k |-> IF i = 1 THEN FirstPage ELSE Next_(w[i - 1])]
<1> DEFINE S == {k \in Nat : \E w \in [1..k -> Pages] : Leads(k, w)}
<1>0. FirstPage \in Pages /\ \A p \in Pages : Next_(p) \in Pages
  BY AccountsAssumption
<1>1. 1 \in S
  <2> DEFINE w1 == [i \in 1..1 |-> FirstPage]
  <2>1. w1 \in [1..1 -> Pages]
    BY <1>0
  <2>2. Leads(1, w1)
    OBVIOUS
  <2> QED BY <2>1, <2>2
<1>2. ASSUME NEW k \in Nat, k >= 1, k \in S PROVE k + 1 \in S
  <2>1. PICK w \in [1..k -> Pages] : Leads(k, w)
    BY <1>2
  <2> DEFINE v == [i \in 1..(k + 1) |-> IF i = k + 1 THEN Next_(w[k]) ELSE w[i]]
  <2>2. v \in [1..(k + 1) -> Pages]
    <3>1. w[k] \in Pages
      BY <1>2
    <3>2. Next_(w[k]) \in Pages
      BY <1>0, <3>1
    <3> HIDE DEF Next_
    <3> QED BY <3>2
  <2>3. ASSUME NEW i \in 1..(k + 1)
        PROVE  v[i] = IF i = 1 THEN FirstPage ELSE Next_(v[i - 1])
    <3> HIDE DEF Next_
    <3>1. CASE i = k + 1
      <4>1. v[i] = Next_(w[k]) /\ v[i - 1] = w[k] /\ i # 1
        BY <1>2, <3>1
      <4> QED BY <4>1
    <3>2. CASE i # k + 1
      <4>1. i \in 1..k /\ v[i] = w[i]
        BY <3>2
      <4>2. w[i] = IF i = 1 THEN FirstPage ELSE Next_(w[i - 1])
        BY <2>1, <4>1
      <4>3. i # 1 => v[i - 1] = w[i - 1]
        BY <4>1
      <4> QED BY <4>1, <4>2, <4>3
    <3> QED BY <3>1, <3>2
  <2>4. Leads(k + 1, v)
    <3> HIDE DEF Next_
    <3>1. v = [i \in 1..(k + 1) |-> v[i]]
      OBVIOUS
    <3> HIDE DEF v
    <3> QED BY <2>3, <3>1
  <2> HIDE DEF v, Leads
  <2> QED BY <2>2, <2>4
<1>3. n \in S
  <2> HIDE DEF S
  <2> QED BY <1>1, <1>2, UpwardInduction
<1>4. \E w \in [1..n -> Pages] : Leads(n, w)
  BY <1>3
<1> QED BY <1>4

\* The way of the model is one.
LEMMA WayIsWay ==
    ASSUME account \in Accounts
    PROVE  IsWay(account, Way)
<1>1. PICK w \in [1..MaxPages -> DOMAIN account \union {NoPage}] :
          w = [i \in 1..MaxPages |->
                  IF i = 1 THEN FirstPage
                  ELSE IF w[i - 1] = NoPage THEN NoPage ELSE account[w[i - 1]].next]
  <2>1. MaxPages \in Nat /\ MaxPages >= 1
    BY MaxPagesAssumption
  <2> QED BY <2>1, WayExists
<1>2. Way = [i \in 1..MaxPages |->
                IF i = 1 THEN FirstPage
                ELSE IF Way[i - 1] = NoPage THEN NoPage ELSE account[Way[i - 1]].next]
  BY <1>1 DEF Way
<1>3. /\ Way[1] = FirstPage
      /\ \A i \in 2..MaxPages :
            Way[i] = IF Way[i - 1] = NoPage THEN NoPage ELSE account[Way[i - 1]].next
  BY <1>2, MaxPagesAssumption
<1>4. \A i \in 1..MaxPages : Way[i] \in DOMAIN account \union {NoPage}
  <2> DEFINE S == {k \in Nat : k \in 1..MaxPages => Way[k] \in DOMAIN account \union {NoPage}}
  <2>1. 1 \in S
    BY <1>3, AccountsAssumption
  <2>2. ASSUME NEW k \in Nat, k >= 1, k \in S PROVE k + 1 \in S
    <3> SUFFICES ASSUME k + 1 \in 1..MaxPages
                 PROVE  Way[k + 1] \in DOMAIN account \union {NoPage}
      OBVIOUS
    <3>1. k \in 1..MaxPages /\ k + 1 \in 2..MaxPages /\ (k + 1) - 1 = k
      BY <2>2, MaxPagesAssumption
    <3>2. Way[k] \in DOMAIN account \union {NoPage}
      BY <2>2, <3>1
    <3>3. Way[k + 1] = IF Way[k] = NoPage THEN NoPage ELSE account[Way[k]].next
      BY <1>3, <3>1
    <3> QED BY <3>2, <3>3, AccountsAssumption
  <2>3. \A k \in Nat : k >= 1 => k \in S
    <3> HIDE DEF S
    <3> QED BY <2>1, <2>2, UpwardInduction
  <2> QED BY <2>3
<1> QED BY <1>2, <1>3, <1>4 DEF IsWay

\* Where a name is on the first m pages of the way.
Upto(a, w, m, name) ==
    {o \in (1..m) \X Nat :
        /\ w[o[1]] # NoPage /\ o[2] \in DOMAIN a[w[o[1]]].endpoints
        /\ a[w[o[1]]].endpoints[o[2]].name = name}

Url(a, w, o) == a[w[o[1]]].endpoints[o[2]].url

Latest(o, os) == o \in os /\ \A p \in os \ {o} : Precedes(p, o)

\* u is what the first m pages have of the names.
IsTable(a, w, names, m, u) ==
    /\ DOMAIN u = {n \in names : Upto(a, w, m, n) # {}}
    /\ \A n \in DOMAIN u : \E o : Latest(o, Upto(a, w, m, n)) /\ u[n] = Url(a, w, o)

\* The positions of a page are numbers.
LEMMA Positions ==
    ASSUME NEW a \in Accounts, NEW page \in DOMAIN a
    PROVE  /\ Len(a[page].endpoints) \in Nat
           /\ DOMAIN a[page].endpoints = 1..Len(a[page].endpoints)
  BY AccountsAssumption

\* One page more is one table more.
LEMMA Collects ==
    ASSUME account \in Accounts, NEW w, IsWay(account, w), NEW names,
           NEW f \in Nat, f + 1 <= MaxPages, w[f + 1] # NoPage,
           IsTable(account, w, names, f, urls)
    PROVE  IsTable(account, w, names, f + 1, collectEndpoints(w[f + 1], names))
<1> DEFINE page == w[f + 1]
<1> DEFINE es == account[page].endpoints
<1> DEFINE at(n) == {i \in DOMAIN es : es[i].name = n}
<1> DEFINE old(n) == Upto(account, w, f, n)
<1> DEFINE new(n) == Upto(account, w, f + 1, n)
<1> DEFINE here == {n \in names : at(n) # {}}
<1> DEFINE table == collectEndpoints(page, names)
<1>1. page \in DOMAIN account /\ f + 1 \in 1..MaxPages
  BY MaxPagesAssumption DEF IsWay
<1>2. Len(es) \in Nat /\ DOMAIN es = 1..Len(es)
  BY <1>1, Positions
<1>3. ASSUME NEW n PROVE new(n) = old(n) \union {<<f + 1, i>> : i \in at(n)}
  <2>1. ASSUME NEW o \in new(n) PROVE o \in old(n) \union {<<f + 1, i>> : i \in at(n)}
    BY DEF Upto
  <2>2. ASSUME NEW o \in old(n) PROVE o \in new(n)
    BY DEF Upto
  <2>3. ASSUME NEW i \in at(n) PROVE <<f + 1, i>> \in new(n)
    BY <1>2 DEF Upto
  <2> HIDE DEF new, old, at
  <2> QED BY <2>1, <2>2, <2>3
<1> DEFINE found == Matching(page, names)
<1> DEFINE isLast(i, n) == es[i].name = n /\ \A j \in found : es[j].name = n => j <= i
<1>4. /\ DOMAIN table = DOMAIN urls \union here
      /\ \A n \in DOMAIN urls : n \notin here => table[n] = urls[n]
      /\ \A n \in here : table[n] = es[CHOOSE i \in found : isLast(i, n)].url
  <2>1. here = {es[i].name : i \in found}
    <3>1. ASSUME NEW n \in here PROVE n \in {es[i].name : i \in found}
      BY DEF Matching
    <3>2. ASSUME NEW i \in found PROVE es[i].name \in here
      BY DEF Matching
    <3> HIDE DEF here, found
    <3> QED BY <3>1, <3>2
  <2> DEFINE these == {es[i].name : i \in found}
  <2>2. table = [n \in DOMAIN urls \union these |->
                    IF n \in these THEN es[CHOOSE i \in found : isLast(i, n)].url ELSE urls[n]]
    BY DEF collectEndpoints
  <2>3. here = these
    BY <2>1
  <2> HIDE DEF table, here, these, isLast, found
  <2> QED BY <2>2, <2>3
<1>5. ASSUME NEW n \in here
      PROVE  \E i \in at(n) : table[n] = es[i].url /\ \A j \in at(n) : j <= i
  <2>1. n \in names
    OBVIOUS
  <2>2. \A i : i \in at(n) <=> i \in found /\ es[i].name = n
    BY <2>1 DEF Matching
  <2>3. \E i \in at(n) : \A j \in at(n) : j <= i
    <3>1. at(n) \in SUBSET (1..Len(es)) /\ at(n) # {}
      BY <1>2
    <3> HIDE DEF at
    <3> QED BY <1>2, <3>1, GreatestBelow
  <2> DEFINE last == CHOOSE i \in found : isLast(i, n)
  <2>4. last \in found /\ isLast(last, n)
    <3>1. \E i \in found : isLast(i, n)
      <4> HIDE DEF at, found
      <4> QED BY <2>2, <2>3
    <3> HIDE DEF isLast, found
    <3> QED BY <3>1
  <2>5. last \in at(n) /\ \A j \in at(n) : j <= last
    <3> HIDE DEF at, found, last
    <3> QED BY <2>2, <2>4
  <2>6. table[n] = es[last].url
    <3> HIDE DEF table, here, isLast, found
    <3> QED BY <1>4
  <2> HIDE DEF last, at, table
  <2> QED BY <2>5, <2>6
<1>6. ASSUME NEW n, n \notin here, n \in names PROVE new(n) = old(n)
  <2>1. at(n) = {}
    BY <1>6
  <2> HIDE DEF at, new, old
  <2> QED BY <1>3, <2>1
<1>7. DOMAIN table = {n \in names : new(n) # {}}
  <2>1. ASSUME NEW n \in names PROVE n \in DOMAIN table <=> new(n) # {}
    <3>1. n \in DOMAIN urls <=> old(n) # {}
      BY DEF IsTable
    <3>2. new(n) # {} <=> old(n) # {} \/ at(n) # {}
      <4> HIDE DEF new, old, at
      <4> QED BY <1>3
    <3>3. n \in here <=> at(n) # {}
      OBVIOUS
    <3> HIDE DEF table, new, old, here, at
    <3> QED BY <1>4, <3>1, <3>2, <3>3
  <2>2. DOMAIN table \subseteq names
    <3>1. DOMAIN urls \subseteq names
      BY DEF IsTable
    <3> HIDE DEF table
    <3> QED BY <1>4, <3>1
  <2> HIDE DEF table, new
  <2> QED BY <2>1, <2>2
<1>8. ASSUME NEW n \in DOMAIN table
      PROVE  \E o : Latest(o, new(n)) /\ table[n] = Url(account, w, o)
  <2>1. CASE n \in here
    <3>1. PICK i \in at(n) : table[n] = es[i].url /\ \A j \in at(n) : j <= i
      BY <1>5, <2>1
    <3> DEFINE o == <<f + 1, i>>
    <3>2. o \in new(n) /\ table[n] = Url(account, w, o)
      <4>1. table[n] = Url(account, w, o)
        <5> HIDE DEF table, at
        <5> QED BY <3>1 DEF Url
      <4> HIDE DEF new, old, at, table
      <4> QED BY <1>3, <3>1, <4>1
    <3>3. ASSUME NEW q \in new(n), q # o PROVE Precedes(q, o)
      <4>1. CASE q \in old(n)
        <5>1. q[1] \in 1..f
          BY <4>1 DEF Upto
        <5>2. q[1] < o[1]
          BY <5>1
        <5> QED BY <5>2 DEF Precedes
      <4>2. CASE q \notin old(n)
        <5>1. PICK j \in at(n) : q = <<f + 1, j>>
          <6> HIDE DEF new, old, at, o
          <6> QED BY <1>3, <3>3, <4>2
        <5>2. j \in Nat /\ i \in Nat
          BY <1>2
        <5>3. j < i
          <6>1. j <= i /\ j # i
            <7> HIDE DEF at
            <7> QED BY <3>1, <3>3, <5>1
          <6> QED BY <5>2, <6>1
        <5> QED BY <5>1, <5>3 DEF Precedes
      <4> QED BY <4>1, <4>2
    <3> HIDE DEF o, new, table
    <3> QED BY <3>2, <3>3 DEF Latest
  <2>2. CASE n \notin here
    <3>1. n \in DOMAIN urls /\ table[n] = urls[n]
      <4> HIDE DEF table, here
      <4> QED BY <1>4, <2>2
    <3>2. n \in names
      BY <3>1 DEF IsTable
    <3>3. new(n) = old(n)
      BY <1>6, <2>2, <3>2
    <3> HIDE DEF table, new
    <3> QED BY <3>1, <3>3 DEF IsTable
  <2> QED BY <2>1, <2>2
<1>9. IsTable(account, w, names, f + 1, table)
  <2> HIDE DEF table, here, at, old, found, isLast
  <2> QED BY <1>7, <1>8 DEF IsTable
<1> QED BY <1>9

\* Once a page leads nowhere, or to itself, further pages change nothing.
LEMMA Repeats ==
    ASSUME NEW a \in Accounts, NEW w, IsWay(a, w), NEW names, NEW u, NEW k \in 1..MaxPages,
           w[k] # NoPage, a[w[k]].next \in {NoPage, w[k]}, IsTable(a, w, names, k, u)
    PROVE  IsTable(a, w, names, MaxPages, u)
<1> DEFINE next == a[w[k]].next
<1> DEFINE some(n) == Upto(a, w, k, n)
<1> DEFINE all(n) == Upto(a, w, MaxPages, n)
<1> USE MaxPagesAssumption
<1>1. w[k] \in DOMAIN a /\ NoPage \notin DOMAIN a
  BY AccountsAssumption DEF IsWay
<1>2. \A i \in (k + 1)..MaxPages : w[i] = next
  <2> DEFINE S == {i \in Nat : i \in (k + 1)..MaxPages => w[i] = next}
  <2>1. k + 1 \in Nat /\ k + 1 \in S
    BY DEF IsWay
  <2>2. ASSUME NEW i \in Nat, i >= k + 1, i \in S PROVE i + 1 \in S
    <3> SUFFICES ASSUME i + 1 \in (k + 1)..MaxPages PROVE w[i + 1] = next
      OBVIOUS
    <3>1. i \in (k + 1)..MaxPages /\ i + 1 \in 2..MaxPages /\ (i + 1) - 1 = i
      BY <2>2
    <3>2. w[i] = next
      BY <2>2, <3>1
    <3>3. w[i + 1] = IF w[i] = NoPage THEN NoPage ELSE a[w[i]].next
      BY <3>1 DEF IsWay
    <3> QED BY <3>2, <3>3
  <2>3. \A i \in Nat : i >= k + 1 => i \in S
    <3> HIDE DEF S
    <3> QED BY <2>1, <2>2, UpwardInduction
  <2> QED BY <2>3
<1>3. \A n : some(n) \subseteq all(n)
  BY DEF Upto
<1>4. ASSUME NEW n, NEW o \in all(n), o \notin some(n)
      PROVE  next = w[k] /\ w[o[1]] = w[k] /\ <<k, o[2]>> \in some(n)
  <2>1. o[1] \in (k + 1)..MaxPages /\ w[o[1]] # NoPage
    BY <1>4 DEF Upto
  <2>2. w[o[1]] = next /\ next = w[k]
    BY <1>2, <2>1
  <2> QED BY <1>4, <2>2 DEF Upto
<1>5. ASSUME NEW n PROVE some(n) # {} <=> all(n) # {}
  <2>1. ASSUME NEW o \in all(n) PROVE some(n) # {}
    BY <1>4
  <2> HIDE DEF some, all
  <2> QED BY <1>3, <2>1
<1>6. DOMAIN u = {n \in names : all(n) # {}}
  <2>1. DOMAIN u = {n \in names : some(n) # {}}
    BY DEF IsTable
  <2> HIDE DEF some, all
  <2> QED BY <1>5, <2>1
<1>7. ASSUME NEW n \in DOMAIN u PROVE \E o : Latest(o, all(n)) /\ u[n] = Url(a, w, o)
  <2>1. PICK o : Latest(o, some(n)) /\ u[n] = Url(a, w, o)
    BY DEF IsTable
  <2>2. o \in some(n) /\ o[1] \in 1..k /\ o[2] \in Nat /\ o = <<o[1], o[2]>>
    BY <2>1 DEF Latest, Upto
  <2>3. CASE all(n) \subseteq some(n)
    <3>1. all(n) = some(n)
      <4> HIDE DEF all, some
      <4> QED BY <1>3, <2>3
    <3> HIDE DEF all, some
    <3> QED BY <2>1, <3>1
  <2>4. CASE ~(all(n) \subseteq some(n))
    <3>1. PICK p \in all(n) : p \notin some(n)
      BY <2>4
    <3>2. next = w[k] /\ <<k, p[2]>> \in some(n)
      BY <1>4, <3>1
    <3>3. o[1] = k
      <4> SUFFICES ASSUME o[1] < k PROVE FALSE
        BY <2>2
      <4>1. <<k, p[2]>> # o
        BY <2>2
      <4>2. Precedes(<<k, p[2]>>, o)
        BY <2>1, <3>2, <4>1 DEF Latest
      <4> QED BY <2>2, <4>2 DEF Precedes
    <3>4. w[MaxPages] = w[k]
      BY <1>2, <3>2
    <3> DEFINE q == <<MaxPages, o[2]>>
    <3>5. q \in all(n) /\ Url(a, w, q) = Url(a, w, o)
      BY <2>2, <3>3, <3>4 DEF Upto, Url
    <3>6. ASSUME NEW r \in all(n), r # q PROVE Precedes(r, q)
      <4>1. r[1] \in 1..MaxPages /\ r[2] \in Nat /\ r = <<r[1], r[2]>>
        BY DEF Upto
      <4>2. CASE r[1] = MaxPages
        <5>1. <<k, r[2]>> \in some(n)
          <6>1. CASE r \in some(n)
            <7>1. r[1] \in 1..k
              BY <6>1 DEF Upto
            <7>2. r[1] = k
              BY <4>2, <7>1
            <7> QED BY <4>1, <6>1, <7>2
          <6>2. CASE r \notin some(n)
            BY <1>4, <6>2
          <6> QED BY <6>1, <6>2
        <5>2. r[2] # o[2]
          BY <3>6, <4>1, <4>2
        <5>3. Precedes(<<k, r[2]>>, o)
          <6>1. <<k, r[2]>> # o
            BY <2>2, <5>2
          <6> QED BY <2>1, <5>1, <6>1 DEF Latest
        <5>4. r[2] < o[2]
          BY <2>2, <3>3, <5>3 DEF Precedes
        <5> QED BY <4>2, <5>4 DEF Precedes
      <4>3. CASE r[1] # MaxPages
        BY <4>1, <4>3 DEF Precedes
      <4> QED BY <4>2, <4>3
    <3> HIDE DEF q, all
    <3> QED BY <2>1, <3>5, <3>6 DEF Latest
  <2> QED BY <2>3, <2>4
<1> HIDE DEF all
<1>8. DOMAIN u = {n \in names : Upto(a, w, MaxPages, n) # {}}
  BY <1>6 DEF all
<1>9. \A n \in DOMAIN u :
          \E o : Latest(o, Upto(a, w, MaxPages, n)) /\ u[n] = Url(a, w, o)
  BY <1>7 DEF all
<1> QED BY <1>8, <1>9 DEF IsTable

\* While the pages are followed the next one is on the way, and what was collected is the
\* table of the pages so far; nothing resolved changes any more, nor does the run fail.
LookupInv ==
    /\ account \in Accounts
    /\ lookup = "none" => nextPage = FirstPage /\ urls = NoUrls
    /\ lookup = "paging" =>
          /\ nextPage = Way[followed + 1] /\ nextPage \in DOMAIN account
          /\ IsTable(account, Way, PublishedNames, followed, urls)
    /\ lookup = "found" => IsTable(account, Way, PublishedNames, MaxPages, urls)
    /\ lookup # "none" => pc \in {"lookup", "done"} /\ (pc = "done" => outcome = "ok")

\* Before the first page the table is empty.
LEMMA StartsEmpty ==
    ASSUME NEW a, NEW w, NEW names
    PROVE  IsTable(a, w, names, 0, NoUrls)
<1>1. \A n : Upto(a, w, 0, n) = {}
  BY DEF Upto
<1> QED BY <1>1 DEF IsTable, NoUrls

\* A step that leaves the lookup and what it is for alone.
LEMMA QuietLookup ==
    ASSUME LookupInv, UNCHANGED pagingVars,
           lookup # "none" => /\ pc' \in {"lookup", "done"} /\ (pc' = "done" => outcome' = "ok")
                              /\ UNCHANGED <<dockerExt, services>>
    PROVE  LookupInv'
<1>1. Way' = Way
  BY DEF Way, pagingVars
<1>2. lookup # "none" => PublishedNames' = PublishedNames
  BY DEF PublishedNames, Published
<1> QED BY <1>1, <1>2 DEF LookupInv, pagingVars

\* A page that is not the last leads to the next one, the last one completes the table.
LEMMA CollectsPage ==
    ASSUME TypeInv, LookupInv, CollectPage(PublishedNames), pc = "lookup",
           UNCHANGED <<pc, dockerExt, services, outcome>>
    PROVE  LookupInv'
<1> USE MaxPagesAssumption
<1> DEFINE next == followed + 1
<1>1. /\ lookup = "paging" /\ followed \in Nat /\ next \in 1..MaxPages
      /\ nextPage = Way[next] /\ nextPage \in DOMAIN account /\ account \in Accounts
      /\ IsTable(account, Way, PublishedNames, followed, urls)
  <2>1. lookup = "paging"
    BY DEF CollectPage
  <2>2. followed \in 0..MaxPages /\ followed < MaxPages
    BY <2>1 DEF TypeInv, PipelineTypeOK
  <2>3. followed \in Nat /\ next \in 1..MaxPages
    BY <2>2
  <2> QED BY <2>1, <2>3 DEF LookupInv
<1>2. IsWay(account, Way) /\ nextPage # NoPage
  BY <1>1, WayIsWay, AccountsAssumption
<1>3. /\ account' = account /\ urls' = collectEndpoints(nextPage, PublishedNames)
      /\ followed' = next
      /\ IF LastPage(nextPage) THEN lookup' = "found" /\ nextPage' = nextPage
         ELSE lookup' = lookup /\ nextPage' = account[nextPage].next
  BY DEF CollectPage
<1>4. IsTable(account, Way, PublishedNames, next, urls')
  BY <1>1, <1>2, <1>3, Collects
<1>5. Way' = Way /\ PublishedNames' = PublishedNames
  <2>1. Way' = Way
    BY <1>3 DEF Way
  <2> QED BY <2>1 DEF PublishedNames, Published
<1>6. CASE LastPage(nextPage)
  <2>1. IsTable(account, Way, PublishedNames, MaxPages, urls')
    <3>1. CASE next = MaxPages
      BY <1>4, <3>1
    <3>2. CASE next # MaxPages
      <4>1. account[Way[next]].next \in {NoPage, Way[next]}
        BY <1>1, <1>6, <3>2 DEF LastPage
      <4> QED BY <1>1, <1>2, <1>4, <4>1, Repeats
    <3> QED BY <3>1, <3>2
  <2> QED BY <1>1, <1>3, <1>5, <1>6, <2>1 DEF LookupInv
<1>7. CASE ~LastPage(nextPage)
  <2>1. next + 1 \in 2..MaxPages /\ account[nextPage].next # NoPage
    BY <1>1, <1>7 DEF LastPage
  <2>2. Way[next + 1] = account[Way[next]].next
    BY <1>1, <1>2, <2>1 DEF IsWay
  <2>3. account[nextPage].next \in DOMAIN account
    BY <1>1, <2>1, AccountsAssumption
  <2> QED BY <1>1, <1>3, <1>4, <1>5, <1>7, <2>2, <2>3 DEF LookupInv
<1> QED BY <1>6, <1>7

\* Every step keeps what the lookup has found so far.
LEMMA NextLookup ==
    ASSUME TypeInv, LookupInv, [Next]_vars
    PROVE  LookupInv'
<1>1. CASE PublishedServiceUrls
  <2>1. pc = "lookup" /\ UNCHANGED <<pc, dockerExt, project, services, cache, outcome>>
    BY <1>1 DEF PublishedServiceUrls
  <2>2. Way' = Way /\ PublishedNames' = PublishedNames
    <3>1. account' = account
      BY <1>1 DEF PublishedServiceUrls, BeginLookup, CollectPage, FailPage
    <3>2. Way' = Way
      BY <3>1 DEF Way
    <3> QED BY <2>1, <3>2 DEF PublishedNames, Published
  <2>3. outcome = "none"
    BY <2>1 DEF TypeInv, PipelineTypeOK
  <2>4. CASE BeginLookup(env.apiKey)
    <3>1. /\ lookup = "none" /\ lookup' \in {"paging", "failed"} /\ followed = 0
          /\ UNCHANGED <<account, nextPage, followed, urls>>
      BY <2>4 DEF BeginLookup, TypeInv
    <3>2. nextPage = FirstPage /\ urls = NoUrls /\ account \in Accounts
      BY <3>1 DEF LookupInv
    <3>3. Way[1] = FirstPage /\ FirstPage \in DOMAIN account
      BY <3>2, WayIsWay, AccountsAssumption DEF IsWay
    <3>4. IsTable(account, Way, PublishedNames, 0, urls)
      BY <3>2, StartsEmpty
    <3> QED BY <2>1, <2>2, <3>1, <3>2, <3>3, <3>4 DEF LookupInv
  <2>5. CASE CollectPage(PublishedNames)
    BY <2>1, <2>5, CollectsPage
  <2>6. CASE FailPage(PublishedNames)
    BY <2>1, <2>6 DEF FailPage, LookupInv
  <2> QED BY <1>1, <2>4, <2>5, <2>6 DEF PublishedServiceUrls
<1>2. CASE printPublishedUrls
  BY <1>2, QuietLookup DEF printPublishedUrls, End
<1>3. CASE Exited \/ UNCHANGED vars
  BY <1>3, QuietLookup DEF Exited, vars, LookupInv, pagingVars
<1>4. CASE Edit \/ \E d \in Dirs : Commit(d)
  <2>1. lookup = "none"
    BY <1>4 DEF Edit, Commit, Changing, LookupInv
  <2> QED BY <1>4, <2>1, QuietLookup DEF Edit, Commit
<1>5. CASE \/ LoadCore \/ InitDeployer \/ Resolved \/ BuildAndPush \/ FailBuild \/ Render \/ Up
  <2>1. lookup = "none"
    BY <1>5 DEF LoadCore, InitDeployer, Resolved, BuildAndPush, FailBuild, Render, Up, LookupInv
  <2>2. UNCHANGED pagingVars
    BY <1>5 DEF LoadCore, InitDeployer, Resolved, BuildAndPush, FailBuild, Render, Up
  <2> QED BY <2>1, <2>2, QuietLookup
<1>6. ASSUME NEW s \in DOMAIN project, ResolveService(s) PROVE LookupInv'
  <2>1. pc = "resolve" /\ UNCHANGED pagingVars
    BY <1>6, Resolving
  <2>2. lookup = "none"
    BY <2>1 DEF LookupInv
  <2> QED BY <2>1, <2>2, QuietLookup
<1> QED BY <1>1, <1>2, <1>3, <1>4, <1>5, <1>6 DEF Next

\* The invariant has the property: of the places of a name one is the last.
LEMMA TableIsComplete ==
    ASSUME LookupInv
    PROVE  TableComplete
<1>1. ASSUME NEW n PROVE Occurrences(n) = Upto(account, Way, MaxPages, n)
  <2>0. IsWay(account, Way)
    BY WayIsWay DEF LookupInv
  <2>1. ASSUME NEW i \in Followed, NEW j \in DOMAIN account[Way[i]].endpoints,
               account[Way[i]].endpoints[j].name = n
        PROVE  <<i, j>> \in Upto(account, Way, MaxPages, n)
    <3>1. i \in 1..MaxPages /\ Way[i] # NoPage /\ Way[i] \in DOMAIN account
      BY <2>0 DEF Followed, IsWay
    <3>2. j \in Nat
      BY <3>1, Positions DEF LookupInv
    <3> QED BY <2>1, <3>1, <3>2 DEF Upto
  <2>2. ASSUME NEW o \in Upto(account, Way, MaxPages, n) PROVE o \in Occurrences(n)
    <3>1. o[1] \in Followed /\ o = <<o[1], o[2]>>
      BY DEF Upto, Followed
    <3> QED BY <3>1 DEF Upto, Occurrences
  <2>3. ASSUME NEW o \in Occurrences(n) PROVE o \in Upto(account, Way, MaxPages, n)
    BY <2>1 DEF Occurrences
  <2> QED BY <2>2, <2>3
<1>2. ASSUME lookup = "found"
      PROVE  /\ DOMAIN urls = {n \in PublishedNames : Occurrences(n) # {}}
             /\ \A n \in DOMAIN urls :
                   LET last == CHOOSE o \in Occurrences(n) :
                                  \A p \in Occurrences(n) \ {o} : Precedes(p, o)
                   IN urls[n] = account[Way[last[1]]].endpoints[last[2]].url
  <2>1. IsTable(account, Way, PublishedNames, MaxPages, urls)
    BY <1>2 DEF LookupInv
  <2>2. DOMAIN urls = {n \in PublishedNames : Occurrences(n) # {}}
    BY <1>1, <2>1 DEF IsTable
  <2>3. ASSUME NEW n \in DOMAIN urls
        PROVE  urls[n] = Url(account, Way,
                             CHOOSE o \in Occurrences(n) :
                                 \A p \in Occurrences(n) \ {o} : Precedes(p, o))
    <3> DEFINE os == Occurrences(n)
    <3> DEFINE last == CHOOSE o \in os : \A p \in os \ {o} : Precedes(p, o)
    <3>1. PICK o : Latest(o, os) /\ urls[n] = Url(account, Way, o)
      BY <1>1, <2>1 DEF IsTable
    <3>2. Latest(last, os)
      <4> HIDE DEF os
      <4>1. o \in os /\ \A p \in os \ {o} : Precedes(p, o)
        BY <3>1 DEF Latest
      <4>2. last \in os /\ \A p \in os \ {last} : Precedes(p, last)
        BY <4>1
      <4> HIDE DEF last
      <4> QED BY <4>2 DEF Latest
    <3>3. last = o
      <4> HIDE DEF last
      <4> SUFFICES ASSUME last # o PROVE FALSE
        OBVIOUS
      <4>1. Precedes(last, o) /\ Precedes(o, last)
        <5> HIDE DEF os
        <5> QED BY <3>1, <3>2 DEF Latest
      <4>2. /\ o[1] \in Nat /\ o[2] \in Nat /\ last[1] \in Nat /\ last[2] \in Nat
        <5>1. o \in os /\ last \in os
          <6> HIDE DEF os
          <6> QED BY <3>1, <3>2 DEF Latest
        <5>2. o \in (1..MaxPages) \X Nat /\ last \in (1..MaxPages) \X Nat
          BY <1>1, <5>1 DEF Upto
        <5> QED BY <5>2
      <4> QED BY <4>1, <4>2 DEF Precedes
    <3> HIDE DEF last, os
    <3>4. urls[n] = Url(account, Way, last)
      BY <3>1, <3>3
    <3> QED BY <3>4 DEF last, os
  <2> QED BY <2>2, <2>3 DEF Url
<1>3. lookup # "none" /\ pc = "done" => outcome = "ok"
  BY DEF LookupInv
<1> QED BY <1>2, <1>3 DEF TableComplete

\* The table of URLs has every published endpoint of the first MaxPages pages, with the last
\* URL of its name, whether the pages end, stay or go round; no answer fails the deploy.
THEOREM TableIsWhole == Spec => []TableComplete
<1>1. Init => TypeInv /\ ReadInv /\ LookupInv
  <2> SUFFICES ASSUME Init PROVE LookupInv
    BY InitTypes
  <2> QED BY DEF Init, PagingInit, LookupInv
<1>2. TypeInv /\ ReadInv /\ LookupInv /\ [Next]_vars => (TypeInv /\ ReadInv /\ LookupInv)'
  BY NextTypes, NextLookup
<1>3. LookupInv => TableComplete
  BY TableIsComplete
<1> QED BY <1>1, <1>2, <1>3, PTL DEF Spec
=============================================================================
