-------------------------- MODULE ServiceResolver --------------------------
(***************************************************************************)
(* What both resolvers do with a service (resolver/common.go): its image    *)
(* reference, the +git tag, and the port ngrok exposes.                     *)
(*                                                                          *)
(* A result carries the error that ends the resolution, "none" otherwise. A *)
(* missing string is "". A tag is a name and what stands for "+git" in it:  *)
(* "" when it has none, "+git" until it is expanded, then the short SHA.    *)
(***************************************************************************)
EXTENDS Naturals, Sequences

MaxUint16 == 2^16 - 1

Tag(name) == [name |-> name, sha |-> ""]
GitTag(name) == [name |-> name, sha |-> "+git"]
NoTag == Tag("")

First(x, y) == IF x # "" THEN x ELSE y

\* compose `image`: a digest cannot be expressed as repository and tag.
NoRef == [repository |-> "", tag |-> "", digest |-> FALSE]
Ref(repository, tag) == [repository |-> repository, tag |-> tag, digest |-> FALSE]
DigestRef(repository) == [repository |-> repository, tag |-> "", digest |-> TRUE]

parseImageRef(ref) ==
    [error      |-> IF ref.digest THEN "image_digest_unsupported" ELSE "none",
     repository |-> ref.repository,
     tag        |-> IF ref.repository = "" THEN NoTag
                    ELSE Tag(First(ref.tag, "latest"))]

\* sha is git's answer for the directory that declares the service, "" if it fails.
expandGitTag(tag, sha) == IF tag.sha = "+git" THEN [tag EXCEPT !.sha = sha] ELSE tag

resolveServiceImage(image, ref, sha) ==
    LET parsed == parseImageRef(ref)
        repository == First(image.repository, parsed.repository)
        tag == IF image.tag # NoTag THEN image.tag ELSE parsed.tag
        error == IF parsed.error # "none" THEN parsed.error
                 ELSE IF tag.sha = "+git" /\ sha = "" THEN "git_short_sha"
                 ELSE IF repository = "" THEN "image_repository_missing"
                 ELSE IF tag = NoTag THEN "image_tag_missing"
                 ELSE "none"
    IN [error |-> error, repository |-> repository, tag |-> expandGitTag(tag, sha)]

\* The port goes through uint16 once the bound is checked; the extension's own field
\* is a uint16 from the start.
InvalidPorts(ports) == \E i \in DOMAIN ports : ports[i] > MaxUint16
Narrow(port) == port % 2^16

NoNgrok == [port |-> 0, trafficPolicy |-> "", url |-> ""]

resolveNgrok(topPolicy, ngrok, containerPorts, ngrokEnabled) ==
    IF ~ngrokEnabled THEN [error |-> "none", ngrok |-> NoNgrok]
    ELSE [error |-> IF ngrok.port # 0 /\ ngrok.port \notin containerPorts
                    THEN "ngrok_port_mismatch" ELSE "none",
          ngrok |-> [ngrok EXCEPT !.trafficPolicy = First(@, topPolicy)]]
=============================================================================
