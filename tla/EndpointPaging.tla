--------------------------- MODULE EndpointPaging ---------------------------
(***************************************************************************)
(* The lookup of published URLs (publishing/ngrok.go): pages through every  *)
(* endpoint of the ngrok account and keeps those whose name was published.  *)
(* A page may name itself or an earlier one as the next; the walk gives up  *)
(* at a page that names itself, and after MaxPages in any case.             *)
(*                                                                          *)
(* The account is external and does not change while it is paged through.   *)
(* A page is [endpoints, next]; next is NoPage on the last one. The url of  *)
(* an endpoint is one that parses, or Malformed.                            *)
(***************************************************************************)
EXTENDS Naturals, Sequences, Functions

CONSTANTS
    Accounts,  \* functions from pages to [endpoints, next]; First is the first page
    FirstPage, \* ngrokEndpointsPath
    NoPage,
    Malformed,
    MaxPages   \* maxEndpointPages

ASSUME MaxPagesAssumption == MaxPages \in Nat \ {0}

ASSUME AccountsAssumption ==
    \A a \in Accounts :
        /\ FirstPage \in DOMAIN a /\ NoPage \notin DOMAIN a
        /\ \A p \in DOMAIN a :
              /\ a[p].next \in DOMAIN a \union {NoPage}
              /\ a[p].endpoints \in Seq(Range(a[p].endpoints))

VARIABLES
    account,
    lookup,    \* "none", "paging"; "found" and "failed" end it
    nextPage,
    followed,  \* pages fetched
    urls       \* mappedUrls

pagingVars == <<account, lookup, nextPage, followed, urls>>

NoUrls == [n \in {} |-> Malformed]

PagingInit ==
    /\ account \in Accounts
    /\ lookup = "none" /\ nextPage = FirstPage /\ followed = 0 /\ urls = NoUrls

\* ServiceUrls: without a key there is nothing to ask with.
BeginLookup(apiKey) ==
    /\ lookup = "none"
    /\ lookup' = IF apiKey THEN "paging" ELSE "failed"
    /\ UNCHANGED <<account, nextPage, followed, urls>>

Matching(page, names) ==
    {i \in DOMAIN account[page].endpoints : account[page].endpoints[i].name \in names}

\* A later endpoint of the same name overwrites.
collectEndpoints(page, names) ==
    LET endpoints == account[page].endpoints
        found == Matching(page, names)
        last(n) == CHOOSE i \in found :
                       endpoints[i].name = n /\ \A j \in found : endpoints[j].name = n => j <= i
        here == {endpoints[i].name : i \in found}
    IN [n \in DOMAIN urls \union here |->
           IF n \in here THEN endpoints[last(n)].url ELSE urls[n]]

\* Mutant of LastPage: the cap counts from zero.
LastPageEarly(page) ==
    \/ account[page].next \in {NoPage, page}
    \/ followed + 2 >= MaxPages

LastPage(page) ==
    \/ account[page].next \in {NoPage, page}
    \/ followed + 1 >= MaxPages

CollectPage(names) ==
    /\ lookup = "paging"
    /\ \A i \in Matching(nextPage, names) : account[nextPage].endpoints[i].url # Malformed
    /\ urls' = collectEndpoints(nextPage, names)
    /\ followed' = followed + 1
    /\ IF LastPage(nextPage)
       THEN lookup' = "found" /\ UNCHANGED nextPage
       ELSE nextPage' = account[nextPage].next /\ UNCHANGED lookup
    /\ UNCHANGED account

\* A request that fails, a response that does not parse; what was collected is dropped.
FailPage(names) ==
    /\ lookup = "paging"
    /\ lookup' = "failed" /\ urls' = NoUrls
    /\ UNCHANGED <<account, nextPage, followed>>
=============================================================================
