---------------------------- MODULE BrainIngest ----------------------------
(***************************************************************************)
(* The Brain of an operator and its documents, which are added as a text,   *)
(* as a file or by crawling a website (cockpit/brains.py and                *)
(* cockpit/routes/brain.py, with brain/validation.py and the clients in     *)
(* brain/client.py and brain/crawler.py).                                   *)
(*                                                                          *)
(* A crawl is a loop of requests to the crawler, one page each, followed by *)
(* one of requests to Morphik; every request may fail, and other requests   *)
(* of the operator's are handled in between.  A URL is absolute and has no  *)
(* fragment, its page links to URLs, and those of other hosts or schemes,   *)
(* for which normalize_internal_link is None, are not in Url.               *)
(***************************************************************************)
EXTENDS Naturals, Sequences, FiniteSets

CONSTANTS
    Url,           \* URLs of the seed's host
    Seed,          \* the URL that the operator submits
    Web,           \* what the pages may link to: a set of functions from URLs to sets of them
    SlugOf,        \* slug_for_url, as a function on Url
    Name,          \* the names of texts and files that are uploaded
    MaxDepth,      \* crawl_max_depth
    MaxPages,      \* crawl_max_pages
    MaxIngests     \* bound on the crawls and uploads begun

ASSUME BrainIngestAssumption ==
    /\ Seed \in Url
    /\ Web \subseteq [Url -> SUBSET Url]
    /\ \A web \in Web : \A u \in Url : IsFiniteSet(web[u])
    /\ DOMAIN SlugOf = Url
    /\ MaxDepth \in Nat /\ MaxPages \in Nat \ {0}
    /\ MaxIngests \in Nat

VARIABLES
    links,        \* the hrefs on each page
    brain,        \* does the operator have a Brain?
    crawl,        \* the crawl under way: its stage, queue, visited and pages
    stored,       \* how many of the crawl's pages are ingested
    fetched,      \* the URLs that the crawler was asked for, in that order
    docs,         \* the documents in the Brain: their names with a number
    ingests       \* how many crawls and uploads were begun

brainVars == <<links, brain, crawl, stored, fetched, docs, ingests>>

NoCrawl == [stage |-> "none", queue |-> <<>>, visited |-> {}, pages |-> <<>>]

\* the next document to be stored under a name: Morphik stores a name again and again
Doc(name) == [name |-> name, n |-> Cardinality({d \in docs : d.name = name})]

-----------------------------------------------------------------------------
(* Provisioning, and single documents.                                      *)

\* create_brain, which returns an existing one
CreateBrain ==
    /\ brain' = TRUE
    /\ UNCHANGED <<links, crawl, stored, fetched, docs, ingests>>

\* ingest_text, or ingest_file once the file's type and size are checked; Morphik may fail
Upload ==
    /\ brain /\ ingests < MaxIngests
    /\ ingests' = ingests + 1
    /\ \/ \E name \in Name : docs' = docs \cup {Doc(name)}
       \/ docs' = docs
    /\ UNCHANGED <<links, brain, crawl, stored, fetched>>

\* delete_doc
DeleteDoc ==
    /\ \E d \in docs : docs' = docs \ {d}
    /\ UNCHANGED <<links, brain, crawl, stored, fetched, ingests>>

-----------------------------------------------------------------------------
(* Crawling a website.                                                      *)

\* ingest_url: the seed is valid and there is a Brain
BeginCrawl ==
    /\ brain /\ crawl.stage \in {"none", "failed", "reported"} /\ ingests < MaxIngests
    /\ ingests' = ingests + 1
    /\ crawl' = [stage |-> "crawling", queue |-> <<[url |-> Seed, depth |-> 0]>>,
                 visited |-> {Seed}, pages |-> <<>>]
    /\ fetched' = <<>> /\ stored' = 0
    /\ UNCHANGED <<links, brain, docs>>

\* Faulty variant: the links are queued before the older ones
LinksFirst(queue, found) == found \o queue

\* append to the deque
Enqueued(queue, found) == queue \o found

\* the links of a page that enqueue_links has not seen
Unseen(visited, url) == links[url] \ visited

Orders(S) == {s \in [1 .. Cardinality(S) -> S] : {s[i] : i \in DOMAIN s} = S}

\* enqueue_links, with the links in whatever order they have on the page
Links(url, depth, order) ==
    IF depth >= MaxDepth THEN <<>>
    ELSE [i \in DOMAIN order |-> [url |-> order[i], depth |-> depth + 1]]

\* the next URL of the queue, which is taken from it
NextUrl == Head(crawl.queue).url
Rest == [crawl EXCEPT !.queue = Tail(@)]

\* validate_ingest_url: the host resolves to another address now
UrlRefused == crawl' = Rest /\ UNCHANGED fetched

\* the page cannot be extracted, or is empty
PageIsEmpty == crawl' = Rest /\ fetched' = Append(fetched, NextUrl)

\* the page has content, and links
PageHasContent ==
    LET depth == Head(crawl.queue).depth
    IN  /\ \E order \in Orders(Unseen(crawl.visited, NextUrl)) :
            LET found == Links(NextUrl, depth, order)
            IN  crawl' = [Rest EXCEPT
                    !.queue = Enqueued(@, found),
                    !.visited = @ \cup {found[i].url : i \in DOMAIN found},
                    !.pages = Append(@, [url |-> NextUrl, depth |-> depth])]
        /\ fetched' = Append(fetched, NextUrl)

\* the crawler answers with an error or not at all: the whole crawl is given up
CrawlerFails == crawl' = [crawl EXCEPT !.stage = "failed"] /\ fetched' = Append(fetched, NextUrl)

\* one round of the loop in bfs_crawl
CrawlPage ==
    /\ crawl.stage = "crawling"
    /\ crawl.queue # <<>> /\ Len(fetched) < MaxPages
    /\ UrlRefused \/ PageIsEmpty \/ PageHasContent \/ CrawlerFails
    /\ UNCHANGED <<links, brain, stored, docs, ingests>>

\* ingest_url after the loop: without a page it raises
EndCrawl ==
    /\ crawl.stage = "crawling"
    /\ crawl.queue = <<>> \/ Len(fetched) >= MaxPages
    /\ crawl' = [crawl EXCEPT !.stage = IF crawl.pages = <<>> THEN "failed" ELSE "ingesting"]
    /\ UNCHANGED <<links, brain, stored, fetched, docs, ingests>>

\* one round of the loop in ingest_texts: a failure ends it, and leaves what is stored
IngestPage ==
    /\ crawl.stage = "ingesting" /\ stored < Len(crawl.pages)
    /\ \/ /\ docs' = docs \cup {Doc(SlugOf[crawl.pages[stored + 1].url])}
          /\ stored' = stored + 1
          /\ UNCHANGED crawl
       \/ /\ crawl' = [crawl EXCEPT !.stage = "failed"]
          /\ UNCHANGED <<docs, stored>>
    /\ UNCHANGED <<links, brain, fetched, ingests>>

\* ingest_crawled_pages: "n pages fetched"
Report ==
    /\ crawl.stage = "ingesting" /\ stored = Len(crawl.pages)
    /\ crawl' = [crawl EXCEPT !.stage = "reported"]
    /\ UNCHANGED <<links, brain, stored, fetched, docs, ingests>>

BrainInit ==
    /\ links \in Web
    /\ brain = FALSE
    /\ crawl = NoCrawl
    /\ stored = 0 /\ fetched = <<>>
    /\ docs = {} /\ ingests = 0

BrainNext ==
    \/ CreateBrain \/ Upload \/ DeleteDoc
    \/ BeginCrawl \/ CrawlPage \/ EndCrawl \/ IngestPage \/ Report

BrainSpec == BrainInit /\ [][BrainNext]_brainVars

-----------------------------------------------------------------------------
(* Properties.                                                              *)

\* the walks of n steps from the seed, each of which follows a link on a page that had content,
\* or stays; and the URLs they end at, which are those at most n links away
Extracted == {crawl.pages[i].url : i \in DOMAIN crawl.pages}
Walks(n) ==
    {walk \in [0 .. n -> Url] :
        /\ walk[0] = Seed
        /\ \A i \in 1 .. n : \/ walk[i] = walk[i - 1]
                             \/ walk[i - 1] \in Extracted /\ walk[i] \in links[walk[i - 1]]}
Within(n) == {walk[n] : walk \in Walks(n)}

\* A crawl asks for a URL at most once and for at most crawl_max_pages in all; it takes every
\* page at its distance from the seed, nearer ones first and none beyond crawl_max_depth; and
\* if the cap did not end it, it has considered all that are near enough, and none is left in
\* its queue.  What it reports as fetched, it has stored.
CrawlsAreExact ==
    /\ Len(fetched) <= MaxPages
    /\ \A i, j \in DOMAIN fetched : fetched[i] = fetched[j] => i = j
    /\ \A i \in DOMAIN crawl.pages :
        LET p == crawl.pages[i]
        IN  /\ p.depth <= MaxDepth
            /\ p.url \in Within(p.depth)
            /\ p.depth > 0 => p.url \notin Within(p.depth - 1)
            /\ \A j \in 1 .. i : crawl.pages[j].depth <= p.depth
    /\ (crawl.stage \in {"ingesting", "reported"} /\ Len(fetched) < MaxPages) =>
        crawl.visited = Within(MaxDepth) /\ crawl.queue = <<>>
    /\ crawl.stage = "reported" => stored = Len(crawl.pages)

=============================================================================
