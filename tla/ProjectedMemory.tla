-------------------------- MODULE ProjectedMemory --------------------------
(* The memory pages (memory/store.py), what each reader is shown of a page  *)
(* (memory/policy.py), and the context put before a provider's request      *)
(* (memory/context.py).  Of a text only its origin is kept: a public        *)
(* summary, a sensitive one, or the summary of a page written under a given *)
(* classification.  A writer reads the page of a slug and then puts the     *)
(* whole page back; another may write in between.                           *)
EXTENDS Integers, FiniteSets

CONSTANTS
    Slugs,          \* the pages written
    Writers,        \* those who write them, one page at a time
    Classifications \* bound: the pairs of visibility and confidentiality used

ASSUME ClassificationsKnown ==
    Classifications \subseteq {"local", "restricted", "shared", "enclave"}
                               \X {"normal", "sensitive", "enclave"}

VARIABLES
    pages,          \* memory_pages: the page of each slug
    draft,          \* the page each writer is about to put back
    shown           \* the texts that remote providers were given

memVars == <<pages, draft, shown>>

Given     == {{"summary"}, {"summary", "public"}, {"summary", "sensitive"}}
Remote    == {"cloud", "remote", "provider"}      \* REMOTE_ACCESSORS
Local     == {"local", "prime", "operator", "system"}
FullView  == Local \ {"local"}
Redacting == {"local_redaction", "enclave_transform"}

NoPage  == [there |-> FALSE]
NoDraft == [slug |-> "none"]

IsEnclave(pg)   == pg.visibility = "enclave" \/ pg.confidentiality = "enclave"
IsSensitive(pg) == pg.visibility \in {"restricted", "enclave"}
                   \/ pg.confidentiality \in {"sensitive", "enclave"}

(* Fault: where the text goes is not looked at.                             *)
MayReadWhoever(pg, accessor, action, destination) ==
    accessor \notin Remote \/ ~IsSensitive(pg)

(* assess_memory_access for an action that is not a write.                  *)
MayRead(pg, accessor, action, destination) ==
    LET remote == accessor \in Remote \/ destination \in Remote
    IN IF remote /\ (IsEnclave(pg) \/ IsSensitive(pg))
       THEN action \in Redacting /\ accessor \in Local
       ELSE accessor \in pg.readers \cup Local \cup Remote

(* The first text there is of those named in order; "none" if there is none.*)
FirstOf(pg, texts) ==
    LET Present == {n \in DOMAIN texts : texts[n] \in pg.texts}
    IN IF Present = {} THEN "none"
       ELSE texts[CHOOSE n \in Present : \A k \in Present : n <= k]

(* project_memory_page_view: what is seen of a page, its summary and tier.  *)
View(pg, accessor, action, destination) ==
    LET allowed == MayRead(pg, accessor, action, destination)
        Seen(tier, texts, body) ==
            [tier |-> tier, summary |-> FirstOf(pg, texts), body |-> body]
    IN CASE IsEnclave(pg) /\ (accessor \in Remote \/ destination \in Remote) ->
              [tier |-> "none", summary |-> "none", body |-> FALSE]
         [] /\ ~(IsEnclave(pg) /\ (accessor \in Remote \/ destination \in Remote))
            /\ ~allowed /\ IsSensitive(pg) /\ accessor \notin FullView ->
              Seen(IF "public" \in pg.texts THEN "public" ELSE "none", <<"public">>, FALSE)
         [] OTHER ->
              IF accessor \in FullView
              THEN Seen("full", <<"enclave", "sensitive", "summary", "public">>, allowed)
              ELSE IF accessor = "local" /\ IsSensitive(pg)
              THEN Seen("sensitive", <<"sensitive", "public", "summary">>,
                        allowed /\ ~IsEnclave(pg))
              ELSE Seen("public", <<"public", "summary">>, allowed /\ ~IsSensitive(pg))

(* Where a text comes from: a plain summary has its page's classification.  *)
Origin(pg, text) ==
    IF text = "summary" THEN (IF IsSensitive(pg) THEN "sensitive" ELSE "normal") ELSE text

(* retrieve_views and export_context for one page the search found: it is   *)
(* read again, projected, and left out when nothing of it is visible.       *)
Snippet(x, accessor, destination) ==
    IF ~pages[x].there THEN {}
    ELSE LET view == View(pages[x], accessor, "read", destination)
         IN IF view.tier = "none" \/ view.summary = "none" THEN {}
            ELSE {Origin(pages[x], view.summary)}

(* load_projected_memory_context and build_memory_augmented_request: the    *)
(* pages the query hits, at most a few, before the request is sent.         *)
ShowRemote(hits) ==
    shown' = shown \cup UNION {Snippet(x, "local", "remote") : x \in hits}

----------------------------------------------------------------------------
(* create_or_update_page.  A classification that is not given is local and  *)
(* normal, also on an existing page; the other summaries are kept.          *)
BeginWrite(w, x, class, given) ==
    /\ draft[w] = NoDraft
    /\ draft' = [draft EXCEPT ![w] =
          [slug |-> x, of |-> pages[x],
           page |-> [there |-> TRUE, visibility |-> class[1],
                     confidentiality |-> class[2],
                     texts |-> given \cup IF pages[x].there
                                          THEN pages[x].texts \ {"summary"} ELSE {},
                     readers |-> {"local"}]]]
    /\ UNCHANGED <<pages, shown>>

(* upsert_page: two creations of one slug differ in page_id, and the second *)
(* is refused by the slug's uniqueness.                                     *)
PutPage(w) ==
    /\ draft[w] # NoDraft
    /\ pages' = IF ~draft[w].of.there /\ pages[draft[w].slug].there THEN pages
                ELSE [pages EXCEPT ![draft[w].slug] = draft[w].page]
    /\ draft' = [draft EXCEPT ![w] = NoDraft]
    /\ UNCHANGED shown

MemoryInit ==
    /\ pages = [x \in Slugs |-> NoPage]
    /\ draft = [w \in Writers |-> NoDraft]
    /\ shown = {}

(* Whatever order pages are written, reclassified and read in, a remote     *)
(* provider is given public summaries, and plain summaries written as such  *)
(* for a page that was not sensitive (project_memory_page_view).            *)
RemoteSafe == shown \subseteq {"public", "normal"}
=============================================================================
