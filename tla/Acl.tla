--------------------------------- MODULE Acl ---------------------------------
(***************************************************************************)
(* Access-control lists: acl/acl.go.  Evaluate and ListResourceIDs go      *)
(* through the subject and its groups one principal at a time; the step of *)
(* each loop is an operator here.                                          *)
(***************************************************************************)
EXTENDS ModelDecision, EarlyReturn, SequencesExt, TLC

AclLimits(limits) ==
    WithLimits([maxEntries |-> 10000, maxGroups |-> 100, maxMatches |-> 100, maxBatchSize |-> 1000],
               limits)

ValidEntry(e) ==
    /\ 0 \notin {e.id, e.subject[2], e.action, e.type} /\ e.subject[1] # ""
    /\ e.effect \in {"Allow", "Deny"}

EntryError(model, i) ==
    FirstError(<< <<~ValidEntry(model.entries[i]), "ErrInvalidEntry">>,
                  <<\E j \in 1..(i-1) : model.entries[j].id = model.entries[i].id,
                    "ErrDuplicateEntry">> >>)

NewAcl(model) ==
    IF Len(model.entries) > model.limits.maxEntries THEN "ErrEntryLimitExceeded"
    ELSE FirstFailure(Len(model.entries), LAMBDA i : EntryError(model, i))

(* The subject, then its groups, in the order and as often as named.       *)
PrincipalList(subject) ==
    <<<<subject.kind, subject.id>>>> \o [i \in DOMAIN subject.groups |-> <<"group", subject.groups[i]>>]

(* Variant with a mistake: a principal named twice is looked up twice.     *)
SeenBeforeNever(principals, i) == FALSE

SeenBefore(principals, i) == \E j \in 1..(i-1) : principals[j] = principals[i]

(* The keys of ListResourceIDs: each principal once.                       *)
PrincipalKeys(subject) ==
    FoldLeft(LAMBDA keys, p : IF Contains(keys, p) THEN keys ELSE Append(keys, p),
             <<>>, PrincipalList(subject))

(* The entries under a principal's key that are of the request's tenant.   *)
EntriesFor(model, request, principal) ==
    SelectSeq(model.entries, LAMBDA e :
        /\ e.subject = principal /\ e.action = request.action /\ e.type = request.type
        /\ MatchesTenant(model.inheritGlobal, e.tenant, request.tenant))

MatchEntries(decision, model, request, principal) ==
    FoldLeft(LAMBDA d, e :
                 IF d.err # "none" \/ e.resource \notin {0, request.resource} THEN d
                 ELSE Match(d, e.id, e.effect, model.limits.maxMatches),
             decision, EntriesFor(model, request, principal))

-----------------------------------------------------------------------------
(* ListResourceIDs                                                         *)

NoListing == [effects |-> << >>, typeWideAllow |-> FALSE, matches |-> 0,
              denied |-> FALSE, err |-> "none"]

EffectOn(listing, id) ==
    IF id \in DOMAIN listing.effects THEN listing.effects[id] ELSE "NotApplicable"

(* Variant with a mistake: the last entry of an instance decides.          *)
ListEntryLast(listing, e, maxMatches) ==
    IF listing.denied \/ listing.err # "none" THEN listing
    ELSE IF listing.matches >= maxMatches
    THEN [listing EXCEPT !.err = "ErrMatchLimitExceeded"]
    ELSE LET counted == [listing EXCEPT !.matches = @ + 1] IN
         IF e.resource # 0
         THEN [counted EXCEPT !.effects = (e.resource :> e.effect) @@ @]
         ELSE IF e.effect = "Deny" THEN [counted EXCEPT !.denied = TRUE]
         ELSE [counted EXCEPT !.typeWideAllow = TRUE]

ListEntry(listing, e, maxMatches) ==
    IF listing.denied \/ listing.err # "none" THEN listing
    ELSE IF listing.matches >= maxMatches
    THEN [listing EXCEPT !.err = "ErrMatchLimitExceeded"]
    ELSE LET counted == [listing EXCEPT !.matches = @ + 1] IN
         IF e.resource # 0
         THEN IF e.effect = "Deny" \/ EffectOn(listing, e.resource) = "NotApplicable"
              THEN [counted EXCEPT !.effects = (e.resource :> e.effect) @@ @]
              ELSE counted
         ELSE IF e.effect = "Deny" THEN [counted EXCEPT !.denied = TRUE]
         ELSE [counted EXCEPT !.typeWideAllow = TRUE]

ListEntries(listing, model, request, principal) ==
    FoldLeft(LAMBDA l, e : ListEntry(l, e, model.limits.maxMatches),
             listing, EntriesFor(model, request, principal))

(* What is returned after the loop: the IDs (the sort leaves a set).       *)
ListError(listing) ==
    IF listing.err # "none" THEN listing.err
    ELSE IF ~listing.denied /\ listing.typeWideAllow THEN "ErrUnboundedResourceSet" ELSE "none"

ListedIDs(listing) ==
    IF listing.denied \/ ListError(listing) # "none" THEN {}
    ELSE {id \in DOMAIN listing.effects : listing.effects[id] = "Allow"}

=============================================================================
