----------------------------- MODULE PageRecord -----------------------------
(***************************************************************************)
(* The record of the pages sessions published and of their owners          *)
(* (artifacts/record.ts): lines appended and folded under a lock of        *)
(* DirLock, read back to tell where a call goes (artifacts/route.ts), and  *)
(* written by hooks after calls, listings (artifacts/hook.ts, scan.ts) and *)
(* renamed accounts (accounts/rename.ts).  A page has one name here, a     *)
(* line one length, and no account takes a name another has had.           *)
(***************************************************************************)
EXTENDS Naturals, Sequences, FiniteSets, SequencesExt, FiniteSetsExt

CONSTANTS Callers,     \* the processes that write lines
          Owner,       \* the account each page was made as
          Names,       \* the names each account has in turn
          Sources,     \* the conversations and files pages are published from
          MaxRows,     \* bounds the lines written
          CompactAt,   \* more lines than this are folded
          CompactTo,   \* the most a fold leaves
          None         \* no owner told, no source, no page

VARIABLES record,      \* the lines
          clock,       \* lines begun
          renamed,     \* how often each account was renamed
          holder,      \* who has locked the record
          pc,          \* what each caller is doing
          row,         \* the line it writes
          copy,        \* the file its fold read
          all,         \* history: every line written, none folded
          foldedAt,    \* history: how far the file was folded
          dropped,     \* history: the pages a fold left out
          lost         \* history: whether a line met a fold it was not locked against

vars == <<record, clock, renamed, holder, pc, row, copy, all, foldedAt, dropped, lost>>

Pages == DOMAIN Owner
Accounts == DOMAIN Names
AllNames == UNION {ToSet(Names[a]) : a \in Accounts}
NameOf(a) == Names[a][renamed[a] + 1]
Registered == {NameOf(a) : a \in Accounts}

Row == [kind : {"publish", "scan", "delete", "rename"}, page : Pages \cup {None},
        owner : AllNames \cup {None}, from : AllNames \cup {None},
        source : Sources \cup {None}, at : 0..MaxRows]

NoRow == [kind |-> "publish", page |-> None, owner |-> None, from |-> None,
          source |-> None, at |-> 0]

TypeOK ==
    /\ record \in Seq(Row) /\ clock \in 0..MaxRows
    /\ renamed \in [Accounts -> Nat]
    /\ holder \in Callers \cup {None}
    /\ pc \in [Callers -> {"idle", "writing", "folding", "renaming"}]
    /\ row \in [Callers -> Row] /\ copy \in [Callers -> Seq(Row)]
    /\ all \in Seq(Row) /\ foldedAt \in 0..MaxRows /\ dropped \subseteq Pages /\ lost \in BOOLEAN

-----------------------------------------------------------------------------
(* Reading *)

\* What one more line says of the pages; a line that could not tell an owner
\* says nothing against the one before it.
WithRow(pages, r) ==
    IF r.kind = "rename"
    THEN [p \in DOMAIN pages |->
            [pages[p] EXCEPT !.owner = IF @ = r.from THEN r.owner ELSE @]]
    ELSE LET known == r.page \in DOMAIN pages
             old == IF known THEN pages[r.page]
                    ELSE [owner |-> None, at |-> 0, via |-> "publish", deleted |-> FALSE,
                          sources |-> {}]
             new == IF r.kind = "delete" THEN [old EXCEPT !.deleted = TRUE]
                    ELSE [owner |-> IF r.owner = None THEN old.owner ELSE r.owner,
                          at |-> r.at, via |-> r.kind, deleted |-> FALSE,
                          sources |-> IF r.source = None THEN old.sources
                                      ELSE {s \in old.sources : s[1] # r.source}
                                              \cup {<<r.source, r.at>>}]
         IN  IF r.kind = "delete" /\ ~known THEN pages
             ELSE [p \in DOMAIN pages \cup {r.page} |-> IF p = r.page THEN new ELSE pages[p]]

ReadFrom(lines) ==
    FoldLeft(WithRow, <<>>, SortSeq(lines, LAMBDA r, s : r.at < s.at))

FindPage(pages, p) == IF p \in DOMAIN pages /\ ~pages[p].deleted THEN p ELSE None

\* The page a source was last published to, deleted or not.
Newest(pages, source) ==
    LET from == {p \in DOMAIN pages : \E s \in pages[p].sources : s[1] = source}
        When(p) == CHOOSE t \in 0..MaxRows : <<source, t>> \in pages[p].sources
    IN  IF from = {} THEN None ELSE CHOOSE p \in from : \A q \in from : When(q) <= When(p)

\* A deleted page is no page: its file makes a new one.
FindRepublished(pages, source) ==
    LET p == Newest(pages, source) IN IF p = None THEN None ELSE FindPage(pages, p)

-----------------------------------------------------------------------------
(* Folding *)

\* Mutant: an older page keeps its source for a file since published to another.
AllSources(pages, p) == pages[p].sources

\* Each source stays only with the page that had it last.
KeptSources(pages, p) == {s \in pages[p].sources : Newest(pages, s[1]) = p}

\* The lines that say of a page what all of its lines said.
LinesOf(pages, p) ==
    LET page == pages[p]
        kept == KeptSources(pages, p)
        Line(kind, source, at) ==
            [kind |-> kind, page |-> p, owner |-> page.owner, from |-> None,
             source |-> source, at |-> at]
        from == {Line("publish", s[1], s[2]) : s \in kept}
    IN  from \cup IF page.via = "publish" /\ \E s \in kept : s[2] = page.at
                  THEN {} ELSE {Line(page.via, None, page.at)}

\* The pages used last, as many as fit.
Fitting(pages) ==
    LET live == {p \in DOMAIN pages : ~pages[p].deleted}
        Since(p) == {q \in live : pages[q].at >= pages[p].at}
        Size(ps) == MapThenSumSet(LAMBDA q : Cardinality(LinesOf(pages, q)), ps)
    IN  {p \in live : Size(Since(p)) <= CompactTo}

Folded(lines) ==
    LET pages == ReadFrom(lines)
    IN  SetToSortSeq(UNION {LinesOf(pages, p) : p \in Fitting(pages)},
                     LAMBDA r, s : r.at < s.at)

-----------------------------------------------------------------------------
(* Routing: where a call goes, with pages changed as their owners *)

\* Refused when no account has that name any more.
Routed(name) == IF name \in Registered THEN [kind |-> "go", to |-> name]
                ELSE [kind |-> "refuse", to |-> name]

OwnerRoute(pages, p) ==
    IF p = None \/ pages[p].owner = None THEN [kind |-> "unknown", to |-> None]
    ELSE Routed(pages[p].owner)

\* A call that names a page, or publishes a file again.
NamedRoute(pages, p) == OwnerRoute(pages, FindPage(pages, p))

PublishRoute(pages, source) ==
    LET p == FindRepublished(pages, source)
    IN  IF p = None THEN [kind |-> "new", to |-> None] ELSE OwnerRoute(pages, p)

-----------------------------------------------------------------------------
(* Writing *)

Init ==
    /\ record = <<>> /\ clock = 0 /\ all = <<>>
    /\ renamed = [a \in Accounts |-> 0]
    /\ holder = None /\ pc = [c \in Callers |-> "idle"]
    /\ row = [c \in Callers |-> NoRow] /\ copy = [c \in Callers |-> <<>>]
    /\ foldedAt = 0 /\ dropped = {} /\ lost = FALSE

history == <<all, foldedAt, dropped, lost>>

Begins(c, from, r) ==
    /\ pc[c] = from /\ clock < MaxRows
    /\ clock' = clock + 1
    /\ row' = [row EXCEPT ![c] = [r EXCEPT !.at = clock + 1]]
    /\ pc' = [pc EXCEPT ![c] = "writing"]
    /\ UNCHANGED <<record, holder, copy, history>>

\* A call that was answered: by the page's owner, told for certain or not.
Publishes(c, p, source) ==
    /\ \E owner \in {NameOf(Owner[p]), None} :
          Begins(c, "idle", [NoRow EXCEPT !.page = p, !.owner = owner, !.source = source])
    /\ UNCHANGED renamed

Deletes(c, p) ==
    /\ Begins(c, "idle", [NoRow EXCEPT !.kind = "delete", !.page = p])
    /\ UNCHANGED renamed

\* A listing adds nothing for a page recorded as the account's already.
Lists(c, p) ==
    LET pages == ReadFrom(record) IN
    /\ ~(FindPage(pages, p) = p /\ pages[p].owner = NameOf(Owner[p]))
    /\ Begins(c, "idle", [NoRow EXCEPT !.kind = "scan", !.page = p, !.owner = NameOf(Owner[p])])
    /\ UNCHANGED renamed

\* The registry is written first.
Renames(c, a) ==
    /\ pc[c] = "idle" /\ renamed[a] + 1 < Len(Names[a])
    /\ renamed' = [renamed EXCEPT ![a] = @ + 1]
    /\ row' = [row EXCEPT ![c] = [NoRow EXCEPT !.kind = "rename", !.from = NameOf(a),
                                               !.owner = Names[a][renamed[a] + 2]]]
    /\ pc' = [pc EXCEPT ![c] = "renaming"]
    /\ UNCHANGED <<record, clock, holder, copy, history>>

\* Nothing to rename where nothing was recorded.
RenamesPages(c) ==
    /\ \/ record # <<>> /\ Begins(c, "renaming", row[c])
       \/ /\ record = <<>> /\ pc[c] = "renaming"
          /\ pc' = [pc EXCEPT ![c] = "idle"] /\ row' = [row EXCEPT ![c] = NoRow]
          /\ UNCHANGED <<record, clock, holder, copy, history>>
    /\ UNCHANGED renamed

\* Under the lock, or past it once the wait has run out.
Appends(c) ==
    LET long == Len(record) >= CompactAt /\ holder = None IN
    /\ pc[c] = "writing"
    /\ record' = Append(record, row[c]) /\ all' = Append(all, row[c])
    /\ pc' = [pc EXCEPT ![c] = IF long THEN "folding" ELSE "idle"]
    /\ copy' = [copy EXCEPT ![c] = IF long THEN record' ELSE <<>>]
    /\ holder' = IF long THEN c ELSE holder
    /\ row' = [row EXCEPT ![c] = NoRow]
    /\ lost' = (lost \/ holder # None \/ row[c].at < foldedAt)
    /\ UNCHANGED <<clock, renamed, foldedAt, dropped>>

\* A line that cannot be written is a page not known of.
AppendFails(c) ==
    /\ pc[c] = "writing"
    /\ pc' = [pc EXCEPT ![c] = "idle"] /\ row' = [row EXCEPT ![c] = NoRow]
    /\ UNCHANGED <<record, clock, renamed, holder, copy, history>>

Folds(c) ==
    /\ pc[c] = "folding"
    /\ record' = Folded(copy[c])
    /\ foldedAt' = Max({r.at : r \in ToSet(copy[c])} \cup {foldedAt})
    /\ LET pages == ReadFrom(copy[c])
       IN  dropped' = dropped \cup (DOMAIN pages \ Fitting(pages))
    /\ holder' = None
    /\ pc' = [pc EXCEPT ![c] = "idle"] /\ copy' = [copy EXCEPT ![c] = <<>>]
    /\ UNCHANGED <<clock, renamed, row, all, lost>>

\* Its write fails, or it dies: the file is as it was, and a dead one's lock grows old.
FoldFails(c) ==
    /\ pc[c] = "folding"
    /\ holder' = None
    /\ pc' = [pc EXCEPT ![c] = "idle"] /\ copy' = [copy EXCEPT ![c] = <<>>]
    /\ UNCHANGED <<record, clock, renamed, row, history>>

Next ==
    \E c \in Callers :
        \/ \E p \in Pages :
              \/ \E source \in Sources : Publishes(c, p, source)
              \/ Deletes(c, p) \/ Lists(c, p)
        \/ \E a \in Accounts : Renames(c, a)
        \/ RenamesPages(c) \/ Appends(c) \/ AppendFails(c) \/ Folds(c) \/ FoldFails(c)

-----------------------------------------------------------------------------
(* Properties *)

\* However often the record was folded, a lookup answers as every line ever
\* written does, or finds nothing, or no owner, for a page a fold left out: no
\* page is brought back, and no older one takes the place of one left out
\* (record.ts, compactLocked).  It may not, where a line was written beside a
\* fold or only after it, past the lock.
LookupsAgree ==
    lost \/
        LET now == ReadFrom(record)
            ever == ReadFrom(all)
            Same(p) == FindPage(now, p) = FindPage(ever, p)
                           /\ (FindPage(now, p) = p => now[p].owner = ever[p].owner)
        IN
        /\ \A p \in Pages :
              \/ Same(p)
              \/ p \in dropped /\ FindPage(now, p) = None
              \/ p \in dropped /\ FindPage(ever, p) = p /\ now[p].owner = None
        /\ \A s \in Sources :
              \/ FindRepublished(now, s) = FindRepublished(ever, s)
              \/ dropped # {} /\ FindRepublished(now, s) = None

\* A call about a page goes out as the account it belongs to or is not sent,
\* also while accounts are renamed beside it (route.ts, decideRoute).
SentAsOwner ==
    LET now == ReadFrom(record) IN
    /\ \A p \in Pages :
          NamedRoute(now, p).kind = "go" => NamedRoute(now, p).to = NameOf(Owner[p])
    /\ \A s \in Sources :
          PublishRoute(now, s).kind = "go" =>
              PublishRoute(now, s).to = NameOf(Owner[FindRepublished(now, s)])

\* What always holds of the record.
Inv == TypeOK /\ LookupsAgree /\ SentAsOwner
=============================================================================
