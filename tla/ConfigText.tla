------------------------------ MODULE ConfigText ------------------------------
(***************************************************************************)
(* The dashboard's edits of onegw.toml (admin_config.go,                   *)
(* admin_config_edit.go, splice_provider_comment.go, admin_keys.go,        *)
(* admin_proxies.go, admin_sections.go, admin_password.go).  The file is   *)
(* kept as lines so that comments, order and hand-written keys survive:    *)
(* every edit cuts out the lines it means and puts others in their place,  *)
(* and the result is written only if it loads.                             *)
(*                                                                         *)
(* A line is a table header, a key with its value, a comment or blank,     *)
(* behind some number of '#'.  A value is a sequence of strings, whatever  *)
(* its type, and stands on one line.  What the lines mean is read by Toml  *)
(* below, which follows TOML and not the splicers.                         *)
(***************************************************************************)
EXTENDS Naturals, Sequences, FiniteSets, SequencesExt, FiniteSetsExt

CONSTANTS
  Files,     \* the files the operator may start from
  Edits,     \* the requests the dashboard may make
  MaxEdits   \* bound: requests made

VARIABLES
  file,      \* the lines of onegw.toml
  asked,     \* history: the last request made
  edits,     \* requests made so far
  answer     \* history: how it ended: ok, refused or panic

vars == <<file, asked, edits, answer>>

NoEdit == [op |-> "none"]

\* Lines.
Hdr(path, dbl) == [c |-> 0, path |-> path, dbl |-> dbl, key |-> "", val |-> <<>>]
KV(key, val) == [c |-> 0, path |-> <<>>, dbl |-> FALSE, key |-> key, val |-> val]
Note(text) == [c |-> 1, path |-> <<>>, dbl |-> FALSE, key |-> "", val |-> <<text>>]
Blank == KV("", <<>>)
Header(l) == l.c = 0 /\ l.path # <<>>
Sets(l, key) == l.c = 0 /\ l.key = key
IsBlank(l) == l = Blank

\* The positions Test picks, in order.
Where(s, Test(_)) == SelectSeq([i \in DOMAIN s |-> i], Test)
Least(S, default) == IF S = {} THEN default ELSE Min(S)
Map(s, F(_)) == [k \in DOMAIN s |-> F(s[k])]
\* lines[from, to)
Cut(s, from, to) == SubSeq(s, from, to - 1)
Block(s, b) == Cut(s, b[1], b[2])
Replaced(s, b, new) == Cut(s, 1, b[1]) \o new \o Cut(s, b[2], Len(s) + 1)
PutAt(s, at, new) == Replaced(s, <<at, at>>, new)
TrimEnd(s) == SubSeq(s, 1, Max({0} \cup {i \in DOMAIN s : ~IsBlank(s[i])}))
Added(s, block) == TrimEnd(s) \o <<Blank>> \o block

-----------------------------------------------------------------------------
\* Finding blocks.

\* scanBlocks: [start, end) of every block of one header, its sub-tables
\* included, up to the next other header.
ScanBlocks(s, path, dbl) ==
  Map(Where(s, LAMBDA i : Header(s[i]) /\ s[i].path = path /\ s[i].dbl = dbl),
      LAMBDA i : <<i, Least({j \in DOMAIN s : j > i /\ Header(s[j]) /\ ~IsStrictPrefix(path, s[j].path)}, Len(s) + 1)>>)

TopEnd(block) == Least({i \in 2 .. Len(block) : Header(block[i])}, Len(block) + 1)

\* The first line of the top region that sets key; 0 if none does.
KeyAt(block, key) == Least({i \in 2 .. TopEnd(block) - 1 : Sets(block[i], key)}, 0)
ValueAt(block, at) == IF at = 0 THEN <<>> ELSE block[at].val
Value(block, key) == ValueAt(block, KeyAt(block, key))

\* blockName, for every block of a header: those called name.
Named(s, path, name) == SelectSeq(ScanBlocks(s, path, TRUE), LAMBDA b : Value(Block(s, b), "name") = <<name>>)

\* findSection: the plain header and the next plain header; array-of-tables
\* headers in between do not end the section.
FindSection(s, name) ==
  LET section(hdr) == IF hdr = 0 THEN <<0, 0>>
                      ELSE <<hdr, Least({j \in DOMAIN s : j > hdr /\ Header(s[j]) /\ ~s[j].dbl}, Len(s) + 1)>>
  IN section(Least({i \in DOMAIN s : Header(s[i]) /\ ~s[i].dbl /\ s[i].path = <<name>>}, 0))
\* The lines of a section that Test picks.
Within(s, sec, Test(_)) == {i \in sec[1] + 1 .. sec[2] - 1 : Test(s[i])}

-----------------------------------------------------------------------------
\* Editing one block.

\* upsertScalar: in place, or after the name line.
Upsert(block, key, val) ==
  LET put(at, name) == IF at # 0 THEN [block EXCEPT ![at] = KV(key, val)]
                       ELSE InsertAt(block, Max({1, name}) + 1, KV(key, val))
  IN put(KeyAt(block, key), KeyAt(block, "name"))

\* The lines of a block that Test picks, in order.
Pick(block, Test(_)) == Map(Where(block, Test), LAMBDA i : block[i])

RemoveScalar(block, key) ==
  LET above(top) == Pick(block, LAMBDA i : ~(i < top /\ Sets(block[i], key))) IN above(TopEnd(block))

SetScalar(block, key, val) == IF val = <<>> THEN RemoveScalar(block, key) ELSE Upsert(block, key, val)

AcctPath == <<"providers", "accounts">>
AcctFields == {"name", "api_key", "weight", "disabled"}

\* Is line i of a block below an account header?
InAcct(block, i) ==
  \E j \in 1 .. i : block[j].path = AcctPath /\ Header(block[j]) /\ \A k \in j + 1 .. i : ~Header(block[k])

\* A plausible bug: whatever stands below an account header goes with it.
Mut_RemoveAccountTables_All(block) == Pick(block, LAMBDA i : ~InAcct(block, i))

\* removeAccountTables: the account tables go, but what no account models
\* (comments, provider keys written below them) joins the top region.
RemoveAccountTables(block) ==
  LET join(out, hoisted) == PutAt(out, TopEnd(out), hoisted)
  IN join(Pick(block, LAMBDA i : ~InAcct(block, i)),
          Pick(block, LAMBDA i : /\ InAcct(block, i) /\ ~Header(block[i]) /\ ~IsBlank(block[i])
                                 /\ ~(block[i].c = 0 /\ block[i].key \in AcctFields)))

\* parseAccounts: the account tables, then the legacy api_key (named default)
\* and keys (key-1, key-2) where no table has the name.
LegacyName(n) == <<"key-1", "key-2", "key-3">>[n]
NoAcct == [key |-> "", weight |-> <<>>, off |-> FALSE]
Tables(block) == {<<i, Least({j \in DOMAIN block : j > i /\ Header(block[j])}, Len(block) + 1)>> :
                    i \in {i \in DOMAIN block : Header(block[i]) /\ block[i].path = AcctPath}}
One(val) == IF val = <<>> THEN "" ELSE val[1]
AcctTable(t) ==
  <<One(Value(t, "name")),
    [key |-> One(Value(t, "api_key")), weight |-> Value(t, "weight"), off |-> Value(t, "disabled") = <<"true">>]>>
LegacyKeys(block) ==
  LET named(first, keys) == {<<"default", One(first)>>} \cup {<<LegacyName(n), keys[n]>> : n \in DOMAIN keys}
  IN named(Value(block, "api_key"), Value(block, "keys"))
ParseAccounts(block) ==
  LET both(tables, legacy) ==
        [name \in {x[1] : x \in tables \cup legacy} \ {""} |->
           (CHOOSE x \in {t \in tables \cup legacy : t \in tables \/ ~\E u \in tables : u[1] = name} : x[1] = name)[2]]
  IN both({AcctTable(Block(block, t)) : t \in Tables(block)},
          {<<l[1], [NoAcct EXCEPT !.key = l[2]]>> : l \in {l \in LegacyKeys(block) : l[2] # ""}})

Known(old, name) == IF name \in DOMAIN old THEN old[name] ELSE NoAcct

\* A plausible bug: what the form does not show is not carried over.
Mut_Carried_KeyOnly(row, old) ==
  [name |-> row.name, key |-> IF row.key # "" THEN row.key ELSE Known(old, row.name).key,
   weight |-> <<>>, off |-> row.off = "on"]

\* The account a row of the roster stands for: what it leaves out is kept.
Carried(row, old) ==
  [name |-> row.name, key |-> IF row.key # "" THEN row.key ELSE Known(old, row.name).key,
   weight |-> Known(old, row.name).weight,
   off |-> row.off = "on" \/ (row.off = "keep" /\ Known(old, row.name).off)]

RenderAccount(a) ==
  <<Hdr(AcctPath, TRUE), KV("name", <<a.name>>)>>
  \o (IF a.key = "" THEN <<>> ELSE <<KV("api_key", <<a.key>>)>>)
  \o (IF a.weight = <<>> THEN <<>> ELSE <<KV("weight", a.weight)>>)
  \o (IF a.off THEN <<KV("disabled", <<"true">>)>> ELSE <<>>)

\* The names whose legacy credential the roster has taken over.
Used(req, old) ==
  {req.accts[i].name : i \in {i \in DOMAIN req.accts :
     /\ req.accts[i].name \in DOMAIN old
     /\ req.accts[i].key # "" \/ old[req.accts[i].name].key # ""}}

\* dropSupersededKeysArray: only when the roster took every key of it.
DropSuperseded(block, used) ==
  LET drop(at) == IF at # 0 /\ \A n \in DOMAIN block[at].val : LegacyName(n) \in used THEN RemoveAt(block, at) ELSE block
  IN drop(KeyAt(block, "keys"))

\* The keys the form manages; models stands for every optional one of them.
WithKey(block, key) == IF key = "" THEN block ELSE Upsert(block, "api_key", <<key>>)
WithProxy(block, proxy) ==
  IF proxy = "keep" THEN block ELSE SetScalar(block, "proxy", IF proxy = "on" THEN <<"true">> ELSE <<>>)
Scalars(block, req) ==
  WithProxy(SetScalar(WithKey(Upsert(block, "kind", <<req.kind>>), req.key), "models", req.models), req.proxy)

Rows(accts, old) == FoldLeft(LAMBDA acc, row : acc \o RenderAccount(Carried(row, old)), <<>>, accts)

\* A roster on the form replaces the account tables and takes over the legacy
\* credentials it names; without one they stay as they are.
EditProviderBlock(block, req, old) ==
  LET take(rows, used) ==
        DropSuperseded(IF req.key = "" /\ "default" \in used THEN RemoveScalar(rows, "api_key") ELSE rows, used)
      form(b) == IF req.roster THEN take(b \o Rows(req.accts, old), Used(req, old)) ELSE b
  IN form(Scalars(IF req.roster THEN RemoveAccountTables(block) ELSE block, req))

\* renderProviderBlock.
NewProviderBlock(req) ==
  Scalars(<<Hdr(<<"providers">>, TRUE), KV("name", <<req.name>>)>>, req)
  \o Rows(IF req.roster THEN req.accts ELSE <<>>, <<>>)

\* refuseStrandedAccounts.
Stranded(req, old) ==
  /\ req.roster /\ req.kind # "free"
  /\ \E i \in DOMAIN req.accts : Carried(req.accts[i], old).key = "" /\ req.accts[i].svc = ""

-----------------------------------------------------------------------------
\* The OAuth roster.

OAuthPath == <<"oauth", "accounts">>
\* parseOAuthBlock, with Load's defaults.
OAuthEntry(block) ==
  LET entry(provider, owner, account, service) ==
        [provider |-> provider, owner |-> owner,
         account |-> IF account = <<>> THEN "default" ELSE One(account),
         service |-> IF service = <<>> /\ owner = <<>> THEN provider ELSE One(service)]
  IN entry(One(Value(block, "provider")), Value(block, "owner"), Value(block, "account"), Value(block, "service"))

Wanted(req) == {<<req.accts[i].name, req.accts[i].svc>> : i \in {i \in DOMAIN req.accts : req.accts[i].svc # ""}}

Managed(e, req) == e.owner = <<>> /\ e.provider = req.name

\* One entry after the save; <<>> when its row no longer names a service.
KeepEntry(block, e, req) ==
  LET keep(svc) == CASE ~Managed(e, req) \/ e.service \in svc -> block
                     [] Managed(e, req) /\ svc = {} -> <<>>
                     [] OTHER -> Upsert(block, "service", <<CHOOSE v \in svc : TRUE>>)
  IN keep({w[2] : w \in {w \in Wanted(req) : w[1] = e.account}})

NewEntries(req, have) ==
  FoldLeft(LAMBDA acc, row :
             IF row.svc = "" \/ row.name \in have THEN acc
             ELSE acc \o <<Hdr(OAuthPath, TRUE), KV("provider", <<req.name>>),
                           KV("account", <<row.name>>), KV("service", <<row.svc>>)>>,
           <<>>, req.accts)

\* An entry someone borrows may not be dropped.
Borrowed(s, req) ==
  LET lent(entries) ==
        \E e \in entries, o \in entries :
          /\ Managed(e, req) /\ ~\E w \in Wanted(req) : w[1] = e.account
          /\ o.owner = <<e.provider, e.account>>
  IN lent({OAuthEntry(Block(s, b)) : b \in ToSet(ScanBlocks(s, OAuthPath, TRUE))})

\* spliceOAuthAccounts: entries are kept, rewritten or dropped in place, and
\* new ones go after whatever entry precedes the provider's first one.
SpliceOAuth(s, req) ==
  LET keep(acc, b, e, mine) ==
        [out |-> acc.out \o Cut(s, acc.last, b[1]) \o KeepEntry(Block(s, b), e, req),
         last |-> b[2],
         at |-> IF mine /\ acc.at = 0 THEN Len(acc.out) + 1 ELSE acc.at,
         have |-> IF mine THEN acc.have \cup {e.account} ELSE acc.have]
      entry(acc, b, e) == keep(acc, b, e, Managed(e, req))
      put(out, at, new) == CASE new = <<>> -> out
                             [] new # <<>> /\ at > 0 -> PutAt(out, at, <<Blank>> \o new)
                             [] OTHER -> Added(out, new)
      close(end) == put(end.out \o Cut(s, end.last, Len(s) + 1), end.at, NewEntries(req, end.have))
  IN close(FoldLeft(LAMBDA acc, b : entry(acc, b, OAuthEntry(Block(s, b))),
                    [out |-> <<>>, last |-> 1, at |-> 0, have |-> {}], ScanBlocks(s, OAuthPath, TRUE)))

-----------------------------------------------------------------------------
\* What a file means, read as TOML: a key belongs to the last header above it,
\* a sub-table to the last table of its kind.

KeyLines(s, h) == {i \in h + 1 .. Len(s) : /\ s[i].c = 0 /\ s[i].key # ""
                                          /\ \A j \in h + 1 .. i : ~Header(s[j])}
Keys(s, h) == {<<s[i].key, s[i].val>> : i \in KeyLines(s, h)}
Get(keys, key) == LET any(kvs) == IF kvs = {} THEN <<>> ELSE (CHOOSE kv \in kvs : TRUE)[2]
                  IN any({kv \in keys : kv[1] = key})

\* The tables of a file, each with its place, its header and its keys.
Toml(s) == {[at |-> h, path |-> s[h].path, keys |-> Keys(s, h)] : h \in {i \in DOMAIN s : Header(s[i])}}
At(T, path) == {x \in T : x.path = path}
Entries(T, path) == {x.keys : x \in At(T, path)}

\* A provider: its own keys, its accounts and its other sub-tables.
Provider(T, p) ==
  LET owns(mine) ==
        [own |-> p.keys, rows |-> Cardinality(At(mine, AcctPath)), accts |-> Entries(mine, AcctPath),
         extra |-> {<<x.path, x.keys>> : x \in {x \in mine : x.path \notin {AcctPath, <<"providers">>}}}]
  IN owns({x \in T : /\ x.path[1] = "providers" /\ x.at > p.at
                     /\ ~\E q \in At(T, <<"providers">>) : p.at < q.at /\ q.at < x.at})

Providers(T) == {Provider(T, p) : p \in At(T, <<"providers">>)}
NameOf(p) == One(Get(p.own, "name"))
Names(T) == {One(Get(keys, "name")) : keys \in Entries(T, <<"providers">>)}
ProviderOf(T, name) == CHOOSE p \in Providers(T) : NameOf(p) = name
ClientKeys(T) == UNION {ToSet(Get(k, "keys")) : k \in Entries(T, <<"auth">>)}
                 \cup {One(Get(k, "key")) : k \in Entries(T, <<"auth", "keys">>)}
Notes(s) == [t \in {l.val : l \in {l \in ToSet(s) : l.key = "" /\ l.val # <<>>}} |->
               Cardinality({i \in DOMAIN s : s[i].key = "" /\ s[i].val = t})]

Without(keys, names) == {kv \in keys : kv[1] \notin names}

\* Every header and key stands once where TOML wants it once.
Parses(s, T) ==
  /\ \A i \in DOMAIN s : s[i].c = 0 => s[i].key # "" \/ s[i].path # <<>> \/ IsBlank(s[i])
  /\ \A h \in {0} \cup {x.at : x \in T} :
       \A i, j \in KeyLines(s, h) : s[i].key = s[j].key => i = j
  /\ \A x, y \in T : x.path = y.path /\ x.at # y.at => s[x.at].dbl \/ x.path[1] = "providers"

\* As many tables of a kind as values of what tells them apart.
Distinct(T, path, Id(_)) == Cardinality({Id(k) : k \in Entries(T, path)}) = Cardinality(At(T, path))

\* Validate, of a file with these providers' names and a proxy pool or none.
ValidProvider(p, pool) ==
  /\ p.accts # {} \/ (\E kv \in p.own : kv[1] \in {"api_key", "keys"}) \/ Get(p.own, "kind") = <<"free">>
  /\ Cardinality({Get(a, "name") : a \in p.accts}) = p.rows
  /\ Get(p.own, "proxy") = <<"true">> => pool
Lender(k, owner) == Get(k, "owner") = <<>> /\ <<One(Get(k, "provider")), One(Get(k, "account"))>> = owner
ValidOAuth(entries, names) ==
  \A e \in entries : /\ One(Get(e, "provider")) \in names
                     /\ Get(e, "owner") # <<>> => \E o \in entries : Lender(o, Get(e, "owner"))
Valid(T, names, pool) ==
  /\ "" \notin names /\ Distinct(T, <<"providers">>, LAMBDA k : Get(k, "name"))
  /\ \A p \in Providers(T) : ValidProvider(p, pool)
  /\ Distinct(T, <<"combo">>, LAMBDA k : Get(k, "name"))
  /\ ValidOAuth(Entries(T, OAuthPath), names)
  /\ Distinct(T, OAuthPath, LAMBDA k : <<Get(k, "provider"), Get(k, "account")>>)
  /\ (\E k \in Entries(T, <<"auth">>) : Get(k, "keys") # <<>>) => At(T, <<"auth", "keys">>) = {}
  /\ \A k \in Entries(T, <<"aliases">>) : \A kv \in k : One(kv[2]) \in names

\* Load: it parses, and Validate accepts it.
Loads(s) ==
  LET reads(T) == Parses(s, T) /\ Valid(T, Names(T), \E k \in Entries(T, <<"proxy">>) : Get(k, "urls") # <<>>)
  IN reads(Toml(s))

-----------------------------------------------------------------------------
\* The edits.  Each yields the new lines, or none when it is refused.

Nothing == <<>>

Chosen(blocks) == IF blocks = <<>> THEN Nothing ELSE blocks[1]

\* spliceProvider: the block in place, or a new one at the end.
SpliceProvider(s, req) ==
  LET roster(out) == CASE ~req.roster -> out
                       [] req.roster /\ Borrowed(out, req) -> Nothing
                       [] OTHER -> SpliceOAuth(out, req)
      save(b, old) == CASE Stranded(req, old) -> Nothing
                        [] ~Stranded(req, old) /\ b = Nothing -> Added(s, NewProviderBlock(req))
                        [] OTHER -> Replaced(s, b, EditProviderBlock(Block(s, b), req, old))
      entries(out) == IF out = Nothing THEN Nothing ELSE roster(out)
      block(b) == entries(save(b, IF b = Nothing THEN <<>> ELSE ParseAccounts(Block(s, b))))
  IN block(Chosen(Named(s, <<"providers">>, req.name)))

\* The service an account's login is for; "" if it has none.
Service(entries, name, account) ==
  LET login(e) == CASE e = {} -> ""
                    [] \E k \in e : Get(k, "service") # <<>> -> One(Get(CHOOSE k \in e : TRUE, "service"))
                    [] OTHER -> name
  IN login({k \in entries : Get(k, "provider") = <<name>> /\ Get(k, "account") = <<account>>})

\* providerEditReqFromConfig: the live provider as an editor's request.
Request(T, name) ==
  LET row(account, key) == [name |-> account, key |-> key, off |-> "keep", svc |-> Service(Entries(T, OAuthPath), name, account)]
      roster(p, tables, key, keys) ==
        CASE tables # <<>> -> [i \in DOMAIN tables |-> <<One(Get(tables[i].keys, "name")), One(Get(tables[i].keys, "api_key"))>>]
          [] tables = <<>> /\ keys # <<>> -> [i \in DOMAIN keys |-> <<LegacyName(i), keys[i]>>]
          [] OTHER -> <<<<"default", One(key)>>>>
      filled(p, accts) ==
        [op |-> "provider", name |-> name, kind |-> One(Get(p.own, "kind")), models |-> Get(p.own, "models"), key |-> "",
         proxy |-> IF Get(p.own, "proxy") = <<"true">> THEN "on" ELSE "off",
         roster |-> \E i \in DOMAIN accts : accts[i].key # "" \/ accts[i].svc # "" \/ p.accts # {},
         accts |-> accts]
      tables(p) == SetToSortSeq({x \in At(T, AcctPath) : x.keys \in p.accts}, LAMBDA x, y : x.at < y.at)
      live(p) == filled(p, Map(roster(p, tables(p), Get(p.own, "api_key"), Get(p.own, "keys")), LAMBDA r : row(r[1], r[2])))
  IN live(ProviderOf(T, name))

\* applyKeyOps: set one account's key, or drop it (key ""); a row that signs in
\* is kept.
KeyRow(req, e) ==
  LET set(row) == IF row.name = e.account /\ e.key # "" THEN [row EXCEPT !.key = e.key] ELSE row
      new == IF e.key = "" \/ \E i \in DOMAIN req.accts : req.accts[i].name = e.account THEN <<>>
             ELSE <<[name |-> e.account, key |-> e.key, off |-> "keep", svc |-> ""]>>
      keep(row) == row.name # e.account \/ e.key # "" \/ row.svc # ""
  IN [req EXCEPT !.roster = TRUE, !.accts = SelectSeq(Map(@, set), keep) \o new]

\* The request that a key row edit, or pinModels, hands to spliceProvider;
\* op "none" when it is refused before that.
Filled(T, e) ==
  LET live(req) == IF e.op = "pin" THEN [req EXCEPT !.models = e.models] ELSE KeyRow(req, e)
      whole(req) == IF req.accts = <<>> THEN NoEdit ELSE req
  IN CASE e.op = "provider" -> e
       [] e.op # "provider" /\ e.name \notin Names(T) -> NoEdit
       [] OTHER -> whole(live(Request(T, e.name)))

SpliceFilled(s, req) == IF req = NoEdit THEN Nothing ELSE SpliceProvider(s, req)

\* spliceCombo; refuseUnknownComboTargets looks at providers in the file.
SpliceCombo(s, e) ==
  LET fields(block) == SetScalar(Upsert(block, "targets", e.targets), "strategy", e.strategy)
      put(b) == IF b = Nothing THEN Added(s, fields(<<Hdr(<<"combo">>, TRUE), KV("name", <<e.name>>)>>))
                ELSE Replaced(s, b, fields(Block(s, b)))
  IN IF \E i \in DOMAIN e.targets : Named(s, <<"providers">>, e.targets[i]) = <<>> THEN Nothing
     ELSE put(Chosen(Named(s, <<"combo">>, e.name)))

\* spliceProviderComment, off: every line of the block goes behind a '#'.
CommentOut(s, name) ==
  LET hide(found) ==
        IF found = <<>> THEN Nothing
        ELSE [i \in DOMAIN s |-> IF \E k \in DOMAIN found : found[k][1] <= i /\ i < found[k][2]
                                 THEN [s[i] EXCEPT !.c = @ + 1] ELSE s[i]]
  IN hide(Named(s, <<"providers">>, name))

\* on: the commented block runs as far as the comments do.
Commented(l, path) == l.c = 1 /\ l.path = path /\ l.dbl
RunEnd(s, i) == Least({j \in DOMAIN s : j > i /\ s[j].c = 0}, Len(s) + 1)
RunName(s, i) ==
  One(ValueAt(s, Least({j \in i + 1 .. RunEnd(s, i) - 1 : s[j].c = 1 /\ s[j].key = "name"}, 0)))
\* Headers found inside an earlier run are not looked at.
RunStarts(s, path) == {i \in DOMAIN s : Commented(s[i], path) /\ \A j \in 1 .. i - 1 : Commented(s[j], path) => RunEnd(s, j) <= i}
Uncomment(s, name) ==
  LET show(runs) == [i \in DOMAIN s |-> IF \E r \in runs : r <= i /\ i < RunEnd(s, r) THEN [s[i] EXCEPT !.c = @ - 1] ELSE s[i]]
  IN show({i \in RunStarts(s, <<"providers">>) : RunName(s, i) = name} \cup RunStarts(s, <<"combo">>))

\* The first disabled line of each block goes, blocks being those found before
\* any line went; past the end of the shortened file the loop panics.
Parked(l) == l.c = 0 /\ l.key = "disabled" /\ l.val = <<"true">>
DropParked(s) ==
  LET drop(acc, b, at) == IF at # {} THEN [acc EXCEPT !.out = RemoveAt(@, Min(at))]
                          ELSE [acc EXCEPT !.panic = @ \/ b[2] - 1 > Len(acc.out)]
  IN FoldLeft(LAMBDA acc, b : drop(acc, b, {i \in b[1] .. b[2] - 1 : i <= Len(acc.out) /\ Parked(acc.out[i])}),
              [out |-> s, panic |-> FALSE], ScanBlocks(s, <<"providers">>, TRUE))

\* spliceAliases: one name set (or, target <<>>, deleted).
SpliceAlias(s, e) ==
  LET end(sec) == IF sec[2] = Len(s) + 1 /\ s[Len(s)] = Blank THEN Len(s) ELSE sec[2]
      set(sec, at) ==
        CASE at # 0 -> IF e.target = <<>> THEN RemoveAt(s, at) ELSE [s EXCEPT ![at] = KV(e.name, e.target)]
          [] at = 0 /\ e.target = <<>> -> s
          [] at = 0 /\ e.target # <<>> /\ sec[1] # 0 -> InsertAt(s, end(sec), KV(e.name, e.target))
          [] OTHER -> s \o <<Blank, Hdr(<<"aliases">>, FALSE), KV(e.name, e.target)>>
      section(sec) == set(sec, Max({0} \cup Within(s, sec, LAMBDA l : Sets(l, e.name))))
  IN section(FindSection(s, "aliases"))

\* spliceAuthKeys: one client key added or removed, in the shape the file has.
ListedKeys(old, e) ==
  CASE ~e.add -> SelectSeq(old, LAMBDA k : k # e.key)
    [] e.add /\ e.key \in ToSet(old) -> old
    [] OTHER -> Append(old, e.key)
\* keys = [..] at line flat; 0 if there is none.
AuthList(s, flat, at, tables, e) ==
  LET put(old, new) == CASE flat = 0 -> InsertAt(s, at, KV("keys", new))
                         [] flat # 0 /\ (tables # {} \/ (new = <<>> /\ old # <<>>)) -> Nothing
                         [] OTHER -> [s EXCEPT ![flat] = KV("keys", new)]
  IN put(ValueAt(s, flat), ListedKeys(ValueAt(s, flat), e))
\* [[auth.keys]]: tables, and those of this key.
AuthTables(s, tables, mine, e) ==
  CASE e.add /\ mine = {} ->
         PutAt(s, Max({t[2] : t \in tables}), <<Blank, Hdr(<<"auth", "keys">>, TRUE), KV("key", <<e.key>>)>>)
    [] ~e.add /\ tables = mine -> Nothing
    [] ~e.add /\ tables # mine /\ mine # {} -> Replaced(s, CHOOSE t \in mine : \A u \in mine : t[1] <= u[1], <<>>)
    [] OTHER -> s
SpliceAuth(s, e) ==
  LET holds(t) == \E j \in t[1] + 1 .. t[2] - 1 : Sets(s[j], "key") /\ s[j].val = <<e.key>>
      shape(sec, flat, tables) ==
        CASE sec[1] = 0 -> s \o <<Blank, Hdr(<<"auth">>, FALSE), KV("keys", ListedKeys(<<>>, e)), Blank>>
          [] sec[1] # 0 /\ flat = 0 /\ tables # {} -> AuthTables(s, tables, {t \in tables : holds(t)}, e)
          [] OTHER -> AuthList(s, flat, sec[2], tables, e)
      section(sec) ==
        shape(sec, Least(Within(s, sec, LAMBDA l : Sets(l, "keys")), 0),
              {<<i, Least({j \in i + 1 .. sec[2] - 1 : Header(s[j])}, sec[2])>> :
                 i \in Within(s, sec, LAMBDA l : Header(l) /\ l.path = <<"auth", "keys">>)})
  IN section(FindSection(s, "auth"))

\* handleAdminProxiesPut: the pool's table, and each named provider's opt-in.
SplicePool(s, e) ==
  LET table == IF e.urls = <<>> THEN <<>> ELSE <<Hdr(<<"proxy">>, FALSE), KV("urls", e.urls)>>
      put(sec) == CASE sec[1] # 0 -> Replaced(s, sec, table)
                    [] sec[1] = 0 /\ e.urls = <<>> -> s
                    [] OTHER -> Added(s, table)
      opt(pool, b) == IF b = Nothing THEN Nothing ELSE Replaced(pool, b, WithProxy(Block(pool, b), IF e.on THEN "on" ELSE "off"))
      named(pool) == IF e.name = "" THEN pool ELSE opt(pool, Chosen(Named(pool, <<"providers">>, e.name)))
  IN named(put(FindSection(s, "proxy")))

\* spliceSectionEdits: one key of one section.
SpliceSection(s, e) ==
  LET put(b) == IF b # Nothing THEN Replaced(s, b, SetScalar(Block(s, b), e.key, e.val))
                ELSE s \o (IF s[Len(s)] = Blank THEN <<>> ELSE <<Blank>>) \o <<Hdr(e.path, FALSE)>>
                     \o (IF e.val = <<>> THEN <<>> ELSE <<KV(e.key, e.val)>>)
  IN put(Chosen(ScanBlocks(s, e.path, FALSE)))

\* spliceAdminPassword: in [server], opened at the top of a file without one.
SplicePassword(s, e) ==
  LET line == KV("admin_password", e.val)
      set(b, at) == IF at # 0 THEN [s EXCEPT ![b[1] + at - 1] = line] ELSE InsertAt(s, b[1] + 1, line)
      put(b) == IF b = Nothing THEN <<Hdr(<<"server">>, FALSE), line, Blank>> \o s ELSE set(b, KeyAt(Block(s, b), "admin_password"))
  IN put(Chosen(ScanBlocks(s, <<"server">>, FALSE)))

Splice(s, e) ==
  CASE e.op \in {"provider", "keyrow", "pin"} -> SpliceFilled(s, Filled(Toml(s), e))
    [] e.op = "combo" -> SpliceCombo(s, e)
    [] e.op = "disable" -> CommentOut(s, e.name)
    [] e.op = "alias" -> SpliceAlias(s, e)
    [] e.op = "auth" -> SpliceAuth(s, e)
    [] e.op = "pool" -> SplicePool(s, e)
    [] e.op = "section" -> SpliceSection(s, e)
    [] e.op = "password" -> SplicePassword(s, e)

\* What an edit makes of the file: its lines, or a panic on the way.
Made(s, e) == IF e.op = "enable" THEN DropParked(Uncomment(s, e.name)) ELSE [out |-> Splice(s, e), panic |-> FALSE]

-----------------------------------------------------------------------------
Init == file \in Files /\ asked = NoEdit /\ edits = 0 /\ answer = "ok"

Asks(e) == edits < MaxEdits /\ edits' = edits + 1 /\ asked' = e

\* What the edit makes of the file, and whether that may be written.
Outcome(e) ==
  LET judge(made) == [new |-> made.out, panic |-> made.panic, ok |-> ~made.panic /\ made.out # Nothing /\ Loads(made.out)]
  IN judge(Made(file, e))

\* The edited file loads: it is written.
Accept(e, out) == Asks(e) /\ out.ok /\ file' = out.new /\ answer' = "ok"

\* It does not, or the edit is refused: nothing is written.
Refuse(e, out) == Asks(e) /\ ~out.ok /\ ~out.panic /\ answer' = "refused" /\ UNCHANGED file

\* The handler panics; the lock is released and nothing is written.
Panic(e, out) == Asks(e) /\ out.panic /\ answer' = "panic" /\ UNCHANGED file

Next == \E e \in Edits : \E out \in {Outcome(e)} : Accept(e, out) \/ Refuse(e, out) \/ Panic(e, out)

Spec == Init /\ [][Next]_vars

-----------------------------------------------------------------------------
\* What the requests mean, told on the meaning of the file.

Parts == {<<"combo">>, OAuthPath, <<"aliases">>, <<"proxy">>, <<"server">>}
SameBut(T, U, parts) == \A path \in Parts \ parts : Entries(T, path) = Entries(U, path)
KeysKept(T, U) == ClientKeys(T) = ClientKeys(U)
OthersKept(T, U, name) == {p \in Providers(T) : NameOf(p) # name} = {p \in Providers(U) : NameOf(p) # name}

AcctKeys(a) ==
  {<<"name", <<a.name>>>>} \cup (IF a.key = "" THEN {} ELSE {<<"api_key", <<a.key>>>>})
  \cup (IF a.weight = <<>> THEN {} ELSE {<<"weight", a.weight>>})
  \cup (IF a.off THEN {<<"disabled", <<"true">>>>} ELSE {})

\* The keys of the account a row asks for: the key given, else the one it had
\* in a table or as a legacy credential, with the weight and the parking the
\* form does not show.
Legacy(own, name) ==
  LET nth(keys) == {keys[n] : n \in {n \in DOMAIN keys : LegacyName(n) = name}}
      listed(ks) == IF ks = {} THEN "" ELSE CHOOSE k \in ks : TRUE
  IN IF name = "default" THEN One(Get(own, "api_key")) ELSE listed(nth(Get(own, "keys")))
Asked(p, row) ==
  LET asks(had, was) ==
        AcctKeys([name |-> row.name, weight |-> Get(was, "weight"),
                  key |-> CASE row.key # "" -> row.key
                            [] row.key = "" /\ had -> One(Get(was, "api_key"))
                            [] OTHER -> Legacy(p.own, row.name),
                  off |-> row.off = "on" \/ (row.off = "keep" /\ Get(was, "disabled") = <<"true">>)])
      named(as) == asks(as # {}, UNION as)
  IN named({a \in p.accts : Get(a, "name") = <<row.name>>})

KeysHeld(p) == ToSet(Get(p.own, "keys")) \cup ToSet(Get(p.own, "api_key")) \cup {One(Get(a, "api_key")) : a \in p.accts}
FormKeys == {"kind", "models", "proxy", "api_key", "keys"}

\* The roster on the form takes effect: p becomes q.  A credential goes only
\* with its row, or for the one given in its place.
RosterSaved(p, q, e) ==
  /\ q.accts = {Asked(p, e.accts[i]) : i \in DOMAIN e.accts}
  /\ Without(q.own, FormKeys) = Without(p.own \cup UNION {Without(a, AcctFields) : a \in p.accts}, FormKeys)
  /\ \A k \in KeysHeld(p) \ KeysHeld(q) :
       \/ \E a \in p.accts : One(Get(a, "api_key")) = k
       \/ \E i \in DOMAIN e.accts : e.accts[i].key \notin {"", k}
       \/ e.key \notin {"", k}

\* So do its logins, and nobody else's change.
Own(o, name) == Get(o, "provider") = <<name>> /\ Get(o, "owner") = <<>>
LoginsSaved(T, U, e) ==
  /\ {<<One(Get(o, "account")), One(Get(o, "service"))>> : o \in {o \in U : Own(o, e.name)}} = Wanted(e)
  /\ {o \in T : ~Own(o, e.name)} \subseteq U

\* Saving a provider: the form's fields and roster take effect, a key left
\* blank keeps what was there, and nothing else of the block is lost.
FieldsSaved(p, q, e) ==
  /\ Get(q.own, "kind") = <<e.kind>> /\ Get(q.own, "models") = e.models /\ q.extra = p.extra
  /\ e.proxy # "keep" => (Get(q.own, "proxy") = <<"true">>) = (e.proxy = "on")
  /\ IF e.roster THEN RosterSaved(p, q, e)
     ELSE q.accts = p.accts /\ Without(q.own, FormKeys) = Without(p.own, FormKeys)
Fresh(name) == [own |-> {<<"name", <<name>>>>}, rows |-> 0, accts |-> {}, extra |-> {}]
ProviderSaved(T, U, e) ==
  /\ FieldsSaved(IF e.name \in Names(T) THEN ProviderOf(T, e.name) ELSE Fresh(e.name), ProviderOf(U, e.name), e)
  /\ IF e.roster THEN LoginsSaved(Entries(T, OAuthPath), Entries(U, OAuthPath), e) ELSE SameBut(T, U, Parts \ {OAuthPath})

\* A key row: the key is set, and the other accounts keep theirs.
RowSaved(p, q, e) ==
  LET rest(x) == {a \in x.accts : Get(a, "name") # <<e.account>>}
  IN /\ e.key # "" => \E a \in q.accts : Get(a, "name") = <<e.account>> /\ Get(a, "api_key") = <<e.key>>
     /\ p.accts # {} => {{kv \in a : kv[1] \in AcctFields} : a \in rest(p)} = rest(q)
     /\ q.extra = p.extra

Pinned(p, q, e) == Get(q.own, "models") = e.models /\ KeysHeld(q) = KeysHeld(p)

ComboSaved(old, new, e) ==
  /\ {c \in old : Get(c, "name") # <<e.name>>} = {c \in new : Get(c, "name") # <<e.name>>}
  /\ \E c \in new : Get(c, "name") = <<e.name>> /\ Get(c, "targets") = e.targets /\ Get(c, "strategy") = e.strategy

\* What each kind of edit asks for, told on the meaning of the file before
\* and after; off names the providers that were switched off.
Obeyed(T, U, e, off) ==
  CASE e.op = "provider" -> ProviderSaved(T, U, e)
    [] e.op = "keyrow" -> RowSaved(ProviderOf(T, e.name), ProviderOf(U, e.name), e)
    [] e.op = "pin" -> Pinned(ProviderOf(T, e.name), ProviderOf(U, e.name), e)
    [] e.op = "combo" -> ComboSaved(Entries(T, <<"combo">>), Entries(U, <<"combo">>), e)
    [] e.op = "disable" -> e.name \notin Names(U)
    [] e.op = "enable" -> Names(U) = Names(T) \cup ({e.name} \cap off)
    [] e.op = "alias" ->
         UNION Entries(U, <<"aliases">>) =
           Without(UNION Entries(T, <<"aliases">>), {e.name}) \cup (IF e.target = <<>> THEN {} ELSE {<<e.name, e.target>>})
    [] e.op = "auth" -> ClientKeys(U) = IF e.add THEN ClientKeys(T) \cup {e.key} ELSE ClientKeys(T) \ {e.key}
    [] e.op = "pool" -> UNION {ToSet(Get(k, "urls")) : k \in Entries(U, <<"proxy">>)} = ToSet(e.urls)
    [] OTHER ->
         LET set(old, new) == Without(new, {e.key}) = Without(old, {e.key}) /\ Get(new, e.key) = e.val
         IN set(UNION Entries(T, <<"server">>), UNION Entries(U, <<"server">>))

\* The parts of the file, and the provider, an edit is about.
Touches(e) ==
  CASE e.op = "provider" -> {OAuthPath}
    [] e.op \in {"combo", "enable"} -> {<<"combo">>}
    [] e.op = "alias" -> {<<"aliases">>}
    [] e.op = "pool" -> {<<"proxy">>}
    [] e.op \in {"section", "password"} -> {<<"server">>}
    [] OTHER -> {}
About(e) == IF e.op \in {"provider", "keyrow", "pin", "disable", "enable", "pool"} THEN e.name ELSE ""

Meant(T, U, e, off) ==
  /\ Obeyed(T, U, e, off)
  /\ SameBut(T, U, Touches(e)) /\ OthersKept(T, U, About(e))
  /\ e.op # "auth" => KeysKept(T, U)

\* The plain table of a name is not followed by tables of another kind before
\* the next plain one.
Closed(s, name) == Within(s, FindSection(s, name), LAMBDA l : Header(l) /\ l.path[1] # name) = {}

\* The provider stands alone behind its '#', and nothing else is parked.
Alone(s) ==
  /\ \A i \in DOMAIN s : ~Parked(s[i])
  /\ \A r \in UNION {RunStarts(s, path) : path \in {<<"providers">>, <<"combo">>}} :
       \A j \in r + 1 .. RunEnd(s, r) - 1 : s[j].c # 1 \/ s[j].path \in {<<>>, AcctPath}
SectionOf(e) == CASE e.op = "alias" -> "aliases" [] e.op = "pool" -> "proxy" [] OTHER -> e.op
Straight(s, e) ==
  /\ e.op = "enable" => Alone(s)
  /\ e.op \in {"alias", "auth", "pool"} => Closed(s, SectionOf(e))

OffNames(s) == {RunName(s, r) : r \in RunStarts(s, <<"providers">>)}

\* Every edit the dashboard acknowledges does to the configuration what it was
\* asked to do, and nothing else: other providers, accounts, client keys,
\* combos, aliases and hand-written keys mean after it what they meant before,
\* whatever edits came first.  (Straight leaves out the layouts in which
\* findSection, and the re-enabling of a provider, reach too far.)
EditsMean == [][answer' = "ok" /\ asked' # NoEdit /\ Straight(file, asked')
                  => Meant(Toml(file), Toml(file'), asked', OffNames(file))]_vars

\* A table goes with the edit: the pool's, which is written anew, a login no
\* row names any more, a removed client key's.
Same(x, y, keys) == \A key \in keys : Get(x.keys, key) = Get(y.keys, key)
Goes(x, U, e) ==
  \/ x.path = <<"proxy">> /\ e.op = "pool"
  \/ x.path = OAuthPath /\ ~\E y \in At(U, x.path) : Same(x, y, {"provider", "account"})
  \/ x.path = <<"auth", "keys">> /\ ~\E y \in At(U, x.path) : Same(x, y, {"key"})

\* The lines such tables take along, each down to the next header.
GoneLines(s, T, U, e) ==
  UNION {h .. Least({j \in h + 1 .. Len(s) : Header(s[j])}, Len(s) + 1) - 1 :
           h \in {x.at : x \in {x \in T : Goes(x, U, e)}}}

\* An edit loses a comment of the operator only with a table it drops.  The
\* lines down to the next header go with such a table, so what was written
\* above that header does too; every other comment on a line of its own stays,
\* whatever becomes of the lines around it.
NotesKept ==
  [][(answer' = "ok" /\ (asked'.op = "pool" => Closed(file, "proxy")))
       => \A gone \in {GoneLines(file, Toml(file), Toml(file'), asked')} :
            Notes(file') = Notes(Pick(file, LAMBDA i : i \notin gone))]_vars

\* "Re-enable just restores the provider block": a provider that was switched
\* off can be switched on again.
EnableEnables ==
  [][asked'.op = "enable" /\ (\E i \in DOMAIN file : Commented(file[i], <<"providers">>) /\ RunName(file, i) = asked'.name)
     => asked'.name \in Names(file')]_vars

\* "Every other line is returned untouched": setting an alias changes nothing
\* but the aliases.
AliasStays ==
  [][asked'.op = "alias" /\ answer' = "ok" => Meant(Toml(file), Toml(file'), asked', {})]_vars
=============================================================================
