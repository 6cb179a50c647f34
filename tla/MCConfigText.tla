----------------------------- MODULE MCConfigText -----------------------------
\* ConfigText on three hand-written files and a request of every kind.
EXTENDS ConfigText

P(name) == <<Hdr(<<"providers">>, TRUE), KV("name", <<name>>), KV("kind", <<"openai">>)>>
Acct(name, key) == <<Hdr(AcctPath, TRUE), KV("name", <<name>>), KV("api_key", <<key>>)>>
Rest == <<Hdr(<<"combo">>, TRUE), KV("name", <<"c">>), KV("targets", <<"p1", "p2">>), Note("combos"),
          Hdr(<<"aliases">>, FALSE), KV("fast", <<"p1">>)>>
OAuth(p, a, more) == <<Hdr(OAuthPath, TRUE), KV("provider", <<p>>), KV("account", <<a>>)>> \o more

\* Accounts in tables, a provider key and a comment written below them, a
\* sub-table, a legacy provider, client keys in one line, a borrowed login.
Tabled ==
  <<Note("head"), Hdr(<<"server">>, FALSE), KV("admin_password", <<"old">>), Blank>>
  \o P("p1") \o <<Note("ours"), KV("models", <<"m1">>)>>
  \o Acct("a", "ka") \o <<KV("weight", <<"2">>), Note("a's"), KV("thinking", <<"true">>)>>
  \o Acct("b", "kb") \o <<KV("disabled", <<"true">>), Hdr(<<"providers", "extra">>, FALSE), KV("h", <<"v">>)>>
  \o P("p2") \o <<KV("api_key", <<"k0">>), KV("keys", <<"k1", "k2">>), Blank>>
  \o OAuth("p2", "sub", <<KV("service", <<"xai">>)>>) \o OAuth("p1", "b", <<KV("owner", <<"p2", "sub">>)>>)
  \o <<Hdr(<<"auth">>, FALSE), KV("keys", <<"u1">>)>> \o Rest

\* Nothing parked; client keys in tables, with comments; a pool.
Pooled ==
  <<Hdr(<<"proxy">>, FALSE), KV("urls", <<"x">>), Note("pool"), Hdr(<<"auth">>, FALSE)>>
  \o <<Hdr(<<"auth", "keys">>, TRUE), KV("key", <<"u1">>), Note("u1's"), Hdr(<<"auth", "keys">>, TRUE), KV("key", <<"u2">>), Note("server")>>
  \o <<Hdr(<<"server">>, FALSE)>>
  \o P("p1") \o <<KV("keys", <<"k1">>), KV("proxy", <<"true">>)>> \o P("p2") \o Acct("a", "ka") \o <<Note("p2's")>> \o Rest

\* An account parked by hand, a login with comments nobody borrows; the providers
\* last, as the dashboard adds them.
Parking ==
  <<Hdr(<<"auth">>, FALSE), KV("keys", <<"u1">>), Hdr(<<"combo">>, TRUE), KV("name", <<"c">>), KV("targets", <<"p1">>)>>
  \o P("p1") \o Acct("a", "ka") \o Acct("b", "kb") \o <<KV("disabled", <<"true">>)>>
  \o OAuth("p1", "a", <<KV("service", <<"xai">>), Note("login"), Blank, Note("p2")>>)
  \o P("p2") \o Acct("a", "kd") \o <<Note("p2's")>>

MCFiles == {Tabled, Pooled, Parking}

Row(name, key, off, svc) == [name |-> name, key |-> key, off |-> off, svc |-> svc]
Save(name, key, models, proxy, roster, accts) ==
  [op |-> "provider", name |-> name, kind |-> "openai", models |-> models, key |-> key, proxy |-> proxy, roster |-> roster, accts |-> accts]
MCEdits ==
  {Save("p1", "", <<>>, "keep", TRUE, <<Row("a", "", "keep", ""), Row("b", "", "keep", "")>>),
   Save("p1", "", <<"m2">>, "on", TRUE, <<Row("b", "kc", "off", "xai")>>),
   Save("p2", "", <<"m2">>, "off", TRUE, <<Row("default", "", "keep", ""), Row("key-1", "", "keep", ""), Row("sub", "", "keep", "xai")>>),
   Save("p2", "kn", <<>>, "keep", FALSE, <<>>),
   Save("p2", "", <<>>, "keep", TRUE, <<Row("new", "", "keep", "")>>),
   Save("p3", "k3", <<>>, "keep", FALSE, <<>>),
   [op |-> "keyrow", name |-> "p1", account |-> "a", key |-> "kn"],
   [op |-> "keyrow", name |-> "p2", account |-> "key-1", key |-> ""],
   [op |-> "pin", name |-> "p2", models |-> <<"m3">>],
   [op |-> "combo", name |-> "c", targets |-> <<"p2">>, strategy |-> <<"order">>],
   [op |-> "combo", name |-> "d", targets |-> <<"p3">>, strategy |-> <<>>],
   [op |-> "alias", name |-> "fast", target |-> <<"p2">>],
   [op |-> "alias", name |-> "slow", target |-> <<"p2">>],
   [op |-> "alias", name |-> "fast", target |-> <<>>],
   [op |-> "auth", key |-> "u1", add |-> FALSE],
   [op |-> "auth", key |-> "u3", add |-> TRUE],
   [op |-> "pool", urls |-> <<>>, name |-> "", on |-> FALSE],
   [op |-> "pool", urls |-> <<"y">>, name |-> "p1", on |-> TRUE],
   [op |-> "section", path |-> <<"server">>, key |-> "task_routing", val |-> <<"on">>],
   [op |-> "password", key |-> "admin_password", val |-> <<"new">>]}
  \cup [op : {"disable", "enable"}, name : {"p1", "p2"}]
=============================================================================
