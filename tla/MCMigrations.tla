---------------------------- MODULE MCMigrations ----------------------------
(* Databases for Migrations.  Contract 1 is known unless said otherwise.      *)
EXTENDS Migrations, SequencesExt

Attr(key, text) == [key |-> key, text |-> text]
Event(wasm, attrs) == [wasm |-> wasm, attrs |-> attrs]
Transfer == Event(FALSE, <<Attr("recipient", "a"), Attr("amount", "1")>>)
Apostrophe == Event(FALSE, <<Attr("memo", Quote)>>)
Bare == Event(FALSE, <<>>)
Other == Event(TRUE, <<Attr("_contract_address", "c1"), Attr("action", "transfer")>>)
Reg(agent) ==
  Event(TRUE, <<Attr("_contract_address", "c1"), Attr("action", "register"),
                Attr("agent_address", agent), Attr("record", "r"), Attr("signature", "s"),
                Attr("sequence", "0"), Attr("expiry_height", "9")>>)
Without(ev, i) == [ev EXCEPT !.attrs = RemoveAt(@, i)]
With(ev, i, text) == [ev EXCEPT !.attrs[i].text = text]
Twice(ev, a) == [ev EXCEPT !.attrs = Append(@, a)]

EventLists ==
  { <<>>, <<Transfer>>, <<Apostrophe, Transfer>>, <<Bare>>, <<Transfer, Bare>>,
    <<Transfer, Other, Transfer>>, <<Bare, Transfer, Transfer>>,
    <<Reg("a"), Transfer>>, <<Reg("a"), Reg("b")>>, <<Reg("a"), Reg("a")>>,
    <<Reg("a"), Reg("b"), Reg("c")>>, <<Reg("a"), Transfer, Reg("a")>>,
    <<Without(Reg("a"), 3)>>, <<Without(Reg("a"), 4)>>, <<Without(Reg("a"), 5), Reg("b")>>,
    <<With(Reg("a"), 4, Garbage)>>, <<With(Reg("a"), 6, Garbage)>>, <<With(Reg("a"), 1, "c2")>>,
    <<Twice(Reg("a"), Attr("agent_address", "b")), Reg("c")>>,
    <<Twice(Reg("a"), Attr("action", "register")), Reg("b")>> }

Outdated(evs) ==
  [Initial EXCEPT !.recorded = TRUE, !.events = evs, !.contracts = [c \in {"c1"} |-> 1],
                  !.uses = [@ EXCEPT ![4] = {"c1"}]]
ExpandedAlready(d) ==
  [d EXCEPT !.level = 3, !.attributes = [a \in AttributesOf(d, DOMAIN d.events) |-> Attribute(d, a)],
            !.events = [e \in DOMAIN d.events |-> Event(d.events[e].wasm, <<>>)]]

ManyDatabases ==
  LET outdated == {Outdated(evs) : evs \in EventLists}
      simple   == Outdated(<<Transfer>>)
  IN  outdated \cup {ExpandedAlready(d) : d \in outdated}
      \cup { Initial, [simple EXCEPT !.recorded = FALSE], [simple EXCEPT !.authz = {"m"}],
             [simple EXCEPT !.level = 1, !.authz = {"m"}],
             [simple EXCEPT !.uses = [@ EXCEPT ![7] = {"c2"}]],
             [simple EXCEPT !.contracts = [c \in {"c1"} |-> 0]] }
=============================================================================
