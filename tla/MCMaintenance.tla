--------------------------- MODULE MCMaintenance ---------------------------
(* What deployments do to the database, in small: the tables that follow   *)
(* the definitions (Locales), the data migrations (Migrations), and the    *)
(* rules of a field against every way in, imports among them (Rules).      *)
(* They are checked in one run, but not together: two stand still while    *)
(* the third moves.                                                        *)
EXTENDS Locales, Migrations, Rules, TLC

CONSTANTS en, de, t1, x, y, d1, d2

\* The documents of Rules.
Symmetric == Permutations({d1, d2})

\* Localisation off, with one locale, with two; the field localized or not,
\* required or not, taken out and put back.
Def(locales, title, required, drafts, tags) ==
    [locales |-> locales, title |-> title, required |-> required, drafts |-> drafts,
     tags |-> tags]

SomeDefinitions ==
    {Def({}, "plain", TRUE, FALSE, TRUE), Def({en, de}, "localized", FALSE, TRUE, TRUE),
     Def({en, de}, "plain", FALSE, TRUE, FALSE), Def({en}, "localized", TRUE, FALSE, TRUE),
     Def({en, de}, "absent", FALSE, TRUE, TRUE)}

\* A unique field: in a Group, on top or in a wrapper inside a wrapper; required
\* or not; its column as old as the table or added; with and without drafts.
SomeField(drafts, required, first, default, date, place) ==
    [drafts |-> drafts, required |-> required, first |-> first, default |-> default,
     date |-> date, place |-> place]

SomeFields ==
    {SomeField(TRUE, TRUE, FALSE, x, FALSE, "group"), SomeField(FALSE, TRUE, TRUE, Null, FALSE, "group"),
     SomeField(FALSE, TRUE, FALSE, x, TRUE, "group"), SomeField(TRUE, FALSE, TRUE, x, FALSE, "top"),
     SomeField(FALSE, FALSE, TRUE, x, TRUE, "top"), SomeField(FALSE, FALSE, FALSE, Null, FALSE, "deep")}

VARIABLE part

\* The first of the definitions has localisation off, or two locales, or no such
\* field yet; any may follow.
TablesStart ==
    /\ LocalesInit
    /\ served \in {Def({}, "plain", TRUE, FALSE, TRUE), Def({en, de}, "localized", FALSE, TRUE, TRUE),
                  Def({en, de}, "absent", FALSE, TRUE, TRUE)}
    /\ grouped => served.title = "localized"

\* A column that is added finds the table empty, or one document published and
\* the other a draft, if there are drafts.
RulesStart ==
    RulesInit /\ (Present = {} \/ \A d \in Docs : row[d] # Absent /\ row[d].published = (d = d1 \/ ~ def.drafts))
RulesStill ==
    RulesInit /\ def = SomeField(FALSE, FALSE, FALSE, Null, FALSE, "deep") /\ Present = {}

Init ==
    \/ part = "tables" /\ TablesStart /\ MigrationsInit /\ disk = {} /\ RulesStill
    \/ /\ part \in {"migrations", "rules"} /\ MigrationsInit /\ LocalesInit
       /\ ~ grouped /\ served = Def({}, "plain", TRUE, FALSE, TRUE)
       /\ IF part = "rules" THEN disk = {} /\ RulesStart ELSE RulesStill

Next ==
    \/ part = "tables" /\ LocalesNext /\ UNCHANGED <<migrationVars, rulesVars, part>>
    \/ part = "migrations" /\ MigrationsNext /\ UNCHANGED <<localesVars, rulesVars, part>>
    \/ part = "rules" /\ RulesNext /\ UNCHANGED <<localesVars, migrationVars, part>>

Spec == Init /\ [][Next]_<<localesVars, migrationVars, rulesVars, part>>
=============================================================================
