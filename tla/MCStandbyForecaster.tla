------------------------- MODULE MCStandbyForecaster -------------------------
(* Instances of StandbyForecaster, with BuildAdmission and PodConstruction *)
(* below it, for TLC.                                                      *)
EXTENDS StandbyForecaster

CONSTANTS b1, b2, i1, i2, none

Port(number, name, host) == [number |-> number, name |-> name, host |-> host]

NoEnv == [v \in {} |-> <<>>]

Template(ports, hostNetwork, expose, metadata) ==
    [ports |-> ports, hostNetwork |-> hostNetwork, expose |-> expose,
     metadata |-> metadata, windows |-> FALSE, envs |-> << NoEnv >>]

(* On Windows, with two containers, one of which brings variables along.   *)
OnWindows(template) ==
    [template EXCEPT !.windows = TRUE,
                     !.envs = << NoEnv, [GSDK_CONFIG_FILE |-> <<"/", "mine.json">>,
                                         MODE |-> <<"/", "fast">>] >>]

Item(key, value) == [key |-> key, value |-> value]

Game  == Port(80, "game", 0)
Query == Port(81, "query", 0)
Plain == Template(<<Game>>, FALSE, <<80>>, <<>>)

(* Templates that the webhook admits and that it refuses: several ports,   *)
(* hidden ones, host networks with and without a matching port and with    *)
(* numbers that are host ports too, two ports of one number, nothing       *)
(* exposed, metadata with and without separators.                          *)
VariousTemplates ==
    { Plain,
      Template(<<Game, Query>>, FALSE, <<81, 80>>,
               <<Item(<<"k">>, <<"v">>), Item(<<"l">>, <<>>)>>),
      OnWindows(Template(<<Query, Port(82, "", 0), Game>>, FALSE, <<80, 81>>, <<>>)),
      Template(<<Game, Port(7, "query", 0)>>, TRUE, <<80, 7>>, <<>>),
      Template(<<Game, Port(7, "query", 0)>>, TRUE, <<80>>, <<>>),
      Template(<<Game>>, TRUE, <<80, 82>>, <<Item(<<"k", "l">>, <<"v", "w">>)>>),
      Template(<<>>, TRUE, <<80>>, <<>>),
      Template(<<Game, Port(82, "admin", 9)>>, FALSE, <<80>>, <<>>),
      Template(<<Game, Port(81, "game", 0)>>, FALSE, <<80, 81>>, <<>>),
      Template(<<Game, Port(80, "other", 0)>>, FALSE, <<80>>, <<>>),
      Template(<<Game, Game>>, FALSE, <<80, 80>>, <<>>),
      Template(<<Game>>, FALSE, <<>>, <<>>),
      Template(<<Game>>, FALSE, <<80>>, <<Item(<<"k">>, <<"v", "?", "w">>)>>),
      Template(<<Game>>, FALSE, <<80>>, <<Item(<<"k">>, <<"v", ",", "w">>)>>),
      Template(<<Game>>, FALSE, <<80, 81>>, <<>>),
      Template(<<Port(80, "", 0)>>, FALSE, <<80>>, <<>>),
      Template(<<Port(80, "game", 9)>>, FALSE, <<80>>, <<>>) }

Asked(id, standingBy, max, template) ==
    [id |-> id, standingBy |-> standingBy, max |-> max, template |-> template]

TheOffers ==
    << {Asked(id, 1, 4, Plain) : id \in {i1, i2}},
       {Asked(i1, s, m, Plain) : s, m \in {-1, 1, 4}},
       {Asked(i1, 1, 4, t) : t \in VariousTemplates} >>

Nothing == [offer |-> 1, creates |-> 0, edits |-> 0, deletes |-> 0,
            patches |-> 0, reports |-> 0, errors |-> 0, restarts |-> 0,
            changes |-> 0]

Build(standingBy, max) ==
    WithStatus(Asked(i1, standingBy, max, Plain), 0, 0)

Empty == [b \in Builds |-> None]

(* Builds that are made, edited and deleted; patches that overtake each    *)
(* other and the rest; every template; the forecaster among other clients. *)
TheScenarios ==
    { [stored |-> Empty,
       left |-> [Nothing EXCEPT !.creates = 3, !.edits = 1, !.deletes = 2]],
      [stored |-> [Empty EXCEPT ![b2] = Build(1, 4)],
       left |-> [Nothing EXCEPT !.offer = 2, !.patches = 2, !.edits = 1,
                                !.deletes = 1, !.creates = 1]],
      [stored |-> Empty,
       left |-> [Nothing EXCEPT !.offer = 3, !.creates = 1, !.edits = 1]],
      [stored |-> [Empty EXCEPT ![Target] = Build(4, 4)],
       left |-> [Nothing EXCEPT !.reports = 1, !.errors = 1, !.restarts = 1,
                                !.changes = 2]],
      [stored |-> [Empty EXCEPT ![Target] = Build(4, 4)],
       left |-> [Nothing EXCEPT !.offer = 2, !.patches = 1, !.edits = 1,
                                !.deletes = 1, !.changes = 1]] }

TheForecasts == { [winters |-> 5, long |-> -2, short |-> 1],
                  [winters |-> 1, long |-> 2, short |-> -1],
                  [winters |-> -3, long |-> -1, short |-> -2] }

TheCounts == {-1, 1, 4}

=============================================================================
