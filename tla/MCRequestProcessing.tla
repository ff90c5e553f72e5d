------------------------- MODULE MCRequestProcessing -------------------------
(***************************************************************************)
(* The ways of using the library that the runs distinguish.                *)
(***************************************************************************)
EXTENDS RequestProcessing

\* Sends, passes the request on, throws (perhaps after it has answered), or
\* starts one operation.
OneOperation == {<<>>, <<"reply">>, <<"badParameters">>, <<"throw">>,
                 <<"reply", "throw">>, <<"timer">>, <<"client">>, <<"task">>}

\* A callback that starts no further operation.
Finishing == {<<>>, <<"reply">>, <<"throw">>}

\* Operations, and a processor that throws behind one.
Operating == {<<"timer">>, <<"client">>}
OperatingOrThrowing == {<<"timer">>, <<"throw">>}
Passing == {<<>>}

\* Tasks are the only operations.
TasksOnly == {<<>>, <<"reply">>, <<"throw">>, <<"task">>, <<"task", "reply">>,
              <<"task", "throw">>, <<"task", "task">>}
TasksChaining == {<<>>, <<"reply">>, <<"throw">>, <<"task">>}

=============================================================================
