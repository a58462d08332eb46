-------------------------- MODULE MCServerLifecycle --------------------------
(***************************************************************************)
(* ServerLifecycle on small instances.                                     *)
(***************************************************************************)
EXTENDS ServerLifecycle

\* Two URIs of one prefix, one that is handled by its text alone, and one
\* that opens the thread's database connection.
MCUri == << <<"metrics", "reset">>, <<"employee", "5">>, <<"employees">>,
            <<"metrics">>, <<"employee", "">> >>

MCBegins == {<<"employees", "employee">>}
=============================================================================
