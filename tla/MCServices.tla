------------------------------ MODULE MCServices ------------------------------
(* The parts of the service that share no state: each behavior is one of one part. *)
EXTENDS OAuthStore, OperatorApproval, HostExecutor, StorageMigration, FilePages, FileMoves, ArtifactService

CONSTANTS Parts

VARIABLE focus  \* the part that takes steps; the others stay in one initial state

vars == <<focus, oauthVars, approvalVars, hostVars, migrationVars, pageVars, moveVars, artifactVars>>

Init ==
  /\ focus \in Parts
  /\ OAuthInit /\ ApprovalInit /\ HostInit /\ MigrationInit /\ PagesInit /\ MovesInit /\ ArtifactsInit
  /\ focus # "oauth" => DOMAIN disk.clients = {}
  /\ focus # "migration" => latest[Receipt] = 0
  /\ focus # "pages" => encoding = "utf8" /\ text = [ends |-> {0}, size |-> 0]
  /\ focus # "moves" => remote = {} /\ \A p \in Places : tree[p] = {}
  /\ focus # "artifacts" => source = Missing

Next ==
  /\ UNCHANGED focus
  /\ \/ focus = "oauth" /\ OAuthNext /\ UNCHANGED <<approvalVars, hostVars, migrationVars, pageVars, moveVars, artifactVars>>
     \/ focus = "approval" /\ ApprovalNext /\ UNCHANGED <<oauthVars, hostVars, migrationVars, pageVars, moveVars, artifactVars>>
     \/ focus = "host" /\ HostNext /\ UNCHANGED <<oauthVars, approvalVars, migrationVars, pageVars, moveVars, artifactVars>>
     \/ focus = "migration" /\ MigrationNext /\ UNCHANGED <<oauthVars, approvalVars, hostVars, pageVars, moveVars, artifactVars>>
     \/ focus = "pages" /\ PagesNext /\ UNCHANGED <<oauthVars, approvalVars, hostVars, migrationVars, moveVars, artifactVars>>
     \/ focus = "moves" /\ MovesNext /\ UNCHANGED <<oauthVars, approvalVars, hostVars, migrationVars, pageVars, artifactVars>>
     \/ focus = "artifacts" /\ ArtifactsNext
        /\ UNCHANGED <<oauthVars, approvalVars, hostVars, migrationVars, pageVars, moveVars>>

Spec == Init /\ [][Next]_vars

\* Client metadata as registerClient() may get it: with the defaults left out, in full, and
\* with a redirect that is not allowed.
Defaults == [redirects |-> {"https"}, method |-> {}, grants |-> {}, responses |-> {}, scopes |-> {}]
InFull   == [redirects |-> {"loopback", "https"}, method |-> {"none"},
             grants |-> {"authorization_code", "refresh_token"}, responses |-> {"code"}, scopes |-> {"mcp:tools"}]
MCSubmitted == {Defaults, InFull, [InFull EXCEPT !.redirects = {"plain"}]}

MCTargets == {[workspace |-> "w", cwd |-> "p"]}

\* Texts by the widths of their characters: none, 4 3 2 1, 1 2 3 4, 1 4 1 4.
MCTexts == {[ends |-> {0}, size |-> 0], [ends |-> {0, 4, 7, 9, 10}, size |-> 10],
            [ends |-> {0, 1, 3, 6, 10}, size |-> 10], [ends |-> {0, 1, 5, 6, 10}, size |-> 10]}
===============================================================================
