------------------------------ MODULE Browsing ------------------------------
(***************************************************************************)
(* A browser with one of the pages open.                                   *)
(***************************************************************************)
EXTENDS Portfolio, ReportsPage, Bell, PaymentsPage, Account, ProfileEditor,
        Search, RatingPanel, Readers, Assistant, CheckoutPage

\* A page as it is mounted, and the request it sends then.
Mounted ==
  \/ open = "portfolio" /\ \E section \in Section : page = PortfolioPage(section)
  \/ open = "reports" /\ \E admin \in BOOLEAN : page = ReportsBlank(admin)
  \/ open = "bell" /\ page = BellBlank
  \/ open = "payments" /\ page = PaymentsBlank
  \/ open = "account" /\ page = AccountBlank
  \/ open = "editor" /\ page = EditorBlank
  \/ open = "search" /\ page = SearchBlank
  \/ open = "rating" /\ page = RatingBlank
  \/ open = "chat" /\ page = ChatBlank
  \/ open = "draft" /\ page = DraftBlank
  \/ open = "session" /\ page = CheckoutBlank
  \/ open \in ReaderPages /\ page = ReaderBlank

First(name) ==
  CASE name \in {"search", "chat", "draft"} -> Free
    [] name = "portfolio" -> List
    [] name = "bell" -> Request("count", 0, FALSE)
    [] name = "session" -> Request("session", 0, FALSE)
    [] OTHER -> Load

BrowserInit ==
  /\ Mounted
  /\ stored \in {<<>>} \union {<<[id |-> 1, mark |-> mark]>> : mark \in BOOLEAN}
  /\ \E s \in Slots : flight = [t \in Slots |-> IF t = s THEN First(open) ELSE Free]
  /\ lapse = FALSE

BrowserNext ==
  \/ \E s \in Slots :
       \/ PortfolioNext(s) \/ ReportsPageNext(s) \/ BellNext(s) \/ PaymentsPageNext(s)
       \/ AccountNext(s) \/ ProfileEditorNext(s) \/ SearchNext(s) \/ RatingPanelNext(s)
       \/ ReadersNext(s) \/ ChatNext(s) \/ DraftNext(s) \/ CheckoutNext(s)
       \/ Handle(s)
  \/ Elsewhere

BrowserSpec == BrowserInit /\ [][BrowserNext]_browserVars

-----------------------------------------------------------------------------
\* A page that says it is busy has the request in flight it waits for, or the script or the
\* window of the provider, but for the panel of ScriptNeverTold.  And when nothing is in
\* flight, no request overlapped another one, no answer was lost, nobody else wrote since the
\* last load, and the page shows no error, it shows what the API has stored: what is shown
\* before the API answers is taken back if it refuses.  The exceptions are those the pages
\* name: one whom the API refused to sign out, a part whose load failed without a word, and
\* the portfolio and the dashboard that broke.
PageAgrees ==
  /\ open = "portfolio" => PortfolioBusy /\ PortfolioAgrees
  /\ open = "reports" => ReportsPageBusy /\ ReportsPageAgrees
  /\ open = "bell" => BellBusy /\ BellAgrees
  /\ open = "payments" => PaymentsPageBusy /\ PaymentsPageAgrees
  /\ open = "account" => AccountBusy /\ AccountAgrees
  /\ open = "editor" => ProfileEditorBusy /\ ProfileEditorAgrees
  /\ open = "search" => SearchBusy /\ SearchAgrees
  /\ open = "rating" => RatingPanelBusy /\ RatingPanelAgrees
  /\ open \in ReaderPages => ReadersBusy /\ ReadersAgree
  /\ open = "chat" => ChatBusy /\ ChatAgrees
  /\ open = "draft" => DraftBusy /\ DraftAgrees
  /\ open = "session" => CheckoutBusy /\ CheckoutAgrees

\* Inductive.
BrowserInv ==
  /\ FlightsOK
  /\ open = "portfolio" => PortfolioInv
  /\ open = "reports" => ReportsPageInv
  /\ open = "bell" => BellInv
  /\ open = "payments" => PaymentsPageInv
  /\ open = "account" => AccountInv
  /\ open = "editor" => ProfileEditorInv
  /\ open = "search" => SearchInv
  /\ open = "rating" => RatingPanelInv
  /\ open \in ReaderPages => ReadersInv
  /\ open = "chat" => ChatInv
  /\ open = "draft" => DraftInv
  /\ open = "session" => CheckoutInv
=============================================================================
