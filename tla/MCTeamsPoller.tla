---------------------------- MODULE MCTeamsPoller ----------------------------
\* A page of three: the two posts about one question nearly fill it.
EXTENDS TeamsPoller

MCBacklogs == {<<>>, <<"question">>}
=============================================================================
