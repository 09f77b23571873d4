----------------------------- MODULE MCBrowserApp ------------------------------
EXTENDS BrowserApp

MCDirs == {<<>>, <<"a">>}
================================================================================
