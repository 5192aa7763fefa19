-------------------------- MODULE MCPluginCutover --------------------------
EXTENDS PluginCutover
=============================================================================
