---------------------------- MODULE MCItemReader ----------------------------
EXTENDS ItemReader, SampleItems
=============================================================================
