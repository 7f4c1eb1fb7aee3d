---------------------------------- MODULE MCUi ----------------------------------
EXTENDS Ui

\* A directory with a file of two blocks, and a file beside it.
MCCardTrees == {(<<>> :> Folder) @@ (<<<<1, 0>>>> :> Folder)
                  @@ (<<<<1, 0>>, <<2, 0>>>> :> <<1, 2>>) @@ (<<<<2, 0>>>> :> <<3>>)}
MCCustomColors == <<<<18, 18, 20>>, <<0, 210, 255>>>>
MCPalettes == <<<<<<8, 20, 36>>, <<0, 195, 255>>>>>>
MCRates == [cpu |-> [kind |-> "discrete", rates |-> <<1020000, 204000, 1785000>>],
            gpu |-> [kind |-> "discrete", rates |-> <<307200, 76800, 768000>>],
            emc |-> [kind |-> "range", rates |-> <<1600000, 665600>>]]
MCTaps == [cpu |-> {102, 943}, gpu |-> {76, 498}]
MCMaxActs == [browser |-> 6, settings |-> 4, tutorial |-> 8, motors |-> 7, clocks |-> 4, pages |-> 5]
MCMaxRare == [browser |-> 1, settings |-> 1, tutorial |-> 2, motors |-> 2, clocks |-> 1, pages |-> 1]
MCVisited == [browser |-> {0, 1, 2}, settings |-> {0, 8}, tutorial |-> {0, 8}, motors |-> {0, 5, 6},
              clocks |-> {0, 5, 6, 7}, pages |-> {0, 6, 8}]

=============================================================================
